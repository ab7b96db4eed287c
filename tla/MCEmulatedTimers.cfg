SPECIFICATION Spec
CONSTANTS
    Timers = {b1, b2, b3}
    Keys = {k1, k2, k3}
    NoKey = NoKey
    NoTimer = NoTimer
    NoDeadline = NoDeadline
    Delays = {0, 1, 2}
    Horizon = 3
SYMMETRY Symmetry
INVARIANTS
    TypeOK
    TimersPartitioned
    PendingSorted
    OneTimerPerKey
    NeverExhausted
PROPERTY
    ImplementsDeviceTimers
