SPECIFICATION CtxSpec
CONSTANTS
    Cores = {0, 1}
    Core0 = 0
    Procs = {1, 2}
    MaxTaken = 3
CHECK_DEADLOCK FALSE
INVARIANTS
    SyscallSaved
    InterruptSaved
    ProcessesKept
PROPERTIES
    FiqTransparent
