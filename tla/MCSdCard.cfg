SPECIFICATION FairSdSpec
CONSTANTS
    LastBlock = 2
    MaxNum = 2
    Data = {old, new}
    BlockSize = 4
    Tries = 3
    BaseClock = 41666666
    SlowClock = 400000
    FastClock = 25000000
    Faults = {"lost", "unanswered", "damaged", "data"}
CHECK_DEADLOCK FALSE
INVARIANT
    InitAgrees
PROPERTIES
    ImplementsBlockTransfers
    SdReturns
