SPECIFICATION FairCoresSpec
CONSTANTS
    Secondary = {1, 2}
    Calls = {one}
    KernelCores = {0, 1}
    MaxPosts = 2
    MaxEntered = 2
    NULL = NULL
    multicore_start = multicore_start
    idle = idle
CHECK_DEADLOCK FALSE
INVARIANT
    ReadyCounted
PROPERTIES
    CalledOnce
    Acknowledged
    CallTaken
    WaitReturns
