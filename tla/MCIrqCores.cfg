SPECIFICATION IrqSpec
CONSTANTS
    Printers = {p1}
    Tapes = {}
    Disks = {}
    Installed = {p1}
    Cores = {c0, c1}
    Core0 = c0
    Masked = {}
    Buffers = {b1}
    NULL = NULL
    Off = Off
    NoMail = NoMail
    PrinterDelay = 1
    TapeDelay = 1
    Markers <- TwoBlocks
    SdFaults = FALSE
    MaxBlock = 3
    MaxRun = 1
    Columns = 2
    Rows = 2
    Cylinders = 1
    Heads = 1
    Sectors = 1
    SeekTime = 1
    SectorTime = 1
    ClientOps = {"PRINT_CHAR"}
    PrintChars = {"CR"}
    DiskCommands <- Moves
    TimerDelays = {1}
    RoundsOfLines <- Rounds
    PostUntil = 1
    Horizon = 4
CHECK_DEADLOCK FALSE
INVARIANT
    ScheduledServed
