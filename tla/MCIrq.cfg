SPECIFICATION FairIrqSpec
CONSTANTS
    Printers = {p1}
    Tapes = {t1}
    Disks = {}
    Installed = {p1, t1}
    Cores = {c0}
    Core0 = c0
    Masked = {p1}
    Buffers = {b1}
    NULL = NULL
    Off = Off
    NoMail = NoMail
    PrinterDelay = 1
    TapeDelay = 1
    Markers <- TwoBlocks
    SdFaults = FALSE
    MaxBlock = 3
    MaxRun = 1
    Columns = 2
    Rows = 2
    Cylinders = 1
    Heads = 1
    Sectors = 1
    SeekTime = 1
    SectorTime = 1
    ClientOps = {"PRINT_CHAR", "ACK", "BACKBLK"}
    PrintChars = {"CR"}
    DiskCommands <- Moves
    TimerDelays = {1}
    RoundsOfLines <- Rounds
    PostUntil = 3
    Horizon = 6
CHECK_DEADLOCK FALSE
INVARIANTS
    DeliveryArmed
    ScheduledServed
PROPERTIES
    Delivered
    TimerComes
