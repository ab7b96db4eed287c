SPECIFICATION FairSpec
CONSTANTS
    Printers = {p1}
    Tapes = {t1}
    Disks = {d1, d2}
    Installed = {p1, t1, d1}
    Cores = {c0}
    Core0 = c0
    Masked = {p1, t1, d1, d2}
    Buffers = {b1}
    NULL = NULL
    Off = Off
    NoMail = NoMail
    PrinterDelay = 1
    TapeDelay = 0
    Markers <- TwoBlocks
    SdFaults = TRUE
    MaxBlock = 3
    MaxRun = 1
    Columns = 2
    Rows = 2
    Cylinders = 1
    Heads = 1
    Sectors = 1
    SeekTime = 1
    SectorTime = 1
    ClientOps = {"READ_REGISTERS", "RESET", "ACK", "PRINT_CHAR", "SKIPBLK", "READBLK", "BACKBLK", "WRITEBLK", "SEEKCYL", "OTHER"}
    PrintChars = {"LF"}
    DiskCommands <- MCDiskCommands
    PostUntil = 3
    Horizon = 6
CHECK_DEADLOCK FALSE
INVARIANTS
    BusyArmed
    TimersServed
    HeadShowsMarker
PROPERTIES
    CompletionTold
    LinesKept
    Answered
    BusyEnds
ACTION_CONSTRAINT AloneOrTogether
