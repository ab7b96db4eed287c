SPECIFICATION AppSpec
CONSTANTS
    t1 = t1
    t2 = t2
    printer0 = p1
    tape0 = tp
    disk0 = d1
    b1 = b1
    b2 = b2
    print0_reg <- Regs
    tape_reg = b3
    disk_reg = b4
    ack_reg = b5
    Printers = {p1}
    Tapes = {tp}
    Disks = {d1}
    Installed = {p1, tp, d1}
    Cores = {c0}
    Core0 = c0
    Masked = {p1}
    Buffers = {b1, b2, b3, b4, b5}
    NULL = NULL
    Off = Off
    NoMail = NoMail
    PrinterDelay = 1
    TapeDelay = 0
    Markers <- OneBlock
    SdFaults = TRUE
    MaxBlock = 2
    MaxRun = 0
    Columns = 2
    Rows = 2
    Cylinders = 1
    Heads = 1
    Sectors = 1
    SeekTime = 0
    SectorTime = 0
    ClientOps = {}
    PrintChars = {"CR"}
    DiskCommands <- NoCommands
    TimerDelays = {5}
    RoundsOfLines <- Rounds
    PostUntil = 12
    Horizon = 13
CHECK_DEADLOCK FALSE
INVARIANT TapeWaiterWoken
