SPECIFICATION FairFilesSpec
CONSTANTS
    tape = tape
    disk = disk
    Files = {tape, disk}
    TapeFiles = {tape}
    DiskFiles = {disk}
    Chains <- MCChains
    LastCluster = 12
    EntriesPerSector = 4
    SectorWords = 2
    SectorsPerCluster = 2
    BufferWords = 8
    Data = {x}
    Faults = {"data"}
    BlockWords = 8
    TapeBlocks = 2
    Cylinders = 1
    Heads = 1
    Sectors = 2
INVARIANTS
    CacheIsTable
    ReadsTheFile
PROPERTIES
    WritesInside
    CallsReturn
