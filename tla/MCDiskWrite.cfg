SPECIFICATION FilesSpec
CONSTANTS
    tape = tape
    disk = disk
    Files = {tape, disk}
    TapeFiles = {tape}
    DiskFiles = {disk}
    Chains <- MCChains
    LastCluster = 12
    EntriesPerSector = 4
    SectorWords = 2
    SectorsPerCluster = 2
    BufferWords = 8
    Data = {x}
    Faults = {}
    BlockWords = 8
    TapeBlocks = 2
    Cylinders = 2
    Heads = 2
    Sectors = 2
INVARIANT
    WriteTaken
