SPECIFICATION FairSpec
CONSTANTS
    TotalClusters = 6
    BytesPerSector = 2
    SectorsPerCluster = 2
    DirEntries = 4
    EntriesPerSector = 2
    CacheMax = 3
    UserNames = {"a", "C"}
    DiskNames = {"A", "B", "C"}
    FormatName <- MCFormatName
    Disks <- MCDisks
    Sizes = {0, 3, 5}
    Faults = {"read", "write", "crash"}
    MaxWrites = 3
INVARIANTS
    SoundWhileNothingFailed
    OthersIntact
PROPERTY
    CallsReturn
