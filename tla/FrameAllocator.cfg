SPECIFICATION Spec
CONSTANTS
    FrameSize = 4
    WordBits = 4
    WordBytes = 1
    AddrSpace = 64
    KernelEnd = 10
    MbRegions <- MCMbRegions
    Mmaps <- MCMmaps
INVARIANTS
    FreeCountExact
    ScanFindsLowestRun
PROPERTY
    HandsOutOnlyFree
