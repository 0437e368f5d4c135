SPECIFICATION FairAtaSpec
CONSTANTS
    LbaSpace = 3
    Counts <- MCCounts
    MaxPolls = 2
    Attempts = 3
    MaxCalls = 3
INVARIANTS
    ReadsTheSectors
    WritesTheSectors
    OnlyAskedSectorsChange
PROPERTY
    AtaCallsReturn
