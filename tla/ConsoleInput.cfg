SPECIFICATION FairConsoleSpec
CONSTANTS
    RingCapacity = 2
    EventCapacity = 2
    UartDepth = 2
    ReadSizes = {1, 2}
    SerialBytes = {"x", "HI", "NUL"}
INVARIANT
    StaleReadOnlyAfterSleep
PROPERTY
    ReaderGetsInput
