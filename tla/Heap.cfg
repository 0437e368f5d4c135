SPECIFICATION HeapSpec
CONSTANTS
    HeapStart = 16
    HeapSize = 100
    Word = 256
    Requests = {0, 5, 13, 40, 255}
INVARIANTS
    Tiled
    RequestsHonoured
PROPERTY
    FailsOnlyWhenFull
