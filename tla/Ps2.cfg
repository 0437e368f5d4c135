SPECIFICATION FairSpec
CONSTANTS
    KBD_BUF_SIZE = 3
    Chars = {"7", "8"}
    NoChar = "none"
    Keys <- MCKeys
    Layout <- MCLayout
    BiosCtrs <- MCBiosCtrs
    KbdDepth = 1
    MaxPolls = 2
    BootKeys = TRUE
    MouseMoves = TRUE
INVARIANTS
    KeysInOrder
    CtrKept
PROPERTIES
    RefinesFifo
    KeyboardServed
    BootCompletes
CHECK_DEADLOCK FALSE
