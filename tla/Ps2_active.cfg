SPECIFICATION FairSpec
CONSTANTS
    KBD_BUF_SIZE = 3
    Chars = {"7", "8"}
    NoChar = "none"
    Keys <- MCKeys
    Layout <- MCLayout
    BiosCtrs <- MCBiosCtrs
    KbdDepth = 1
    MaxPolls = 2
    BootKeys = FALSE
    MouseMoves = TRUE
PROPERTY
    KeyboardActive
CHECK_DEADLOCK FALSE
