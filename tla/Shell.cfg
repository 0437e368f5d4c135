SPECIFICATION Spec
CONSTANTS
    COLUMNS = 4
    ROWS = 4
    TabSize = 2
    Chars <- MCChars
    LongBits = 8
    Typed <- MCTyped
    LINE = 6
    MAX_ARGS = 2
    MinArgc <- MCMinArgc
    NonEmpty <- MCNonEmpty
    StatNames <- MCStatNames
    Outputs <- MCOutputs
    Stats <- MCStats
    Messages <- MCMessages
    BootChars = {"b", "nl"}
    Warning <- MCWarning
    MaxBoot = 8
    StartRows = {0, 2}
    MaxKeys = 6
INVARIANTS
    StaysOnScreen
    ScreenShowsLine
    RunsWhatWasTyped
    PrintsNumber
CHECK_DEADLOCK FALSE
