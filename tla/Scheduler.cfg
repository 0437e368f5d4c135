SPECIFICATION FairSpec
CONSTANTS
    MaxTasks = 3
    Quantum = 2
    TickMod = 3
    MaxPid = 4
    Codes = {11, 12, 13, 14}
    ExitCodes <- MCExitCodes
    Stacks = {s1, s2, s3}
    NoStack = NoStack
    NoCode = NoCode
INVARIANTS
    TypeOK
    CurrentRuns
    SavedFramesOnTop
    ActiveCountExact
    StacksAccounted
    ExitCodeDelivered
    OpenReturnNeverSwitches
PROPERTIES
    KernelResumesWhenDone
    NoStarvation
    StartReturns
