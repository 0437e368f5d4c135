SPECIFICATION Spec
CONSTANTS
    Halves = {0, 27, 35, 4096}
    UserData = 35
    UserCode = 27
    Flags = {0, 1}
INVARIANT FrameUsesUserStack
CHECK_DEADLOCK FALSE
