SPECIFICATION Spec
SYMMETRY MCSymmetry
CONSTANTS
    MaxNodes = 4
    MaxChildren = 5
    Names = {"hello.txt", "x", "x/y"}
    PathOf <- MCPathOf
    Hello = "hello.txt"
    HelloSize = 2
    b1 = b1
    b2 = b2
    Blocks = {b1, b2}
    BufSize = 2
    MaxEnd = 3
    MaxOps = 2
INVARIANTS
    EntriesReachable
    BlocksAccounted
PROPERTY
    RefinesStore
