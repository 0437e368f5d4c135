SPECIFICATION Spec
CONSTANTS
    IPC_QUEUE_SIZE = 4
    Msgs = {m1, m2, m3}
    NoMsg = NoMsg
    AddrSpace = 16
    KernelBase = 12
    Image = {3, 4}
    MsgSize = 2
INVARIANTS
    WritesBelowLimit
PROPERTIES
    RefinesFifo
    ResultTellsEffect
