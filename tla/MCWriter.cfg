CONSTANTS
    Items <- MCItems
    Bye = Bye
    DataLen <- MCDataLen
    Empty = Empty
    InitCap = 1
    MaxCnt = 4
    Producers = {p1, p2}
    MaxInFrame = 2
    WriteDelay = TRUE
    MaxQueueSize = 1
    Reasons = {"closed", "stale"}
SPECIFICATION FairSpec
CHECK_DEADLOCK FALSE
INVARIANTS
    WrittenInOrder
    OverflowIsNoticed
    ResizeInBounds
    RingInv
PROPERTIES
    Delivered
    FifoSpec
