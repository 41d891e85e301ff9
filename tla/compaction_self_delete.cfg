SPECIFICATION Spec
CONSTANTS
    MinTs <- One
    MaxTs = 2
    BufferLimit = 2
    SmallLimit = 3
    DodMax = 1
    Garbled <- Blocks
    MaxFlushes = 2
    MaxFaults = 0
CHECK_DEADLOCK FALSE
INVARIANT MergeKeepsTs
