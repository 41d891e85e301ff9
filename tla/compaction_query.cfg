SPECIFICATION FairQuerySpec
CONSTANTS
    MinTs <- One
    MaxTs = 2
    BufferLimit = 2
    SmallLimit = 2
    DodMax = 1
    Garbled <- Blocks
    MaxFlushes = 2
    MaxFaults = 1
    Range <- Ranges
CHECK_DEADLOCK FALSE
INVARIANTS KeptUnlessOutputTaken MergedWhole QueryComplete
PROPERTIES StopReturns ImplementsTagPoints
