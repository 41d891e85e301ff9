SPECIFICATION FairSpec
CONSTANTS
    Point <- TwoTags
    Writer = {w1,w2}
    NotDouble = {}
    FlushThreshold = 2
    MaxDay = 2
    FaultKinds = {}
    MaxFaults = 0
    Win32 = FALSE
    LoseUnsyncedWal = TRUE
    LoseUnsyncedSst = FALSE
    MaxCrashes = 2
    MaxCloses = 1
    MaxFlushes = 0
CHECK_DEADLOCK FALSE
INVARIANTS AckedDurable LogHoldsAcked LatestIsNewest
PROPERTIES RestartCompletes ImplementsStore
