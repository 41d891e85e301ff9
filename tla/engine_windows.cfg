SPECIFICATION FairSpec
CONSTANTS
    Point <- PairAndString
    Writer = {w1,w2}
    NotDouble <- Strings
    FlushThreshold = 2
    MaxDay = 1
    FaultKinds = {"sst", "wal"}
    MaxFaults = 1
    Win32 = TRUE
    LoseUnsyncedWal = TRUE
    LoseUnsyncedSst = TRUE
    MaxCrashes = 1
    MaxCloses = 1
    MaxFlushes = 1
CHECK_DEADLOCK FALSE
INVARIANTS MutexHasOwner CleanCloseDurable
PROPERTY WriteReturns
