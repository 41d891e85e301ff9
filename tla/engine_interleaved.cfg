SPECIFICATION Spec
CONSTANTS
    Point <- OneTag
    Writer = {w1,w2}
    NotDouble = {}
    FlushThreshold = 3
    MaxDay = 1
    FaultKinds = {}
    MaxFaults = 0
    Win32 = FALSE
    LoseUnsyncedWal = FALSE
    LoseUnsyncedSst = FALSE
    MaxCrashes = 0
    MaxCloses = 0
    MaxFlushes = 0
CHECK_DEADLOCK FALSE
INVARIANT AckedRecovered
