SPECIFICATION FairSpec
CONSTANTS
    Tag = {t1, t2}
    Writer = {w1, w2}
    MaxWrites = 3
    MaxCrashes = 1
    MaxFaults = 1
    MaxStops = 2
CHECK_DEADLOCK FALSE
INVARIANTS CleanShutdownSaves OneFileHoldsSave
PROPERTIES WrittenIsSaved ShutdownReturns 
