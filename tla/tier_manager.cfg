SPECIFICATION FairSpec
CONSTANTS
    Ts = {t1}
    HotDays = 1
    ColdDays = 2
    Archive = TRUE
    ColdSameVolume = TRUE
    ArchiveSameVolume = TRUE
    MaxDay = 5
    MaxFlushes = 2
    MaxCrashes = 1
    MaxFaults = 2
CHECK_DEADLOCK FALSE
INVARIANTS ArchivedNotDeleted
PROPERTIES ColdNotOverwritten ExpiredLeavesHot StopReturns ImplementsRetention
