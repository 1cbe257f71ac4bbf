SPECIFICATION FairSpec
CONSTANTS
    r1 = r1
    r2 = r2
    t1 = t1
    t2 = t2
    advisory = advisory
    notice = notice
    sample = sample
    Replica <- MCReplica1
    Task <- MCTask
    NoTask = NoTask
    LiveItem <- MCLiveItem1
    SampleItem <- MCSampleItem1
    FeedCacheTtl = 1
    PruneInterval = 3
    RetentionDays = 1
    DegradedStart = TRUE
    MaxNow = 4
    MaxFaults = 2
INVARIANTS
    SingleFlight
    RunningRefreshIsHeld
    StepsMatchProgress
PROPERTIES
    PruneThrottled
    StaleIsRefreshed
