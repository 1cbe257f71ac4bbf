SPECIFICATION Spec
CONSTANTS
    r1 = r1
    r2 = r2
    t1 = t1
    t2 = t2
    advisory = advisory
    notice = notice
    sample = sample
    Replica <- MCReplica2
    Task <- MCTask
    NoTask = NoTask
    LiveItem <- MCLiveItem2
    SampleItem <- MCSampleItem2
    FeedCacheTtl = 1
    PruneInterval = 2
    RetentionDays = 1
    DegradedStart = FALSE
    MaxNow = 2
    MaxFaults = 1
SYMMETRY Symmetry
INVARIANTS
    PersistedGenerationRetained
    FeedRenderable
