SPECIFICATION FairSpec
CONSTANTS
    r1 = r1
    old = old
    mid = mid
    new = new
    sample = sample
    Replica <- MCReplica
    LiveItem <- MCLiveItem
    SampleItem <- MCSampleItem
    Rank <- MCRank
    Channels = 2
    MaxAlertsPerRun = 2
    UrgentSample <- MCSampleItem
    Rejected <- MCRejected
    RetentionDays = 1
    MaxNow = 2
    MaxFaults = 1
INVARIANTS
    RepeatsHaveACause
    MarkedMeansDelivered
PROPERTIES
    UrgentIsAlerted
