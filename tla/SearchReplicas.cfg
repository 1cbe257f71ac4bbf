SPECIFICATION FairSpec
CONSTANTS
    r1 = r1
    r2 = r2
    older = older
    shared = shared
    sample = sample
    Replica <- MCReplica
    LiveItem <- MCLiveItem
    SampleItem <- MCSampleItem
    Published <- MCPublished
    SyncLimit = 1
    MaxFaults = 1
PROPERTIES
    LiveRowsSearchable
    SamplesPurged
