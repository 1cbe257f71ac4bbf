SPECIFICATION FairSpec
CONSTANTS
    r1 = r1
    r2 = r2
    refresh = refresh
    Request <- MCRequest
    Background <- MCBackground
    Threads = 2
    PoolSize = 1
    PoolTimeout = 1
    QueryTime = 1
    StatsCacheTtl = 1
INVARIANTS
    StatsFresh
    OnePool
PROPERTIES
    CallsEnd
