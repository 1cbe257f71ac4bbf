SPECIFICATION LimiterSpec
CONSTANTS
    k1 = k1
    k2 = k2
    t1 = t1
    t2 = t2
    Key <- MCKey
    Thread <- MCThread
    MaxRequests = 2
    WindowSeconds = 3
    PruneThreshold = 1
    MaxLag = 1
    MaxNow = 5
SYMMETRY Symmetry
INVARIANTS
    RateBounded
PROPERTIES
    RefusalsJustified
