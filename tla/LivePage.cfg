SPECIFICATION FairSpec
CONSTANTS
    b1 = b1
    k1 = k1
    k2 = k2
    f1 = f1
    f2 = f2
    Browser <- MCBrowser
    Conn <- MCConn
    Filter <- MCFilter
    FirstFilter = f1
    Slot <- MCSlot
    MaxSubscribers = 1
    QueueSize = 1
    WireSize = 1
    MaxVersion = 2
    MaxFaults = 1
INVARIANTS
    StreamsCapped
    UpdatesAskedFor
PROPERTIES
    PageIsCurrent
