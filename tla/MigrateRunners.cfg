SPECIFICATION Spec
CONSTANTS
    oldJob = oldJob
    newJob = newJob
    oldApi = oldApi
    newApi = newApi
    NoSession = NoSession
    DeadSession = DeadSession
    Runner <- MCRunner
    Server <- MCServer
    Image <- MCImage
    Last = 3
    TableFile <- MCTableFile
    RuntimeRole = TRUE
    InitAttempts = 2
    MaxFaults = 2
INVARIANTS
    LedgerIsSchema
    PendingIsCurrent
    CurrentIsComplete
PROPERTIES
    HistorySpec
    UpgradeCompletes
