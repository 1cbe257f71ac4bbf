SPECIFICATION FairSpec
CONSTANTS
    r1 = r1
    Replica <- MCReplica
    Kind = "ghsa"
    SendsValidator = TRUE
    EmptyVersion <- MCEmptyVersion
    ReadsFail = TRUE
    MinInterval = 2
    MaxVersion = 3
    MaxErrors = 2
    MaxFaults = 2
INVARIANTS
    ReuseIsCurrent
    ValidatorNotAhead
PROPERTIES
    CadenceKept
    UpdateIsPickedUp
