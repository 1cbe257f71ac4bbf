SPECIFICATION Spec
CONSTANTS
    r1 = r1
    Replica <- MCReplica
    Kind = "other"
    SendsValidator = FALSE
    EmptyVersion <- MCEmptyVersion
    ReadsFail = FALSE
    MinInterval = 1
    MaxVersion = 1
    MaxErrors = 1
    MaxFaults = 0
INVARIANTS
    UnreachableIsReported
