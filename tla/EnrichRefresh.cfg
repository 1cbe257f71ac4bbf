SPECIFICATION Spec
CONSTANTS
    c1 = c1
    c2 = c2
    Cve <- MCCve
    Id <- MCId
    Sources <- MCSources
    Publishes <- MCPublishes
    CatalogItem <- MCCatalogItem
    Score <- MCScore
    OsvSeverity <- MCOsvSeverity
    OsvMaxCves = 1
    KevSourceDays = 1
    KevTtl = 1
    OsvTtl = 1
INVARIANTS
    TypeOK
    MergeKeepsEvidence
    UrgentJustified
    UnknownExpires
PROPERTIES
    CapKeepsUrgent
