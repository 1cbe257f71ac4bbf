SPECIFICATION FairPacing
CONSTANTS
    linux = linux
    kubernetes = kubernetes
    cloud = cloud
    Source <- MCSource
    Stagger = 2
    MaxLag = 1
    MaxLost = 2
INVARIANTS
    StartsSpaced
    WaitBounded
PROPERTIES
    SlotIsUsed
