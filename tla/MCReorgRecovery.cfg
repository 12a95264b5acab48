CONSTANTS
    a = a
    b = b
    s1 = s1
    None = None
    Label <- MCLabel
    GrowLabel <- MCGrowLabel
    Slots <- MCOneSlot
    StartHead = 1
    MaxBlock = 4
    ReorgDepth = 2
    MaxReorgs = 2
    BatchSize = 2
    FirstBlock = 1
    MayPurge = FALSE
SPECIFICATION Spec
INVARIANTS
    TypeOK
    OrphanOwned
    ProvedWindowCanonical
    RolledBackOwed
    RecoveryAtRevision
PROPERTIES
    StoredStable
CHECK_DEADLOCK FALSE
