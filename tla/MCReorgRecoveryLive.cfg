CONSTANTS
    a = a
    b = b
    s1 = s1
    None = None
    Label <- MCLabel
    GrowLabel <- MCGrowLabel
    Slots <- MCOneSlot
    StartHead = 2
    MaxBlock = 4
    ReorgDepth = 2
    MaxReorgs = 2
    BatchSize = 1
    FirstBlock = 2
    MayPurge = TRUE
SPECIFICATION FairSpec
PROPERTIES
    OrphanRemoved
    RecoveryCompletes
CHECK_DEADLOCK FALSE
