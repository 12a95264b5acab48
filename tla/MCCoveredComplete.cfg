CONSTANTS
    ev = ev
    quiet = quiet
    s1 = s1
    None = None
    Label <- MCLabel
    GrowLabel <- MCLabel
    EventLabel <- MCEventLabel
    Slots <- MCOneSlot
    StartHead = 2
    MaxBlock = 3
    ReorgDepth = 3
    MaxReorgs = 2
    MaxRange = 2
SPECIFICATION Spec
INVARIANTS
    CoveredComplete
CHECK_DEADLOCK FALSE
