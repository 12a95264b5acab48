CONSTANTS
    None = None
    Burned = Burned
    Quiet = Quiet
    Owner = {g, a}
    Minter = g
    Label = {a, Burned}
    GrowLabel = {a}
    Worker = {w1}
    StartHead = 3
    MaxBlock = 4
    ReorgDepth = 2
    MaxReorgs = 2
    MaxRange = 2
    MaxRollbacks = 2
SPECIFICATION Spec
INVARIANTS TypeOK OwnerMatchesChain AnchorFloor
PROPERTY HistoryKeepsOwner
CHECK_DEADLOCK FALSE
