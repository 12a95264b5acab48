CONSTANTS
    None = None
    Burned = Burned
    Quiet = Quiet
    Owner = {g, a}
    Minter = g
    Label = {a, Burned, Quiet}
    GrowLabel = {a, Quiet}
    Worker = {w1}
    StartHead = 2
    MaxBlock = 3
    ReorgDepth = 2
    MaxReorgs = 2
    MaxRange = 2
    MaxRollbacks = 2
SPECIFICATION Spec
INVARIANT OwnershipCorrectOnceLive
CHECK_DEADLOCK FALSE
