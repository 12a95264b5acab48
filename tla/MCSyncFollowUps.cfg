SPECIFICATION Spec
CONSTANTS
    None = None
    h1 = h1
    h2 = h2
    Hash = {h1, h2}
    TxKey <- MCTxKey
    MaxBlock = 2
    Limit = 2
    MaxAttempts = 2
    MaxCommits = 2
    MaxRollbacks = 1
    MaxFaults = 0
    MaxPlain = 0
SYMMETRY HashSymmetry
CHECK_DEADLOCK FALSE
INVARIANTS
    TypeOK
    EventOwned
    ActivityOwed
