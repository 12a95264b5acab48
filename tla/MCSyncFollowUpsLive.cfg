SPECIFICATION FairSpec
CONSTANTS
    None = None
    h1 = h1
    h2 = h2
    Hash = {h1, h2}
    TxKey <- MCTxKey
    MaxBlock = 1
    Limit = 2
    MaxAttempts = 1
    MaxCommits = 2
    MaxRollbacks = 1
    MaxFaults = 1
    MaxPlain = 1
CHECK_DEADLOCK FALSE
INVARIANTS
    EventOwned
    ReceiptTruthful
PROPERTIES
    EventsHandled
