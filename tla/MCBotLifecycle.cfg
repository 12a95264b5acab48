CONSTANTS
    None = None
    bidding = bidding
    c1 = c1
    h1 = h1
    BotSpecs <- MCOneBot
    Starter <- MCOneStarter
    Stopper <- MCStopper
    Manager = Manager
    MaxGen = 2
    MaxEvents = 2
SPECIFICATION FairSpec
INVARIANTS
    TypeOK
    OneProcess
    StopQuiesces
    CoreFenced
    ShownOwned
    AssignedIdle
PROPERTIES
    StopReturns
    CancelledEnds
