CONSTANTS
    m1 = m1
    m2 = m2
    m3 = m3
    g1 = g1
    g2 = g2
    f1 = f1
    MainTasks <- MCMainTasks
    GapTasks <- MCGapTasks
    FactsTasks <- MCFactsTasks
SPECIFICATION Spec
INVARIANTS
    TypeOK
    Exclusive
    NoLostWakeup
PROPERTIES
    PriorityOrder
    MainEventuallyRuns
CHECK_DEADLOCK FALSE
