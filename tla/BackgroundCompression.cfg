SPECIFICATION FairSpec
CONSTANTS
    Keys = {k1, k2, k3}
    MaxQueue = 2
    MaxJobs = 4
    MaxDrops = 1
INVARIANTS
    TypeOK
    PendingExact
    UnfinishedExact
    SettledInOrder
    AtMostOneLost
    StopDrains
PROPERTIES
    AcceptedSettles
    StopReturns
CHECK_DEADLOCK FALSE
