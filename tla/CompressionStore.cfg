SPECIFICATION FairSpec
CONSTANTS
    Keys = {1, 2, 3}
    Threads = {t1, t2}
    MaxEntries = 2
    Ttls = {1}
    Backends = {TRUE, FALSE}
    Sigs = {TRUE}
    MaxTime = 2
    MaxStores <- MCMaxStores
    MaxEvents = 1
INVARIANTS
    TypeOK
    CapacityBound
    HeapCoversStore
    HeapAccounting
    EventsExactlyOnce
PROPERTIES
    OldestFirst
    EvictsOnlyForRoom
    HeapBounded
    RetrievalFeedbackDelivered
CHECK_DEADLOCK FALSE
