SPECIFICATION RestartSpec
CONSTANTS
    Keys = {1, 2, 3}
    Threads = {t1, t2}
    MaxEntries = 1
    Ttls = {0}
    Backends = {TRUE}
    Sigs = {TRUE}
    MaxTime = 1
    MaxStores <- MCMaxStores
    MaxEvents = 1
    MaxRestarts = 1
    MaxFaults = 1
SYMMETRY ThreadSymmetry
INVARIANTS
    CapacityDrift
    RestartEventsAtMostOnce
CHECK_DEADLOCK FALSE
