SPECIFICATION RestartSpec
CONSTANTS
    Keys = {1, 2, 3}
    Threads = {t1}
    MaxEntries = 2
    Ttls = {1}
    Backends = {TRUE}
    Sigs = {TRUE}
    MaxTime = 2
    MaxStores <- MCMaxStores
    MaxEvents = 1
    MaxRestarts = 1
    MaxFaults = 0
PROPERTY
    OldestFirst
CHECK_DEADLOCK FALSE
