SPECIFICATION Spec
CONSTANTS
    Keys = {1, 2}
    Threads = {t1, t2}
    MaxEntries = 1
    Ttls = {1}
    Backends = {FALSE}
    Sigs = {TRUE}
    MaxTime = 2
    MaxStores <- MCMaxStores
    MaxEvents = 2
PROPERTY
    SuccessMeansNeverRetrieved
CHECK_DEADLOCK FALSE
