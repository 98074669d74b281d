CONSTANTS
    Keys = {k1, k2}
    Minute = 3
    Cost = 2
    Stale = 3
    MaxBuckets = 0
    MaxTime = 4
    MaxWindow = 4
    MaxBack = 1
    Users = {u1}
    Limits = {2, 3}
    CleanupEvery = 1
    MaxInFlight = 1
    MaxUptime = 4
    MaxChanges = 1
SPECIFICATION AdmissionSpec
SYMMETRY Symmetry
INVARIANTS
    AdmissionTypeOK
    WindowBound
    WaitHonoured
    UserWindowBound
PROPERTIES
    RefinesTokenBucket
CHECK_DEADLOCK FALSE
