SPECIFICATION FairSpec
CONSTANTS
    Writers = {w1, w2}
    Keys = {k1, k2}
    Values = {v1, v2}
    None = None
    Absent = Absent
    Torn = Torn
    Free = Free
    MaxPuts = 3
    MaxFailures = 1
    MaxCrashes = 1
INVARIANTS
    TypeOK
    DiskWhole
    KeptIsOnDisk
PROPERTIES
    Durable
    MutexReleased
CHECK_DEADLOCK FALSE
