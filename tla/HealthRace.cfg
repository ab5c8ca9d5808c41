SPECIFICATION FairSpec
CONSTANTS
    Callers = {c1}
    Loop = loop
    NotifyAfter = 2
    NotifyRepeat = 2
    MaxTime = 5
    LastCall = 3
    MaxCrashes = 1
    MaxAlerts = 1
INVARIANTS
    TypeOK
    HealthCoherent
PROPERTIES
    OutageAlerted
CHECK_DEADLOCK FALSE
