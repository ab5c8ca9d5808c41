SPECIFICATION Spec
CONSTANTS
    Callers = {}
    Loop = loop
    NotifyAfter = 2
    NotifyRepeat = 2
    MaxTime = 8
    LastCall = 7
    MaxCrashes = 0
    MaxAlerts = 3
INVARIANTS
    RecoveryAfterOutage
CHECK_DEADLOCK FALSE
