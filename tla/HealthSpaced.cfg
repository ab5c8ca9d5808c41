SPECIFICATION Spec
CONSTANTS
    Callers = {c1}
    Loop = loop
    NotifyAfter = 2
    NotifyRepeat = 2
    MaxTime = 8
    LastCall = 7
    MaxCrashes = 0
    MaxAlerts = 3
PROPERTIES
    AlertsSpaced
CHECK_DEADLOCK FALSE
