SPECIFICATION MCSpec
CONSTANTS
    Stale = 1
    Period = 1
    Schedule <- TwoReminders
    MaxLease = 1
    MaxFaults = 2
    MaxNow = 8
INVARIANTS
    AlarmInTime
    AlarmIsRemembered
    RemindedInTime
