CONSTANTS
    Miners = {m1, m2}
    Coalesce = 1
    Schedule <- OneReminder
    Repeat = 5
    NotifyStartup = TRUE
    NotifyPersistent = TRUE
    Muted = FALSE
    Restarting = {m1}
    Gaps = {1, 2}
    MaxNow = 8
SPECIFICATION MCSpec
INVARIANTS
    TypeOK
    AnnouncedInTime
    RemindedOnSchedule
    RecoveryHasLastWord
    RestartVisible
PROPERTIES
    RecoveriesReportedOnce
    NoPollingTickSpam
