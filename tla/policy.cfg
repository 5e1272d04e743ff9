SPECIFICATION MCSpec
CONSTANTS
    FailsBeforeAlert = 1
    RecoverySuccesses = 2
    SnapshotMaxAge <- TwoTicks
    Skew = 0
    FleetMinAffected = 2
    FleetGuard = TRUE
    ThermalGuard = TRUE
    FirmwareGuard = TRUE
    N = 1
    LowSustained <- OneTick
    StartupGuard = 1
    Cooldown <- Cooldowns
    Window <- Windows
    MaxReboots = 1
    Attribution = 4
    StaleAfter = 4
    QaModes = {"off", "watch", "act"}
    Readings <- PolicyReadings
    Gaps = {1}
    Delays = {1}
    Downtimes = {1}
    ManualMiners = {1}
    Updates = TRUE
    MaxNow = 6
INVARIANTS
    TypeOK
    AutoRebootEarned
    WindowBound
    RestartIsExplained
PROPERTY
    CooldownSurvivesRestart
