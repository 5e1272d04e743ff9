SPECIFICATION MCSpec
CONSTANTS
    FailsBeforeAlert = 1
    RecoverySuccesses = 2
    SnapshotMaxAge <- TwoTicks
    Skew = 0
    FleetMinAffected = 2
    FleetGuard = TRUE
    ThermalGuard = TRUE
    FirmwareGuard = TRUE
    N = 2
    LowSustained <- TwoTicks
    StartupGuard = 2
    Cooldown <- Cooldowns
    Window <- Windows
    MaxReboots = 1
    Attribution = 4
    StaleAfter = 4
    QaModes = {"off", "watch"}
    Readings <- FleetReadings
    Gaps = {1}
    Delays = {1}
    Downtimes = {1}
    ManualMiners = {}
    Updates = FALSE
    MaxNow = 6
INVARIANTS
    NoMassReboot
