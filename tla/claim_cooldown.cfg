SPECIFICATION MCSpec
CONSTANTS
    N = 1
    Expiry = 2
    ManualCooldown = 3
    BulkCap = 1
    LowSets <- AllLow
    SavesFail = FALSE
    MaxUpdates = 4
    MaxCrashes = 0
    MaxNow = 1
PROPERTIES
    ManualCooldownHolds
