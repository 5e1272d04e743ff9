SPECIFICATION MCFairSpec
CONSTANTS
    N = 2
    Expiry = 0
    ManualCooldown = 1
    BulkCap = 2
    LowSets <- AllLow
    SavesFail = FALSE
    MaxUpdates = 3
    MaxCrashes = 1
    MaxNow = 1
INVARIANTS
    TypeOK
    ActsOnValidOffer
    NothingPassedOver
PROPERTIES
    ConfirmationUsedUp
    EveryCommandTaken
