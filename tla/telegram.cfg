SPECIFICATION MCFairSpec
CONSTANTS
    Messages <- Mixed
    Types <- TwoTypes
    MaxSize = 2
    Window <- Windows
    Outcomes <- TwoOutcomes
    Forever = "STATE_CHANGE"
    DedupeAge = 1
    MaxOffers = 3
    MaxNow = 3
    MaxRestarts = 1
INVARIANTS
    CommandsAttempted
    PostedInOrder
    NewestSurvives
PROPERTIES
    QueueDrains
