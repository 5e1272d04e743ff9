CONSTANTS
    MinIntervals = 2
    RejectWarning = 40
    NoShareWarning = 2
    MaxSamples = 4
    Gaps <- MCGaps
    Chains = {"mining", "not mining"}
    MaxNow = 4
    MaxShares = 3
    MaxRestarts = 1
SPECIFICATION QualitySpec
INVARIANTS
    RejectsAreReal
    RestartCannotHide
CHECK_DEADLOCK FALSE
