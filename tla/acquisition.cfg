SPECIFICATION MCFairSpec
CONSTANTS
    w1 = w1
    w2 = w2
    N = 2
    Workers <- TwoWorkers
    Says <- TwoAnswers
    Hung <- LastHung
    MaxEpoch = 2
INVARIANTS
    OneRequestPerMiner
    LeaseHasOwner
PROPERTIES
    RequestBudget
    KeepsPollingPromises
    EpochEnds
