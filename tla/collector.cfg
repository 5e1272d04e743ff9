CONSTANTS
    Streams = {s1, s2}
    MaxEvents = 1
    Retention = 1
    Offsets = {0, 1}
    MaxLine = 1
    MaxDay = 2
    MaxRuns = 2
    MaxFaults = 2
SYMMETRY Interchangeable
SPECIFICATION Spec
INVARIANTS
    AccountedMeansStored
PROPERTY EpochStable
CHECK_DEADLOCK FALSE
