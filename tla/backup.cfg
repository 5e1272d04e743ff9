CONSTANTS
    Writers = {w1, w2}
    Policy <- DailyAndWeekly
    MaxId = 3
    MaxDay = 2
    MaxFaults = 2
SYMMETRY Interchangeable
SPECIFICATION Spec
INVARIANTS
    OneWriter
    RestoreCandidatesAreWhole
    RetentionKeeps
    DrillFindsDamage
CHECK_DEADLOCK FALSE
