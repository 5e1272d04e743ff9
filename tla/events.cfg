CONSTANTS
    Miners = {m1, m2}
    Kinds = {"restart_detected"}
    Window = 2
    Limit = 3
    Shown = 1
    CallTime = 1
    Retention = 2
    MaxRows = 3
    MaxNow = 4
    MaxMishaps = 1
SYMMETRY Interchangeable
SPECIFICATION EventsSpec
INVARIANTS
    IdsNameOneEvent
    EpisodeIsOneOutage
CHECK_DEADLOCK FALSE
