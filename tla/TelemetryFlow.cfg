SPECIFICATION FlowSpec
CONSTANTS
    QueueSize = 2
    Window = 1
    Retention = 1
    PruneEvery = 2
    MaxEvents = 4
    MaxClock = 5
INVARIANTS
    Accounted
    RetentionBound
    RateBound
PROPERTIES
    Drained
CHECK_DEADLOCK FALSE
