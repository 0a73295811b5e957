SPECIFICATION MCSpec
CONSTANTS
    Task = {t1, t2, t3}
    Third = t3
    MaxConcurrent = 2
    Limit = 1
    HasMemory = TRUE
    MaxCalls = 1
INVARIANTS
    TypeOK
    SlotsHold
    ReportedOnce
    DrainLeavesNothing
    OvershootBounded
PROPERTIES
    ImplementsLifecycle
    EveryTaskCloses
    DrainEnds
CHECK_DEADLOCK FALSE
