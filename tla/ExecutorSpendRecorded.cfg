SPECIFICATION Spec
CONSTANTS
    Task = {t1}
    MaxConcurrent = 1
    Limit = 1
    HasMemory = FALSE
    MaxCalls = 1
INVARIANTS
    SpendRecorded
CHECK_DEADLOCK FALSE
