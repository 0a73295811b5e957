SPECIFICATION Spec
CONSTANTS
    Turn = {t1, t2}
    MaxEvents = 1
    MaxErases = 1
    MaxRestarts = 0
INVARIANTS
    NothingSkipped
CHECK_DEADLOCK FALSE
