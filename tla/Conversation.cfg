SPECIFICATION Spec
CONSTANTS
    Turn = {t1, t2}
    MaxEvents = 2
    MaxErases = 1
    MaxRestarts = 1
INVARIANTS
    TypeOK
    AppendIsWhole
    ErasedStaysErased
    NothingSkippedUnlessErased
PROPERTIES
    AppendOnly
CHECK_DEADLOCK FALSE
