SPECIFICATION FairSpec
CONSTANTS
    Sub = {"a", "b"}
    DefaultRoute = "a"
    Remote = {"b"}
    HasDeadline = TRUE
    MaxGuards = 2
    MaxLlmCalls = 4
INVARIANTS
    TypeOK
    StepLimitExact
    ResultTellsStop
    UsageIsFinal
PROPERTIES
    ClassifierNeverFatal
    ImplementsContract
    StopEndsTheTurn
CHECK_DEADLOCK FALSE
