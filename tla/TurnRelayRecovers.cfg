SPECIFICATION Spec
CONSTANTS
    Sub = {"a"}
    DefaultRoute = "a"
    Remote = {}
    HasDeadline = FALSE
    MaxGuards = 0
    MaxLlmCalls = 3
INVARIANTS
    RelayRecovers
CHECK_DEADLOCK FALSE
