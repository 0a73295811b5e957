SPECIFICATION ComponentsSpec
CONSTANTS
    MaxAttempts = 3
    MaxFragments = 3
    Agents = {a, x}
    Served = {a}
    Calls = {c1, c2}
    MaxLoads = 3
    TaskIds = {1, 2, 3}
    Owners = {o}
    PageSize = 1
    MaxSaves = 1
    BudgetTasks = {b1, b2}
    Scopes = {s1, s2}
    PerCaller = 1
    PerScope = 1
    MaxDay = 1
    Spans <- SomeSpans
    PENDING_CAP = 1
    SPAN_LINEAGE_CAP = 3
    PENDING_TTL = 0
    DECISION_TTL = 1
    MaxNow = 2
    MaxPolls = 2
    MaxWrites = 2
    Public = {"a", "b"}
    Private = {"x"}
    MaxRelations = 2
    i1 = i1
    i2 = i2
    Ingestion = {i1, i2}
    Sayings <- SomeSayings
    MaxRetries = 1
    MaxFactErases = 1
    MAX_TASKS = 2
    MAX_ATTEMPTS = 2
    MaxChat = 2
    MaxStops = 1
INVARIANTS
    CallIsExact
    DirectorySound
    TablesAreTrue
    NoTaskForgotten
    WikiWritesStand
    MemoryIsKept
    EveryCopySound
PROPERTIES
    SendsAreDue
    AbortsEnd
    WikiViewsAgree
    InputsJudged
    AdaptersFaithful
CHECK_DEADLOCK FALSE
