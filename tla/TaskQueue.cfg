SPECIFICATION FairSpec
CONSTANTS
    MAX_TASKS = 2
    MAX_ATTEMPTS = 2
    MaxChat = 3
    MaxStops = 2
INVARIANTS
    TypeOK
    OneJobRuns
    RecordsSound
PROPERTIES
    RecordsKept
    WorkerDecides
    EveryJobSettles
