SPECIFICATION RaceSpec
CONSTANTS
    MAX_TASKS = 2
    MAX_ATTEMPTS = 2
    MaxChat = 3
    MaxStops = 0
PROPERTIES
    NoLostTask
CHECK_DEADLOCK FALSE
