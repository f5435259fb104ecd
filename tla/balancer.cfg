CONSTANTS
    c1 = c1
    c2 = c2
    FrontendCount = 2
    Client = {c1, c2}
    Watcher = {heartbeat_func}
    heartbeat_func = heartbeat_func
    MAX_CONNECTIONS = 3
    MaySwitch = {1}
    MaxFaults = 1
    MaxRequests = 3
SPECIFICATION FairSpec
CHECK_DEADLOCK FALSE
INVARIANTS
    LeastLoaded
    HeardOf
    EvenLoad
PROPERTIES
    Answered
