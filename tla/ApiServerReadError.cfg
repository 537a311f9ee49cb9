SPECIFICATION FairSpec
CONSTANTS
    c1 = c1
    c2 = c2
    t1 = t1
    t2 = t2
    IoThreads = {t1, t2}
    Placements <- MCPlacements
    Conns = {c1}
    Workers = {w1, w2}
    Requests <- MCIdleRequests
    LookupMayFail = FALSE
    SlowPolls = TRUE
    NoTask = NoTask
    MaxRequests = 2
    MaxQueue = 1
    MaxPending = 1
PROPERTIES
    ReadErrorCloses
CHECK_DEADLOCK FALSE
