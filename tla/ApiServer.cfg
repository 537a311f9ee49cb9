SPECIFICATION FairSpec
CONSTANTS
    c1 = c1
    c2 = c2
    t1 = t1
    t2 = t2
    IoThreads = {t1, t2}
    Placements <- MCPlacements
    Conns = {c1, c2}
    Workers = {w1, w2}
    Requests <- MCRoutedRequests
    LookupMayFail = FALSE
    SlowPolls = FALSE
    NoTask = NoTask
    MaxRequests = 2
    MaxQueue = 2
    MaxPending = 1
INVARIANTS
    TypeOK
    OneOperation
    OneReplyPerRequest
PROPERTIES
    GoneIsReleased
    EveryRequestAnswered
CHECK_DEADLOCK FALSE
