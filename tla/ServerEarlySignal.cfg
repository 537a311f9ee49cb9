SPECIFICATION FairSpec
CONSTANTS
    NumIo = 3
    Workers = {w1, w2}
    EarlySignals = TRUE
PROPERTIES
    StopsOnSignal
CHECK_DEADLOCK FALSE
