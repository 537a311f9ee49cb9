SPECIFICATION LookupFairSpec
CONSTANTS
    NumIo = 2
    Workers = {w1}
    EarlySignals = FALSE
    MaxLookups = 2
INVARIANTS
    LookupTypeOK
    ExitIsClean
    LoneLookup
PROPERTIES
    StopsUnlessStuck
CHECK_DEADLOCK FALSE
