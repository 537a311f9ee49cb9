SPECIFICATION ServiceSpec
CONSTANTS
    alice = alice
    bob = bob
    team = team
    right = right
    wrong = wrong
    NoTask = NoTask
    Names = {alice, bob, team}
    Passwords = {right, wrong}
    Times <- MCTimes
    Counts <- MCCounts
    FirstHeartBits <- MCFirstHeartBits
    MaxMessages = 3
    Workers = {w1, w2}
    Tasks <- MCTasks
    Registered <- MCRegistered
    Storages <- MCStorages
    Width = 4
    MaxClock = 2
    MaxUsers = 3
    MaxEarly = 0
SYMMETRY MCSymmetry
INVARIANTS
    ServiceTypeOK
    HistoryIsNewest
    HistoryIsRecent
    NoInternalError
PROPERTIES
    UsesStorage
CHECK_DEADLOCK FALSE
