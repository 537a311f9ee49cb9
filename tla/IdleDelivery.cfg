SPECIFICATION FairSpec
CONSTANTS
    Conns = {c1}
    NumChats = 2
    Senders = {s1, s2}
    Pollers = {p1}
    Slots = {k1, k2}
    MaxCount = 2
    NoMessage = NoMessage
    NoPoll = NoPoll
    NoWrite = NoWrite
    MaxClock = 2
    MaxMessages = 2
INVARIANTS
    TypeOK
    OnlyNew
    MissedForAReason
CONSTRAINT
    UntilClash
PROPERTIES
    NewestArrives
CHECK_DEADLOCK FALSE
