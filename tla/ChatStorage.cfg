SPECIFICATION Spec
CONSTANTS
    Names = {alice, bob}
    Passwords = {pw}
    Times <- MCTimes
    Counts <- MCCounts
    FirstHeartBits <- MCFirstHeartBits
    MaxMessages = 1
SYMMETRY MCSymmetry
INVARIANTS
    TypeOK
    FreshIds
    InboxComplete
    References
    NameResolution
PROPERTIES
    OnlyGrows
