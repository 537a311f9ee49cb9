SPECIFICATION MSpec
CONSTANTS
    Names = {alice, room}
    Logins = {alice}
    Passwords = {pw}
    Times <- MCTimes
    Counts <- MCCounts
    FirstHeartBits <- MCFirstHeartBits
    MaxMessages = 2
    MaxFailures = 2
INVARIANTS
    MTypeOK
    SurvivesFailures
    CreatedIsComplete
PROPERTIES
    ImplementsChatStorage
