SPECIFICATION MSpec
CONSTANTS
    Names = {alice, room}
    Logins = {alice}
    Passwords = {pw}
    Times <- MCTimes
    Counts <- MCCounts
    FirstHeartBits <- MCFirstHeartBits
    MaxMessages = 1
    MaxFailures = 1
INVARIANTS
    UserRowsTogether
