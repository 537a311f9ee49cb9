SPECIFICATION FairSpec
CONSTRAINT UntilClash
CHECK_DEADLOCK FALSE
CONSTANTS
    Users = {alice}
    NoUser = NoUser
    CmdLineUser = alice
    Passwords = {alice}
    MaxDowns = 1
    MaxInputs = 2
INVARIANTS
    TypeOK
    AckFirst
    StillTrying
PROPERTIES
    LoneAttemptConnects
