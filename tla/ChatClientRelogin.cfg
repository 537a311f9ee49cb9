SPECIFICATION FairSpec
CONSTRAINT UntilClash
CHECK_DEADLOCK FALSE
CONSTANTS
    Users = {alice}
    NoUser = NoUser
    CmdLineUser = NoUser
    Passwords = {alice, NoUser}
    MaxDowns = 1
    MaxInputs = 2
PROPERTIES
    CanRelogin
