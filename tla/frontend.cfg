CONSTANTS
    admin = admin
    u1 = u1
    b1 = b1
    b2 = b2
    User = {admin, u1}
    Admin = admin
    Browser = {b1, b2}
    Nobody = Nobody
    Heartbeat = Heartbeat
    Quit = Quit
    Hash <- MCHash
    ServerCount = 4
    GroupSize = 2
    MaySwitch = {4}
    MaxFaults = 1
    Kinds = {"login", "register", "page", "mail", "logout", "admin", "switch"}
    MaxRequests = 3
SPECIFICATION FairSpec
CHECK_DEADLOCK FALSE
INVARIANTS
    FrontendInv
    RightServer
    AccountsAtHome
    LastLoginHolds
    MasterStays
    
PROPERTIES
    GetsServer
