\* Three servers, puts and mails from clients of each: every order of forwarding.
CONSTANTS
    admin = admin
    u1 = u1
    root = root
    v1 = v1
    User = {admin}
    Admin = admin
    Val = {root, v1}
    Null = Null
    Root = root
    Kinds = {"put", "putemail"}
    MaxTime = 3
    GroupSize = 3
    CheckpointInterval = 2
    MayCrash = {}
    MaySwitchOff = {}
    MaxOutages = 0
SPECIFICATION Spec
CHECK_DEADLOCK FALSE
INVARIANTS
    Converged
    MailOnce
