\* Crashes and switch-offs of the primary and of a secondary, every command.
CONSTANTS
    admin = admin
    u1 = u1
    root = root
    v1 = v1
    User = {admin}
    Admin = admin
    Val = {root, v1}
    Null = Null
    Root = root
    Kinds = {"put", "cput", "delete", "register", "logout", "putemail", "deleteemail"}
    MaxTime = 2
    GroupSize = 2
    CheckpointInterval = 2
    MayCrash = {1, 2}
    MaySwitchOff = {1, 2}
    MaxOutages = 2
SPECIFICATION Spec
CHECK_DEADLOCK FALSE
INVARIANTS
    Authentic
PROPERTIES
    NeverBack
