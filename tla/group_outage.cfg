\* Secondaries are switched off and on again.
CONSTANTS
    admin = admin
    u1 = u1
    root = root
    v1 = v1
    User = {admin}
    Admin = admin
    Val = {root, v1}
    Null = Null
    Root = root
    Kinds = {"put"}
    MaxTime = 2
    GroupSize = 3
    CheckpointInterval = 2
    MayCrash = {}
    MaySwitchOff = {2, 3}
    MaxOutages = 1
SPECIFICATION FairSpec
CHECK_DEADLOCK FALSE
INVARIANTS
    PrimaryHasAll
PROPERTIES
    Drains
