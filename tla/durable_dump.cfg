\* A crash between the truncation of the log and the end of the dump.
CONSTANTS
    admin = admin
    u1 = u1
    root = root
    v1 = v1
    t1 = t1
    t2 = t2
    User = {admin}
    Admin = admin
    Val = {root, v1}
    Null = Null
    Root = root
    Kinds = {"put"}
    MaxTime = 2
    Worker = {t1}
    Main = Main
    NoThread = NoThread
    CheckpointInterval = 2
    MaxCrashes = 1
SPECIFICATION Spec
CHECK_DEADLOCK FALSE
INVARIANTS
    DurableAtAnyCrash
