\* Two threads put; every interleaving of table operations, write_log and two
\* crashes.
CONSTANTS
    admin = admin
    u1 = u1
    root = root
    v1 = v1
    t1 = t1
    t2 = t2
    User = {admin}
    Admin = admin
    Val = {root, v1}
    Null = Null
    Root = root
    Kinds = {"put", "logout"}
    MaxTime = 3
    Worker = {t1, t2}
    Main = Main
    NoThread = NoThread
    CheckpointInterval = 2
    MaxCrashes = 2
SPECIFICATION FairSpec
CHECK_DEADLOCK FALSE
INVARIANTS
    Durable
    DurableInv
    StartsAgain
    CounterMatchesLog
PROPERTIES
    LogProgress
    ComesUp
