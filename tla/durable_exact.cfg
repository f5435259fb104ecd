\* One thread, every command that replay_log knows, two rows: what recovery rebuilds, and
\* what becomes of mails. Four stamps are a row that is made, emptied and left out by a
\* checkpoint, and the mail that comes next.
CONSTANTS
    admin = admin
    u1 = u1
    root = root
    v1 = v1
    t1 = t1
    t2 = t2
    User = {admin, u1}
    Admin = admin
    Val = {root, v1}
    Null = Null
    Root = root
    Kinds = {"put", "cput", "delete", "putemail", "deleteemail", "register"}
    MaxTime = 4
    Worker = {t1}
    Main = Main
    NoThread = NoThread
    CheckpointInterval = 2
    MaxCrashes = 2
SPECIFICATION Spec
CHECK_DEADLOCK FALSE
INVARIANTS
    RecoveryExact
    MailDurable
