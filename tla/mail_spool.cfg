\* A sender with two recipients and two readers; every server may crash.
CONSTANTS
    b1 = b1
    b2 = b2
    s1 = s1
    s2 = s2
    p1 = p1
    p2 = p2
    Box = {b1}
    Smtp = {s1}
    Pop = {p1, p2}
    NoBox = NoBox
    NoConn = NoConn
    OldBox = {b1}
    MaxMails = 1
    MaxRcpts = 2
    MaxLines = 1
    MaxCrashes = 2
SPECIFICATION FairSpec
CHECK_DEADLOCK FALSE
INVARIANTS
    MutexFree
    SessionView
    SpoolInv
PROPERTIES
    ImplementsMaildrop
    Served
