\* One connection, a new user and one with folders, every file command, one crash.
CONSTANTS
    Null = Null
    Name = {"a", "b"}
    Connection = {c1}
    Kinds = {"uploadfile", "makedir", "move", "remove", "changedir", "rename"}
    Earlier <- MCEarlier
    MaxTime = 4
    MaxId = 6
    MaxDepth = 2
    CheckpointInterval = 2
    MaxCrashes = 1
    NoCommand = NoCommand
SPECIFICATION Spec
CHECK_DEADLOCK FALSE
INVARIANTS
    TreeInv
    Tidy
PROPERTIES
    ImplementsFileSystem
