CONSTANTS
    Byte = {13, 10, 45, 255}
    MaxLength = 5
    BoundaryDashes = 5
    FILE_CHUNK_SIZE = 8
    ServerCount = 3
SPECIFICATION FairTransferSpec
CHECK_DEADLOCK FALSE
INVARIANTS
    ComesBack
PROPERTIES
    Completes
