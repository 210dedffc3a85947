SPECIFICATION Spec
CONSTANTS
    Discs <- MCDiscs
    NoSheet = NoSheet
    CD_MAX_TRACKS = 3
    MAX_SEQ_ENTRIES = 3
    FRAMESIZE_RAW = 2352
    M2RAW_SIZE = 2336
INVARIANTS
    SinkTypeOK
    OnlyKnownFailures
    BurnsAsSent
PROPERTIES
    ImplementsDiscImage
CHECK_DEADLOCK FALSE
