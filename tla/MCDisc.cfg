SPECIFICATION Spec
CONSTANTS
    NoId = NoId
    ISO_BLOCKSIZE = 64
    INFO_OFFSET_MULT = 8
    OFS_SIZE = 18
    LIST_SIZE <- MCListSize
    LINK_SIZE = 2
    AREA_SIZE = 4
    HALF_SECOND = 8
    SEGMENT_SECTORS = 3
    UNSIGNED_SIZE = 65536
    CDIO_PREGAP_SECTORS = 2
    Inputs <- MCInputs
    PSD_MAX = 88
    MARGIN = 1
    PRINT_UNIT = 3
INVARIANTS
    DescriptorsApart
    ListsReadBack
    ItemsFound
    ScanPointsNearest
    RebuiltAlike
CHECK_DEADLOCK FALSE
