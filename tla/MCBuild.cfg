SPECIFICATION ObjSpec
CONSTANTS
    NoId = NoId
    a = a
    b = b
    Types = {"VCD", "VCD2"}
    Arguments <- MCArguments
    Sources <- MCSources
    EntryTimes = {1, 8}
    FileSectors = {2}
    Ids <- MCIds
    PREGAP_SECTORS = 2
    POSTGAP_SECTORS = 1
    GAP_MAX = 3
    FRONT_MARGIN = 1
    REAR_MARGIN = 0
    SEGMENT_SECTOR_SIZE = 4
    MAX_TRACKS = 2
    MAX_SEQ_ENTRIES = 2
    MAX_ENTRIES = 4
    MAX_SEGMENTS = 1
    ParamsFirst = TRUE
    MaxItems <- MCMaxItems
INVARIANTS
    ObjTypeOK
    ItemsHaveOwnIds
    EntriesSorted
    SequencesAdjoin
CHECK_DEADLOCK FALSE
