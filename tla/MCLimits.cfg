SPECIFICATION FairSpec
CONSTANTS
    NoId = NoId
    a = a
    b = b
    Types = {"VCD2", "SVCD"}
    Arguments = {}
    Sources <- MCSources
    EntryTimes = {1, 8}
    FileSectors = {}
    Ids <- MCIds
    PREGAP_SECTORS = 2
    POSTGAP_SECTORS = 1
    GAP_MAX = 2
    FRONT_MARGIN = 1
    REAR_MARGIN = 1
    SEGMENT_SECTOR_SIZE = 4
    MAX_TRACKS = 1
    MAX_SEQ_ENTRIES = 2
    MAX_ENTRIES = 2
    MAX_SEGMENTS = 1
    ParamsFirst = TRUE
    MaxItems <- MCMaxItems
    SILENCE = 1
    ISO_PVD_SECTOR = 1
    ISO_EVD_SECTOR = 2
    DIR_SECTOR = 3
    KARAOKE_SECTOR = 7
    KARAOKE_SIZE = 3
    INFO_VCD_SECTOR = 10
    ENTRIES_VCD_SECTOR = 11
    LOT_VCD_SECTOR = 12
    LOT_VCD_SIZE = 1
    PSD_VCD_SECTOR = 13
    ALIGNMENT = 2
    MIN_ISO_SIZE = 22
    CD_MAX_SECTORS = 45
    PsdBlocks <- MCPsdBlocks
    SearchBlocks <- MCSearchBlocks
    ScandataBlocks <- MCScandataBlocks
    DirBlocks = {1, 4, 5}
    CB_FREQUENCY = 3
    Again = TRUE
INVARIANTS
    OnlyKnownAborts
    CallbackOften
    SubindexesInOrder
PROPERTY
    OutputReturns
CHECK_DEADLOCK FALSE
