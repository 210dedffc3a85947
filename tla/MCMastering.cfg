SPECIFICATION Spec
CONSTANTS
    NoId = NoId
    s1 = s1
    s2 = s2
    Types = {"VCD2", "SVCD"}
    Arguments <- MCArguments
    Sources <- MCSources
    EntryTimes = {1, 3}
    FileSectors = {0, 2}
    Ids <- MCIds
    PREGAP_SECTORS = 2
    POSTGAP_SECTORS = 1
    GAP_MAX = 2
    FRONT_MARGIN = 1
    REAR_MARGIN = 1
    SEGMENT_SECTOR_SIZE = 4
    MAX_TRACKS = 2
    MAX_SEQ_ENTRIES = 1
    MAX_ENTRIES = 3
    MAX_SEGMENTS = 2
    ParamsFirst = TRUE
    MaxItems <- MCMaxItems
    SILENCE = 1
    ISO_PVD_SECTOR = 1
    ISO_EVD_SECTOR = 2
    DIR_SECTOR = 3
    KARAOKE_SECTOR = 7
    KARAOKE_SIZE = 1
    INFO_VCD_SECTOR = 8
    ENTRIES_VCD_SECTOR = 9
    LOT_VCD_SECTOR = 10
    LOT_VCD_SIZE = 1
    PSD_VCD_SECTOR = 11
    ALIGNMENT = 2
    MIN_ISO_SIZE = 22
    CD_MAX_SECTORS = 45
    PsdBlocks <- MCPsdBlocks
    SearchBlocks <- MCSearchBlocks
    ScandataBlocks <- MCScandataBlocks
    DirBlocks = {1}
    CB_FREQUENCY = 3
    Again = FALSE
SYMMETRY SegmentIdSymmetry
INVARIANTS
    TypeOK
    OnlyKnownAborts
    LayoutDisjoint
    SectorsInPlace
    CueSheetKept
    ImageSizeExact
    SizeStaysTrue
CHECK_DEADLOCK FALSE
