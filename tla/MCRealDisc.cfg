SPECIFICATION Spec
CONSTANTS
    NoId = NoId
    s1 = s1
    s2 = s2
    Types = {"VCD", "VCD2", "SVCD"}
    Arguments = {}
    Sources <- RealSources
    EntryTimes = {}
    FileSectors = {40}
    Ids <- RealIds
    PREGAP_SECTORS = 150
    POSTGAP_SECTORS = 150
    GAP_MAX = 300
    FRONT_MARGIN = 30
    REAR_MARGIN = 45
    SEGMENT_SECTOR_SIZE = 150
    MAX_TRACKS = 98
    MAX_SEQ_ENTRIES = 99
    MAX_ENTRIES = 500
    MAX_SEGMENTS = 1980
    ParamsFirst = TRUE
    MaxItems <- RealMaxItems
    SILENCE = 16
    ISO_PVD_SECTOR = 16
    ISO_EVD_SECTOR = 17
    DIR_SECTOR = 18
    KARAOKE_SECTOR = 75
    KARAOKE_SIZE = 75
    INFO_VCD_SECTOR = 150
    ENTRIES_VCD_SECTOR = 151
    LOT_VCD_SECTOR = 152
    LOT_VCD_SIZE = 32
    PSD_VCD_SECTOR = 184
    ALIGNMENT = 75
    MIN_ISO_SIZE = 300
    CD_MAX_SECTORS = 449850
    PsdBlocks <- RealPsdBlocks
    SearchBlocks <- RealSearchBlocks
    ScandataBlocks <- RealScandataBlocks
    DirBlocks = {1, 54, 55, 129, 130}
    CB_FREQUENCY = 75
    Again = FALSE
INVARIANTS
    LayoutDisjoint
CHECK_DEADLOCK FALSE
