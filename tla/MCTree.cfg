SPECIFICATION TreeSpec
CONSTANTS
    NameOrder <- MCNameOrder
    ISO_BLOCKSIZE = 9
    DotSize = 1
    RecordSize <- MCRecordSize
    Discs <- MCDiscs
    CustomDirs <- MCCustomDirs
    CustomFiles <- MCCustomFiles
    MaxCustom = 3
    SegmentNames <- MCSegmentNames
    SequenceNames <- MCSequenceNames
    DIR_SECTOR = 18
INVARIANTS
    TreeTypeOK
    OrderOfDirsFree
    DirectoriesPacked
    RecordsFit
    PathTablesOrdered
PROPERTIES
    ImplementsPathSet
CHECK_DEADLOCK FALSE
