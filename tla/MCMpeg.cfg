SPECIFICATION Spec
CONSTANTS
    PACKET_SIZE = 6
    CODE_SIZE = 2
    SCAN_WINDOW = 5
    Files <- MCFiles
INVARIANTS
    MpegTypeOK
    FetchedAsScanned
    FetchSucceeds
    AccessPointsOrdered
    AllPacksCounted
    ScanOffsetsRight
CHECK_DEADLOCK FALSE
