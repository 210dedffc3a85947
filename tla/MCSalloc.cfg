SPECIFICATION Spec
CONSTANTS
    Requests <- MCRequests
    CHUNK_SIZE = 2
    MaxBytes = 3
INVARIANTS
    TypeOK
    NothingBeyondLen
PROPERTY
    ImplementsSectorSpace
CHECK_DEADLOCK FALSE
