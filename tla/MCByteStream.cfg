\* A stream may be closed with every read made.
CONSTANTS
    MaxBytes = 4
    MaxReads = 3
    ChunkLengths = {0, 1, 3}
    Views <- MCViews
    AutoAllocateSizes = {0, 2}
    HighWaterMark = 1
    RequestKeysMatch = {TRUE, FALSE}
SPECIFICATION Spec
INVARIANTS BytesInOrder ByteAssertionsHold
PROPERTY ByteReadsSettle
CHECK_DEADLOCK FALSE
