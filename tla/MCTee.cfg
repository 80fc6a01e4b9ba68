\* Streams may be closed and unlocked with every read made.
CONSTANTS
    c1 = c1  c2 = c2
    Chunks <- MCChunks
    Sizes = {0, 1}
    HighWaterMark = 1
    MaxReads = 6
    StreamReads = 3
    BranchReads = 2
    SlowReads = 1
    RequestKeysMatch = {TRUE, FALSE}
    TeeKeysMatch = {TRUE}
    None = None
SPECIFICATION TeeSpec
INVARIANTS BranchesAgree BranchAssertionsHold
PROPERTIES ChannelSpec ReadsSettle BranchReadsSettle
CHECK_DEADLOCK FALSE
