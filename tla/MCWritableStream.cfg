\* A stream may be closed and unlocked with every chunk written.
CONSTANTS
    c1 = c1  c2 = c2  c3 = c3
    Chunks <- MCChunks
    Sizes = {0, 1}
    HighWaterMark = 1
    RequestKeysMatch = {TRUE, FALSE}
    CloseRequest = CloseRequest
    AbortRequest = AbortRequest
    None = None
SPECIFICATION Spec
INVARIANTS QueueMatchesRequests ReadyTellsBackpressure SinkProtocol NothingForgotten AssertionsHold
PROPERTY RequestsSettle
CHECK_DEADLOCK FALSE
