\* A pipe ends, and nothing more need be enqueued.
CONSTANTS
    c1 = c1  c2 = c2
    Chunks <- MCChunks
    Sizes = {0, 1}
    SourceHighWaterMark = 1
    SinkHighWaterMark = 1
    RequestKeysMatch = {TRUE, FALSE}
    Options <- MCOptions
    CloseRequest = CloseRequest
    AbortRequest = AbortRequest
    None = None
SPECIFICATION Spec
INVARIANTS NothingLost EndsInOrder
PROPERTY PipeSettles
CHECK_DEADLOCK FALSE
