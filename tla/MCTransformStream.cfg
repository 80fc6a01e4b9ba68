\* A stream may be closed with every read made.
CONSTANTS
    c1 = c1  c2 = c2  o1 = o1  o2 = o2
    Chunks <- MCChunks
    Outputs <- MCOutputs
    Sizes = {0, 1}
    WritableSizes = {1}
    WritableHighWaterMark = 1
    ReadableHighWaterMark = 1
    MaxReads = 3
    RequestKeysMatch = {TRUE, FALSE}
    Transformers = {"default", "user"}
    CloseRequest = CloseRequest
    AbortRequest = AbortRequest
    None = None
SPECIFICATION Spec
INVARIANTS PassesOn EndsTogether TransformAssertionsHold BackpressureAgrees
PROPERTY WritesSettle
CHECK_DEADLOCK FALSE
