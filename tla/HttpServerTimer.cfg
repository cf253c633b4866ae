\* The request timer of a request that expects 100-continue.
CONSTANTS
    N = 2
    MaxWrites = 1
    HighWaterMark = 2
    HttpAllowHalfOpen = FALSE
    RequestTimeout = TRUE
    Early = FALSE
    Kinds = {"plain", "continue"}
    Buffers = {FALSE}
    Events = {"slow"}
SPECIFICATION Spec
INVARIANTS
    ReadRequestHasNoTimer
CHECK_DEADLOCK FALSE
