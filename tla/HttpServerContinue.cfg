\* 100 Continue for a pipelined request whose response is written as Buffers.
CONSTANTS
    N = 2
    MaxWrites = 1
    HighWaterMark = 2
    HttpAllowHalfOpen = FALSE
    RequestTimeout = FALSE
    Early = FALSE
    Kinds = {"plain", "continue"}
    Buffers = {TRUE}
    Events = {}
SPECIFICATION Spec
INVARIANTS
    ContinueFirst
CHECK_DEADLOCK FALSE
