\* Two pipelined requests; every call, fault and timer; half-open connections
\* are closed at once (the default).
CONSTANTS
    N = 2
    MaxWrites = 1
    HighWaterMark = 2
    HttpAllowHalfOpen = FALSE
    RequestTimeout = TRUE
    Early = TRUE
    Kinds = {"plain", "expectation"}
    Buffers = {TRUE}
    Events = {"fin", "reset", "garbage", "upgrade", "idle", "slow", "destroy", "close"}
SPECIFICATION Spec
INVARIANTS
    TypeOK
    PipelineAligned
    OutgoingDataExact
    PausedHasReason
    WaitingWriterWakes
    KeepAliveTimerOnlyWhenIdle
PROPERTIES
    RefinesPipeline
CHECK_DEADLOCK FALSE
