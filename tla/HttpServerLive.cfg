\* Two pipelined requests and half-open connections: the program answers each
\* request when it is complete, in any order.
CONSTANTS
    N = 2
    MaxWrites = 1
    HighWaterMark = 1
    HttpAllowHalfOpen = TRUE
    RequestTimeout = FALSE
    Early = FALSE
    Kinds = {"plain"}
    Buffers = {FALSE}
    Events = {"fin", "close"}
SPECIFICATION FairSpec
INVARIANTS
    IdleHasTimer
PROPERTIES
    EndsWhenAnswered
    EveryRequestAnswered
    ReadingResumes
CHECK_DEADLOCK FALSE
