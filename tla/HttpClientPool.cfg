\* Three requests, two origins and a pool that keeps idle sockets: queues, idle
\* sockets and refills across origins, under the nextTick of a browser shim:
\* network events may come between ticks.
CONSTANTS
    Requests = {r1, r2, r3}
    Origins = {a, b}
    Sockets = {s1, s2, s3}
    None = None
    Scheme = "http"
    KeepAlive = TRUE
    MaxSockets = 2
    MaxFreeSockets = 1
    MaxTotalSockets = 2
    CloseByTick = TRUE
    TicksFirst = FALSE
    EndsAtOnce = {TRUE}
    Events = {"fin", "timeout", "upgrade"}
SYMMETRY RequestSymmetry
SPECIFICATION Spec
INVARIANTS
    SocketExclusive
    RightOrigin
    NoRequestForgotten
    WaitingHasServer
    GoneIsForgotten
PROPERTIES
    SafeReuse
CHECK_DEADLOCK FALSE
