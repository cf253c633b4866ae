\* Two requests to two origins; every call and every event may happen.  Sockets
\* of the operating system: 'close' comes with the closing of the handle.
CONSTANTS
    Requests = {r1, r2}
    Origins = {a, b}
    Sockets = {s1, s2}
    None = None
    Scheme = "http"
    KeepAlive = TRUE
    MaxSockets = 1
    MaxFreeSockets = 1
    MaxTotalSockets = 2
    CloseByTick = FALSE
    TicksFirst = TRUE
    EndsAtOnce = {TRUE, FALSE}
    Events = {"abort", "destroy", "agentDestroy", "eofBody", "double", "garbage", "upgrade", "fin", "reset", "timeout"}
SYMMETRY RequestSymmetry
SPECIFICATION Spec
INVARIANTS
    TypeOK
    SocketExclusive
    NoRequestForgotten
    ErrorListenerGap
    NoUnhandledError
    AtMostOneError
PROPERTIES
    NoErrorAfterClose
CHECK_DEADLOCK FALSE
