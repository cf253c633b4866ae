\* http.get without keepAlive over native sockets: requests to two origins
\* compete for one socket, and every one ends.
CONSTANTS
    Requests = {r1, r2}
    Origins = {a, b}
    Sockets = {s1, s2}
    None = None
    Scheme = "http"
    KeepAlive = FALSE
    MaxSockets = 1
    MaxFreeSockets = 1
    MaxTotalSockets = 1
    CloseByTick = FALSE
    TicksFirst = TRUE
    EndsAtOnce = {TRUE}
    Events = {"fin", "eofBody", "abort"}
SPECIFICATION FairSpec
INVARIANTS
    LimitsHold
PROPERTIES
    EveryRequestCloses
CHECK_DEADLOCK FALSE
