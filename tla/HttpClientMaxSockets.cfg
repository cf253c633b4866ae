\* The limit per origin with keepAlive.
CONSTANTS
    Requests = {r1, r2, r3}
    Origins = {a}
    Sockets = {s1, s2, s3}
    None = None
    Scheme = "http"
    KeepAlive = TRUE
    MaxSockets = 1
    MaxFreeSockets = 1
    MaxTotalSockets = 2
    CloseByTick = TRUE
    TicksFirst = TRUE
    EndsAtOnce = {TRUE}
    Events = {"timeout"}
SYMMETRY RequestSymmetry
SPECIFICATION Spec
INVARIANTS
    MaxSocketsHolds
CHECK_DEADLOCK FALSE
