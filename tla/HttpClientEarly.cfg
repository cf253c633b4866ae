\* http.request: a response may end before the request does.
CONSTANTS
    Requests = {r1, r2}
    Origins = {a}
    Sockets = {s1, s2}
    None = None
    Scheme = "http"
    KeepAlive = TRUE
    MaxSockets = 1
    MaxFreeSockets = 1
    MaxTotalSockets = 2
    CloseByTick = TRUE
    TicksFirst = TRUE
    EndsAtOnce = {TRUE, FALSE}
    Events = {}
SYMMETRY RequestSymmetry
SPECIFICATION Spec
INVARIANTS
    ExchangeReleasesSocket
CHECK_DEADLOCK FALSE
