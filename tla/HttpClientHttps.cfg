\* The agent of https.js, whose getName names no origin.
CONSTANTS
    Requests = {r1, r2}
    Origins = {a, b}
    Sockets = {s1, s2}
    None = None
    Scheme = "https"
    KeepAlive = TRUE
    MaxSockets = 1
    MaxFreeSockets = 1
    MaxTotalSockets = 2
    CloseByTick = TRUE
    TicksFirst = TRUE
    EndsAtOnce = {TRUE}
    Events = {}
SYMMETRY RequestSymmetry
SPECIFICATION Spec
INVARIANTS
    RightOrigin
CHECK_DEADLOCK FALSE
