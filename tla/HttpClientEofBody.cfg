\* A response body that ends with the connection.
CONSTANTS
    Requests = {r1, r2}
    Origins = {a}
    Sockets = {s1, s2}
    None = None
    Scheme = "http"
    KeepAlive = TRUE
    MaxSockets = 1
    MaxFreeSockets = 1
    MaxTotalSockets = 2
    CloseByTick = TRUE
    TicksFirst = TRUE
    EndsAtOnce = {TRUE}
    Events = {"eofBody"}
SPECIFICATION Spec
PROPERTIES
    EndOfConnectionEndsBody
CHECK_DEADLOCK FALSE
