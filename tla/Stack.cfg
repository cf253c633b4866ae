CONSTANTS
    MaxHops = 2
    Chunks = 2
    Items <- MCItems
    Signals = {"trusted", "otherName", "untrusted", "finished", "data", "alert", "closeNotify"}
    TlsOptions <- MCTlsOptions
    Certificates = {"trusted", "otherName", "untrusted"}
    Streams = {s1, s2, s3}
    MaxConnections = 2
    MaxListens = 2
    MaxCloses = 2
    Keys = {k1, k2, k3}
    Tickets = {t1, t2}
    Connections = {c1, c2, c3}
    MaxCachedSessions = 2
    Hostnames <- MCHostnames
    Patterns <- MCPatterns
SPECIFICATION FairStackSpec
INVARIANTS
    TypeOK
    StreamAtExit
    DeliveredInOrder
    AckedIsTaken
    TlsLosesNothing
    AppDataAfterHandshake
    AcceptedCounted
    ListenCallbackOnce
    OneTlsClientError
    SessionsConsistent
    IdentityMatches
PROPERTIES
    ConnectSettles
    HandshakeSettles
    CloseAnswered
CHECK_DEADLOCK FALSE
