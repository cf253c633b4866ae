---------------------------- MODULE SessionCache ----------------------------
(***************************************************************************)
(* The cache of TLS sessions of the https Agent (src/src/http/https.js): a *)
(* map from agent keys to sessions, and a list that says which key was     *)
(* cached first. Sockets of createConnection fill it and evict from it.    *)
(***************************************************************************)
EXTENDS Naturals, Sequences, SequencesExt

CONSTANTS Keys,              \* options._agentKey
          Tickets,           \* sessions a server may issue
          Connections,       \* sockets the agent creates (bound)
          MaxCachedSessions  \* the largest maxCachedSessions (bound)

\* No session is there.
NoTicket == "none"

ASSUME CacheAssumption == MaxCachedSessions \in Nat /\ NoTicket \notin Tickets

VARIABLES cache, connections

cacheVars == <<cache, connections>>

\* `map`: the keys that have a session, and which.
CacheType == [max  : 0..MaxCachedSessions,
              map  : [Keys -> Tickets \cup {NoTicket}],
              list : Seq(Keys)]

ConnectionType == [open : BOOLEAN, key : Keys, session : Tickets \cup {NoTicket}]

\* connections[c] is <<>> before createConnection.
CacheTypeOK == /\ cache \in CacheType
               /\ connections \in [Connections -> {<<>>} \cup {<<c>> : c \in ConnectionType}]

CacheInit ==
    /\ cache \in [max : 0..MaxCachedSessions, map : {[k \in Keys |-> NoTicket]}, list : {<<>>}]
    /\ connections = [c \in Connections |-> <<>>]

-----------------------------------------------------------------------------

\* Variant: the oldest key leaves the list only.
DropOldest_ListOnly(c) == IF Len(c.list) >= c.max THEN [c EXCEPT !.list = Tail(@)] ELSE c

DropOldest(c) ==
    IF Len(c.list) >= c.max
    THEN [c EXCEPT !.map[Head(c.list)] = NoTicket, !.list = Tail(@)]
    ELSE c

\* _cacheSession.
CacheSession(c, key, ticket) ==
    IF c.max = 0 THEN c
    ELSE IF c.map[key] # NoTicket THEN [c EXCEPT !.map[key] = ticket]
    ELSE LET d == DropOldest(c)
         IN [d EXCEPT !.map[key] = ticket, !.list = Append(@, key)]

\* _evictSession.
EvictSession(c, key) ==
    IF Contains(c.list, key)
    THEN [c EXCEPT !.list = RemoveFirst(@, key), !.map[key] = NoTicket]
    ELSE c

\* createConnection for a key: _getSession, and the listeners of the socket.
CreateConnection(c, key) ==
    /\ connections[c] = <<>>
    /\ connections' = [connections EXCEPT
                          ![c] = <<[open |-> TRUE, key |-> key, session |-> cache.map[key]]>>]
    /\ UNCHANGED cache

Open(c) == connections[c] # <<>> /\ connections[c][1].open

\* 'session', as often as the server issues one.
SessionIssued(c, ticket) ==
    /\ Open(c)
    /\ cache' = CacheSession(cache, connections[c][1].key, ticket)
    /\ UNCHANGED connections

\* 'close', of a connection that may be older than the session in the cache.
ConnectionCloses(c, hadError) ==
    /\ Open(c)
    /\ cache' = IF hadError THEN EvictSession(cache, connections[c][1].key) ELSE cache
    /\ connections' = [connections EXCEPT ![c][1].open = FALSE]

CacheNext ==
    \E c \in Connections :
        \/ \E key \in Keys : CreateConnection(c, key)
        \/ \E ticket \in Tickets : SessionIssued(c, ticket)
        \/ \E hadError \in BOOLEAN : ConnectionCloses(c, hadError)

CacheSpec == CacheInit /\ [][CacheNext]_cacheVars

-----------------------------------------------------------------------------

\* The map and the list stay one cache, whatever the order in which sockets fill
\* and evict: a key has a session exactly when it is listed, once, and there
\* are never more than maxCachedSessions. Else sessions could stay for good, or
\* a full list could evict a session that was just renewed.
SessionsConsistent ==
    /\ ToSet(cache.list) = {k \in Keys : cache.map[k] # NoTicket}
    /\ IsInjective(cache.list)
    /\ Len(cache.list) <= cache.max
=============================================================================
