------------------------------- MODULE Agent -------------------------------
(***************************************************************************)
(* The connection pool of src/src/http/common/agent.js: which sockets an   *)
(* Agent owns, which requests wait for one, and what it does when a socket *)
(* is asked for, becomes free, or goes away.                               *)
(*                                                                         *)
(* The functions of the agent call each other synchronously (a 'free'      *)
(* event pools a socket, which removes it from the busy list, which may    *)
(* create a socket for another origin, which emits 'free' again), so each  *)
(* one is an operator from a world to a world.  A world is the record of   *)
(* what the agent can change: the pool, the sockets and the queue of       *)
(* process.nextTick callbacks.                                             *)
(***************************************************************************)
EXTENDS Integers, Sequences, FiniteSets

CONSTANTS Requests,         \* client requests
          Origins,          \* host:port pairs the requests go to
          Sockets,          \* supply of sockets createConnection can return
          None,             \* the null of the code
          Scheme,           \* "http": Agent of agent.js, "https": that of https.js
          KeepAlive,        \* options.keepAlive
          MaxSockets,       \* options.maxSockets; 0 stands for Infinity
          MaxFreeSockets,   \* options.maxFreeSockets
          MaxTotalSockets,  \* options.maxTotalSockets
          CloseByTick       \* TRUE: a destroyed socket emits 'close' in a tick,
                            \* FALSE: when the OS handle reports its closure

ASSUME AgentAssumption ==
    /\ Origins # {} /\ Sockets # {} /\ IsFiniteSet(Sockets)
    /\ None \notin Requests \cup Origins \cup Sockets
    /\ Scheme \in {"http", "https"}
    /\ KeepAlive \in BOOLEAN /\ CloseByTick \in BOOLEAN
    /\ MaxSockets \in Nat
    /\ MaxFreeSockets \in Nat \ {0}
    /\ MaxTotalSockets \in Nat \ {0}

VARIABLES pool,             \* the fields of the Agent (see PoolType)
          conn,             \* the sockets (see ConnType)
          ticks,            \* process.nextTick callbacks, first in first out
          origin,           \* origin[r]: where request r goes; None before it is made
          shouldKeepAlive   \* req.shouldKeepAlive

agentVars == <<pool, conn, ticks, origin, shouldKeepAlive>>

\* getName of https.js calls Function.prototype.call instead of the getName of
\* agent.js: every origin has the name "undefined" followed by the TLS options.
HttpsName(o) == CHOOSE n \in Origins : TRUE

\* Variant: a name without the host and the port.
GetName_NoHost(o) == CHOOSE n \in Origins : TRUE

\* The index of sockets, freeSockets and requests.
GetName(o) == IF Scheme = "https" THEN HttpsName(o) ELSE o

PoolType == [requests    : [Origins -> Seq(Requests)],
             keys        : Seq(Origins),   \* Object.keys(requests)
             sockets     : [Origins -> SUBSET Sockets],
             freeSockets : [Origins -> SUBSET Sockets],
             total       : Int]            \* totalSocketCount

\* "ended": end() was called and the write side is flushing; "closed": 'close'
\* was emitted.  listeners: the groups of listeners on the socket: those of
\* the agent, those of the request (error, close), its readers (data, end),
\* and the error listener of an idle socket.
ConnType == [state     : {"unused", "open", "ended", "destroyed", "closed"},
             target    : Origins \cup {None},
             message   : Requests \cup {None},      \* _httpMessage
             listeners : SUBSET {"agent", "request", "reader", "idle"},
             hadError  : BOOLEAN]                   \* _hadError

TickType == [fn : {"onSocket", "end", "emitFree", "hangUp", "error", "close"},
             req : Requests \cup {None}, sock : Sockets \cup {None}]

Tick(fn, r, s) == [fn |-> fn, req |-> r, sock |-> s]

World == [pool |-> pool, conn |-> conn, ticks |-> ticks]

Become(w) == /\ pool' = w.pool
             /\ conn' = w.conn
             /\ ticks' = w.ticks

Live(w, s) == w.conn[s].state \in {"open", "ended"}
Writable(w, s) == w.conn[s].state = "open"
Fresh(w) == {s \in Sockets : w.conn[s].state = "unused"}
Without(q, e) == LET i == CHOOSE j \in 1..Len(q) : q[j] = e
                 IN  [j \in 1..Len(q) - 1 |-> IF j < i THEN q[j] ELSE q[j + 1]]

----------------------------------------------------------------------------
\* Sockets, as the agent and the client see the net.Socket of the platform.

\* Variant: a state no handler knows.
DestroySocket_Odd(w, s) == IF Live(w, s) THEN [w EXCEPT !.conn[s].state = "closing"] ELSE w

\* socket.destroy(): the first call schedules 'close'.
DestroySocket(w, s) ==
    IF ~Live(w, s) THEN w
    ELSE [w EXCEPT !.conn[s].state = "destroyed",
                   !.ticks = IF CloseByTick THEN Append(@, Tick("close", None, s)) ELSE @]

\* socket.destroy(err): 'error' is emitted before 'close'.
DestroySocketWithError(w, s) ==
    IF ~Live(w, s) THEN w
    ELSE DestroySocket([w EXCEPT !.ticks = Append(@, Tick("error", None, s))], s)

\* createConnection and oncreate: the new socket is busy from the start.
NewSocket(w, s, o) ==
    [w EXCEPT !.conn[s] = [state |-> "open", target |-> o, message |-> None,
                           listeners |-> {"agent"}, hadError |-> FALSE],
              !.pool.sockets[GetName(o)] = @ \cup {s},
              !.pool.total = @ + 1]

\* setRequestSocket: req.onSocket(socket) only schedules onSocketNT.
SetRequestSocket(w, r, s) == [w EXCEPT !.ticks = Append(@, Tick("onSocket", r, s))]

----------------------------------------------------------------------------
\* The agent.

\* Variant: the limit on all sockets is off by one.
Underloaded_OffByOne(w, o) ==
    /\ MaxSockets = 0 \/ Cardinality(w.pool.sockets[GetName(o)]) < MaxSockets
    /\ w.pool.total <= MaxTotalSockets

Underloaded(w, o) ==
    /\ MaxSockets = 0 \/ Cardinality(w.pool.sockets[GetName(o)]) < MaxSockets
    /\ w.pool.total < MaxTotalSockets

Enqueue(w, r, o) ==
    LET n == GetName(o)
    IN  [w EXCEPT !.pool.requests[n] = Append(@, r),
                  !.pool.keys = IF w.pool.requests[n] = <<>> THEN Append(@, n) ELSE @]

\* addRequest: an idle socket is never reused, freeSockets is undefined there.
AddRequest(w, r, o) ==
    IF Underloaded(w, o)
    THEN LET s == CHOOSE x \in Fresh(w) : TRUE
         IN  SetRequestSocket(NewSocket(w, s, o), r, s)
    ELSE Enqueue(w, r, o)

\* Variant: the request leaves the queue but never hears of its socket.
ServeFirst_Discard(w, n, s) ==
    LET q == Tail(w.pool.requests[n])
    IN  [w EXCEPT !.pool.requests[n] = q,
                  !.pool.keys = IF q = <<>> THEN Without(@, n) ELSE @]

\* Hand socket s to the first request waiting under name n.
ServeFirst(w, n, s) ==
    LET r == Head(w.pool.requests[n])
        q == Tail(w.pool.requests[n])
    IN  SetRequestSocket([w EXCEPT !.pool.requests[n] = q,
                                   !.pool.keys = IF q = <<>> THEN Without(@, n) ELSE @],
                         r, s)

\* createSocket for a waiting request: the new socket emits 'free', so it
\* goes to the first request waiting under the name of o.
SocketForWaiting(w, o) ==
    IF Fresh(w) = {} THEN w
    ELSE LET s == CHOOSE x \in Fresh(w) : TRUE
         IN  ServeFirst(NewSocket(w, s, o), GetName(o), s)

\* Variant: a destroyed socket stays among the idle ones.
DropSocket_KeepIdle(w, s) ==
    LET n == GetName(w.conn[s].target)
    IN  [w EXCEPT !.pool.sockets[n] = @ \ {s},
                  !.pool.total = IF s \in w.pool.sockets[n] THEN @ - 1 ELSE @]

\* The first half of removeSocket: one decrement per list s is found in.
DropSocket(w, s) ==
    LET n == GetName(w.conn[s].target)
        busy == s \in w.pool.sockets[n]
        idle == ~Writable(w, s) /\ s \in w.pool.freeSockets[n]
    IN  [w EXCEPT !.pool.sockets[n] = @ \ {s},
                  !.pool.freeSockets[n] = IF idle THEN @ \ {s} ELSE @,
                  !.pool.total = @ - (IF busy THEN 1 ELSE 0) - (IF idle THEN 1 ELSE 0)]

\* Variant: requests of other origins are not looked at.
Refill_SameName(w, s) ==
    IF w.pool.requests[GetName(w.conn[s].target)] # <<>>
    THEN SocketForWaiting(w, w.conn[s].target) ELSE w

\* The second half: a new socket for a waiting request, of the same name if
\* there is one (with the options of the socket that goes away), else of the
\* first name in insertion order, unless that one has a socket.
Refill(w, s) ==
    LET n == GetName(w.conn[s].target)
        m == Head(w.pool.keys)
    IN  IF w.pool.requests[n] # <<>> THEN SocketForWaiting(w, w.conn[s].target)
        ELSE IF w.pool.keys # <<>> /\ w.pool.sockets[m] = {}
        THEN SocketForWaiting(w, origin[Head(w.pool.requests[m])])
        ELSE w

RemoveSocket(w, s) == Refill(DropSocket(w, s), s)

\* May socket s, just released, be kept open for later requests?
Poolable(w, s) ==
    LET n == GetName(w.conn[s].target)
        r == w.conn[s].message
        idle == Cardinality(w.pool.freeSockets[n])
    IN  /\ KeepAlive
        /\ r # None /\ shouldKeepAlive[r]
        /\ w.pool.total <= MaxTotalSockets
        /\ MaxSockets = 0 \/ idle + Cardinality(w.pool.sockets[n]) <= MaxSockets
        /\ idle < MaxFreeSockets

\* Variant: an idle socket gets no 'error' listener.
PoolSocket_NoListener(w, s) ==
    [RemoveSocket([w EXCEPT !.conn[s].message = None], s)
        EXCEPT !.pool.freeSockets[GetName(w.conn[s].target)] = @ \cup {s}]

PoolSocket(w, s) ==
    LET removed == RemoveSocket([w EXCEPT !.conn[s].message = None], s)
    IN  [removed EXCEPT !.conn[s].listeners = @ \cup {"idle"},
                        !.pool.freeSockets[GetName(w.conn[s].target)] = @ \cup {s}]

\* The 'free' event of a socket, handled by the agent while it owns the socket.
FreeSocket(w, s) ==
    LET n == GetName(w.conn[s].target)
    IN  IF "agent" \notin w.conn[s].listeners THEN w
        ELSE IF ~Writable(w, s) THEN DestroySocket(w, s)
        ELSE IF w.pool.requests[n] # <<>> THEN ServeFirst(w, n, s)
        ELSE IF Poolable(w, s) THEN PoolSocket(w, s)
        ELSE DestroySocket(w, s)

\* The 'agentRemove' event: forget the socket, and stop listening to it.
AgentRemove(w, s) ==
    IF "agent" \notin w.conn[s].listeners THEN w
    ELSE [RemoveSocket(w, s) EXCEPT !.conn[s].listeners = @ \ {"agent"}]

AgentInit ==
    /\ pool = [requests |-> [n \in Origins |-> <<>>], keys |-> <<>>,
               sockets |-> [n \in Origins |-> {}], freeSockets |-> [n \in Origins |-> {}],
               total |-> 0]
    /\ conn = [s \in Sockets |-> [state |-> "unused", target |-> None, message |-> None,
                                  listeners |-> {}, hadError |-> FALSE]]
    /\ ticks = <<>>
    /\ origin = [r \in Requests |-> None]
    /\ shouldKeepAlive = [r \in Requests |-> FALSE]

AgentTypeOK ==
    /\ pool \in PoolType
    /\ conn \in [Sockets -> ConnType]
    /\ ticks \in Seq(TickType)
    /\ origin \in [Requests -> Origins \cup {None}]
    /\ shouldKeepAlive \in [Requests -> BOOLEAN]
=============================================================================
