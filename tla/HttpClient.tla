---------------------------- MODULE HttpClient ----------------------------
(***************************************************************************)
(* HTTP client requests over the connection pool of an Agent: the life of  *)
(* each ClientRequest (src/src/http/common/client.js) from the call that   *)
(* makes it to its 'close' event, with everything the program, the server  *)
(* and the network can do to it in between.                                *)
(*                                                                         *)
(* One step is one turn of JavaScript: a call of the program, one callback *)
(* of process.nextTick, or one event of a socket, with all the synchronous *)
(* calls it makes.                                                         *)
(***************************************************************************)
EXTENDS Agent, SequencesExt

CONSTANTS TicksFirst,  \* TRUE: all ticks run before the next I/O event (Node)
          EndsAtOnce,  \* values of "the program calls end() when it makes the
                       \* request": {TRUE} for http.get
          Events       \* which of AllEvents may happen

\* What may happen to a request beside its response: calls of the program and
\* events of the network.
AllEvents == {"abort", "destroy", "agentDestroy",
              "eofBody",   \* a response whose body the end of the connection ends
              "double",    \* two responses to one request
              "garbage",   \* bytes that are not HTTP
              "upgrade", "fin", "reset", "timeout"}

ASSUME ClientAssumption ==
    /\ TicksFirst \in BOOLEAN
    /\ TicksFirst \/ CloseByTick
    /\ EndsAtOnce \subseteq BOOLEAN
    /\ Events \subseteq AllEvents

VARIABLES req,     \* the requests (see ReqType)
          crashed  \* an 'error' event without listener ended the process

vars == <<agentVars, req, crashed>>

\* The response: "toEnd" has a body that the end of the connection ends,
\* "complete" is parsed, "read" is read to its last byte, "ended" has emitted
\* 'end', "aborted" was cut off.
ResStates == {"none", "open", "toEnd", "complete", "read", "ended", "aborted"}
Parsed == {"complete", "read", "ended"}

ReqType == [socket    : Sockets \cup {None},
            destroyed : BOOLEAN,
            why       : {"none", "aborted", "error"},  \* abort() or destroy(err) called
            finished  : BOOLEAN,   \* end() was called
            res       : ResStates,
            closed    : BOOLEAN,   \* 'close' was emitted
            errors    : 0..2]      \* 'error' events emitted; 2 stands for more

Init == /\ AgentInit
        /\ req = [r \in Requests |-> [socket |-> None, destroyed |-> FALSE, why |-> "none",
                                      finished |-> FALSE, res |-> "none",
                                      closed |-> FALSE, errors |-> 0]]
        /\ crashed = FALSE

Made(r) == origin[r] # None
Has(s, group) == group \in conn[s].listeners
Unlisten(w, s, groups) == [w EXCEPT !.conn[s].listeners = @ \ groups]

\* A request emits 'error' n times, or 'close'.
Errs(q, n) == [q EXCEPT !.errors = IF @ + n > 2 THEN 2 ELSE @ + n]
Closes(q) == [q EXCEPT !.closed = TRUE]

----------------------------------------------------------------------------
\* Calls of the program.

\* http.request or http.get: a new ClientRequest asks its agent for a socket.
Request(r, o, ends) ==
    /\ ~Made(r)
    /\ ~Underloaded(World, o) \/ Fresh(World) # {}
    /\ origin' = [origin EXCEPT ![r] = o]
    /\ shouldKeepAlive' = [shouldKeepAlive EXCEPT ![r] = KeepAlive \/ MaxSockets # 0]
    /\ req' = [req EXCEPT ![r].finished = ends]
    /\ Become(AddRequest(World, r, o))
    /\ UNCHANGED crashed

\* req.end(): the _finish it ends in does nothing in client.js, so 'prefinish'
\* is never emitted and requestOnPrefinish never runs.
End(r) ==
    /\ Made(r) /\ ~req[r].finished
    /\ req' = [req EXCEPT ![r].finished = TRUE]
    /\ UNCHANGED <<agentVars, crashed>>

\* req.destroy(err), or destroy() when err is FALSE
Destroy(r, err) ==
    LET s == req[r].socket
    IN  /\ "destroy" \in Events
        /\ Made(r) /\ ~req[r].destroyed
        /\ req' = [req EXCEPT ![r].destroyed = TRUE,
                              ![r].why = IF err THEN "error" ELSE @]
        /\ Become(IF s = None THEN World
                  ELSE IF err THEN DestroySocketWithError(World, s)
                  ELSE DestroySocket(World, s))
        /\ UNCHANGED <<origin, shouldKeepAlive, crashed>>

\* req.abort().  Once the request is closed, or destroyed after it had its
\* socket, the call changes nothing the model sees.
Abort(r) ==
    LET s == req[r].socket
    IN  /\ "abort" \in Events
        /\ Made(r) /\ req[r].why = "none" /\ ~req[r].closed
        /\ req[r].destroyed => s = None
        /\ req' = [req EXCEPT ![r].destroyed = TRUE, ![r].why = "aborted"]
        /\ Become(IF s = None THEN World ELSE DestroySocket(World, s))
        /\ UNCHANGED <<origin, shouldKeepAlive, crashed>>

\* agent.destroy(): destroy every socket of the pool, in the order q.
AgentDestroy ==
    LET owned == UNION {pool.sockets[n] \cup pool.freeSockets[n] : n \in Origins}
        live  == {s \in owned : Live(World, s)}
    IN  /\ "agentDestroy" \in Events
        /\ live # {}
        /\ \E q \in SetToSeqs(live) :
              ticks' = IF CloseByTick
                       THEN ticks \o [i \in 1..Len(q) |-> Tick("close", None, q[i])]
                       ELSE ticks
        /\ conn' = [s \in Sockets |-> IF s \in live THEN [conn[s] EXCEPT !.state = "destroyed"]
                                      ELSE conn[s]]
        /\ UNCHANGED <<pool, origin, shouldKeepAlive, req, crashed>>

\* The program reads the last byte of the response: the stream schedules 'end'.
ReadResponse(r) ==
    /\ req[r].res = "complete"
    /\ req' = [req EXCEPT ![r].res = "read"]
    /\ ticks' = Append(ticks, Tick("end", r, None))
    /\ UNCHANGED <<pool, conn, origin, shouldKeepAlive, crashed>>

----------------------------------------------------------------------------
\* Ticks: the callback at the head of the queue runs.

Popped == [World EXCEPT !.ticks = Tail(@)]
Runs(fn, r, s) == ticks # <<>> /\ Head(ticks) = Tick(fn, r, s)

\* onSocketNT for a live request: tickOnSocket attaches it to its socket.
RunOnSocket(r, s) ==
    /\ Runs("onSocket", r, s)
    /\ ~req[r].destroyed
    /\ req' = [req EXCEPT ![r].socket = s]
    /\ Become([Popped EXCEPT !.conn[s].message = r,
                             !.conn[s].listeners = @ \cup {"request", "reader"}])
    /\ UNCHANGED <<origin, shouldKeepAlive, crashed>>

\* Variant: nothing is reported when the socket is gone too.
RunOnSocketDestroyed_Silent(r, s) ==
    /\ Runs("onSocket", r, s)
    /\ req[r].destroyed
    /\ Become(IF Live(World, s) THEN FreeSocket(Popped, s) ELSE Popped)
    /\ req' = IF Live(World, s) THEN [req EXCEPT ![r] = Closes(@)] ELSE req
    /\ UNCHANGED <<origin, shouldKeepAlive, crashed>>

\* Variant: 'close' is emitted at once, and again when the socket is gone.
RunOnSocketDestroyed_NoReturn(r, s) ==
    /\ Runs("onSocket", r, s)
    /\ req[r].destroyed
    /\ Become(IF Live(World, s) THEN FreeSocket(Popped, s)
              ELSE [Popped EXCEPT !.ticks = Append(@, Tick("hangUp", r, None))])
    /\ req' = [req EXCEPT ![r] = Closes(@)]
    /\ UNCHANGED <<origin, shouldKeepAlive, crashed>>

\* onSocketNT for a request destroyed meanwhile: give the socket back, or
\* wait until it is gone (finished), and report the end of the request.
RunOnSocketDestroyed(r, s) ==
    /\ Runs("onSocket", r, s)
    /\ req[r].destroyed
    /\ \/ /\ Live(World, s)
          /\ Become(FreeSocket(Popped, s))
          /\ req' = [req EXCEPT ![r] = Closes(Errs(@, IF req[r].why = "aborted" THEN 0 ELSE 1))]
       \/ /\ ~Live(World, s)
          /\ Become([Popped EXCEPT !.ticks = Append(@, Tick("hangUp", r, None))])
          /\ UNCHANGED req
    /\ UNCHANGED <<origin, shouldKeepAlive, crashed>>

\* The callback of finished(): the stream may report a premature close, which
\* is an error even for an aborted request.  (The code has it called with the
\* 'error' or the 'close' of the socket; here it has a tick of its own, which
\* may come before that.  It changes nothing but the request.)
RunHangUp(r) ==
    /\ Runs("hangUp", r, None)
    /\ \E e \in {0, 1} : /\ req[r].why # "aborted" => e = 1
                         /\ req' = [req EXCEPT ![r] = Closes(Errs(@, e))]
    /\ Become(Popped)
    /\ UNCHANGED <<origin, shouldKeepAlive, crashed>>

\* Variant: every socket is kept alive.
RunEnd_AlwaysFree(r) ==
    /\ Runs("end", r, None)
    /\ req' = [req EXCEPT ![r].res = "ended", ![r].destroyed = TRUE]
    /\ Become([Unlisten(Popped, req[r].socket, {"request", "reader"}) EXCEPT
                  !.ticks = Append(@, Tick("emitFree", r, req[r].socket))])
    /\ UNCHANGED <<origin, shouldKeepAlive, crashed>>

\* Variant: the listeners of the request stay on the socket it frees.
RunEnd_KeepListeners(r) ==
    /\ Runs("end", r, None)
    /\ req' = [req EXCEPT ![r].res = "ended", ![r].destroyed = TRUE]
    /\ Become([Popped EXCEPT !.ticks = Append(@, Tick("emitFree", r, req[r].socket))])
    /\ UNCHANGED <<origin, shouldKeepAlive, crashed>>

\* 'end' of a response: responseOnEnd closes the socket, or lets it go when the
\* request is sent too (responseKeepAlive), or leaves that to 'prefinish'.
RunEnd(r) ==
    LET s == req[r].socket
    IN  /\ Runs("end", r, None)
        /\ \/ /\ ~shouldKeepAlive[r]                  \* destroySoon() or end()
              /\ req' = [req EXCEPT ![r].res = "ended"]
              /\ Become(IF Writable(World, s) THEN [Popped EXCEPT !.conn[s].state = "ended"]
                        ELSE Popped)
           \/ /\ shouldKeepAlive[r] /\ req[r].finished
              /\ req' = [req EXCEPT ![r].res = "ended", ![r].destroyed = TRUE]
              /\ Become([Unlisten(Popped, s, {"request", "reader"}) EXCEPT
                            !.ticks = Append(@, Tick("emitFree", r, s))])
           \/ /\ shouldKeepAlive[r] /\ ~req[r].finished
              /\ req' = [req EXCEPT ![r].res = "ended"]
              /\ Become(Popped)
        /\ UNCHANGED <<origin, shouldKeepAlive, crashed>>

\* emitFreeNT: the request is over and its socket free.
RunEmitFree(r, s) ==
    /\ Runs("emitFree", r, s)
    /\ req' = [req EXCEPT ![r] = Closes(@)]
    /\ Become(FreeSocket(Popped, s))
    /\ UNCHANGED <<origin, shouldKeepAlive, crashed>>

\* What socketCloseListener does to its request.
HangUp(q, hadError) ==
    IF q.res # "none"
    THEN [Closes(q) EXCEPT !.destroyed = TRUE,
             !.res = IF @ \in Parsed THEN @ ELSE "aborted"]
    ELSE [Closes(Errs(q, IF hadError THEN 0 ELSE 1)) EXCEPT !.destroyed = TRUE]

\* 'close' of a socket: the agent forgets it, and its request hangs up.
Closed(w, s) ==
    LET r == conn[s].message
        closed == [w EXCEPT !.conn[s].state = "closed"]
    IN  /\ conn[s].state = "destroyed"
        /\ Become([(IF Has(s, "agent") THEN RemoveSocket(closed, s) ELSE closed)
                      EXCEPT !.conn[s].hadError = @ \/ Has(s, "request")])
        /\ req' = IF Has(s, "request")
                  THEN [req EXCEPT ![r] = HangUp(@, conn[s].hadError)]
                  ELSE req
        /\ UNCHANGED <<origin, shouldKeepAlive, crashed>>

RunClose(s) == Runs("close", None, s) /\ Closed(Popped, s)

\* Variant: _hadError is not set.
RunError_NotNoted(s) ==
    /\ Runs("error", None, s)
    /\ Has(s, "request")
    /\ Become(Unlisten(Popped, s, {"reader"}))
    /\ req' = [req EXCEPT ![conn[s].message] = Errs(@, 1)]
    /\ UNCHANGED <<origin, shouldKeepAlive, crashed>>

\* 'error' of a socket: socketErrorListener, the listener of an idle socket
\* (which fires once), or nobody.
RunError(s) ==
    LET r == conn[s].message
    IN  /\ Runs("error", None, s)
        /\ \/ /\ Has(s, "request")
              /\ Become([Unlisten(Popped, s, {"reader"}) EXCEPT !.conn[s].hadError = TRUE])
              /\ req' = [req EXCEPT ![r] = Errs(@, 1)]
              /\ UNCHANGED crashed
           \/ /\ Has(s, "idle")
              /\ Become(AgentRemove(Unlisten(Popped, s, {"idle"}), s))
              /\ UNCHANGED <<req, crashed>>
           \/ /\ ~Has(s, "request") /\ ~Has(s, "idle")
              /\ Become(Popped)
              /\ crashed' = TRUE
              /\ UNCHANGED req
        /\ UNCHANGED <<origin, shouldKeepAlive>>

----------------------------------------------------------------------------
\* Events of the sockets: the server and the network.

IO == TicksFirst => ticks = <<>>

\* The request socketOnData acts for: its parser reads the open socket s.
Reading(s) == IO /\ conn[s].state = "open" /\ Has(s, "reader")

\* The head of a final response arrives: parserOnIncomingClient.  keep says
\* whether the server keeps the connection, kind how the body ends.
ResponseHead(s, keep, kind) ==
    LET r == conn[s].message
    IN  /\ Reading(s)
        /\ req[r].res = "none"
        /\ kind = "open" \/ (kind = "toEnd" /\ ~keep /\ "eofBody" \in Events)
        /\ req' = [req EXCEPT ![r].res = kind]
        /\ shouldKeepAlive' = [shouldKeepAlive EXCEPT ![r] = @ /\ keep]
        /\ UNCHANGED <<pool, conn, ticks, origin, crashed>>

\* The end of the response arrives, followed in the same chunk by a second
\* response when double is TRUE: parserOnIncomingClient destroys the socket.
ResponseComplete(s, double) ==
    LET r == conn[s].message
    IN  /\ Reading(s)
        /\ req[r].res = "open"
        /\ double => "double" \in Events
        /\ req' = [req EXCEPT ![r].res = "complete"]
        /\ Become(IF double THEN DestroySocket(World, s)
                  ELSE Unlisten(World, s, {"reader"}))
        /\ UNCHANGED <<origin, shouldKeepAlive, crashed>>

\* Bytes that are no HTTP: the parser fails.
ParseError(s) ==
    LET r == conn[s].message
    IN  /\ "garbage" \in Events
        /\ Reading(s)
        /\ req' = [req EXCEPT ![r] = Errs(@, 1)]
        /\ Become([DestroySocket(World, s) EXCEPT !.conn[s].hadError = TRUE])
        /\ UNCHANGED <<origin, shouldKeepAlive, crashed>>

\* A 101 response, or any response to CONNECT.  With a listener the socket
\* leaves the agent for good and belongs to the program.
Upgrade(s, listening) ==
    LET r == conn[s].message
    IN  /\ "upgrade" \in Events
        /\ Reading(s)
        /\ req[r].res = "none"
        /\ \/ /\ listening
              /\ Become([Unlisten(AgentRemove(World, s), s, {"request", "reader"})
                            EXCEPT !.conn[s].message = None])
              /\ req' = [req EXCEPT ![r] = [Closes(@) EXCEPT !.res = "open",
                                                                  !.destroyed = TRUE]]
           \/ /\ ~listening
              /\ Become(DestroySocket(Unlisten(World, s, {"reader"}), s))
              /\ req' = [req EXCEPT ![r].res = "open"]
        /\ UNCHANGED <<origin, shouldKeepAlive, crashed>>

\* The peer ends the connection (FIN).  With a reader: socketOnEnd, which does not
\* tell the parser.  Without one a native socket ends its own side (allowHalfOpen
\* is FALSE; it is TRUE for a generic stream).
PeerEnd(s) ==
    LET r == conn[s].message
        fails == req[r].res = "none" /\ ~conn[s].hadError
    IN  /\ IO
        /\ \/ /\ Live(World, s) /\ Has(s, "reader")
              /\ "fin" \in Events \/ req[r].res = "toEnd"
              /\ req' = [req EXCEPT ![r] = Errs(@, IF fails THEN 1 ELSE 0)]
              /\ Become([DestroySocket(World, s) EXCEPT !.conn[s].hadError = @ \/ fails])
           \/ /\ ~CloseByTick
              /\ conn[s].state = "open" /\ ~Has(s, "reader") /\ Has(s, "agent")
              /\ "fin" \in Events
              /\ Become([World EXCEPT !.conn[s].state = "ended"])
              /\ UNCHANGED req
        /\ UNCHANGED <<origin, shouldKeepAlive, crashed>>

\* The connection fails: refused, reset, broken.  What happens to a socket that
\* left the agent is the program's business.
SocketError(s) ==
    /\ "reset" \in Events
    /\ IO
    /\ Live(World, s) /\ Has(s, "agent")
    /\ Become(DestroySocketWithError(World, s))
    /\ UNCHANGED <<origin, shouldKeepAlive, req, crashed>>

\* An ended socket is destroyed.  A native one is once its write side is flushed
\* (destroySoon, or autoDestroy after the peer's end).  A generic stream has no
\* destroySoon, so responseOnEnd calls end(), of which the peer is not told:
\* autoDestroy acts only if the peer ends its side of itself, which nothing
\* makes it do.  Fairness is therefore of native sockets only.
SocketFinish(s) ==
    /\ IO
    /\ conn[s].state = "ended"
    /\ Become(DestroySocket(World, s))
    /\ UNCHANGED <<origin, shouldKeepAlive, req, crashed>>

\* The handle of a destroyed socket is closed.
HandleClosed(s) ==
    /\ ~CloseByTick
    /\ IO
    /\ Tick("error", None, s) \notin ToSet(ticks)
    /\ Closed(World, s)

\* 'timeout' of a socket: onTimeout of the agent destroys it if it is idle.
IdleTimeout(s) ==
    /\ "timeout" \in Events
    /\ IO
    /\ Has(s, "agent") /\ Live(World, s)
    /\ \E n \in Origins : s \in pool.freeSockets[n]
    /\ Become(DestroySocket(World, s))
    /\ UNCHANGED <<origin, shouldKeepAlive, req, crashed>>

----------------------------------------------------------------------------
Program == \/ \E r \in Requests : \/ \E o \in Origins, e \in EndsAtOnce : Request(r, o, e)
                                  \/ End(r) \/ Abort(r) \/ Destroy(r, TRUE)
                                  \/ Destroy(r, FALSE) \/ ReadResponse(r)
           \/ AgentDestroy

RunTick == \/ \E r \in Requests, s \in Sockets : \/ RunOnSocket(r, s)
                                                 \/ RunOnSocketDestroyed(r, s)
                                                 \/ RunEmitFree(r, s)
           \/ \E r \in Requests : RunEnd(r) \/ RunHangUp(r)
           \/ \E s \in Sockets : RunClose(s) \/ RunError(s)

Network == \E s \in Sockets :
              \/ \E k \in BOOLEAN, b \in {"open", "toEnd"} : ResponseHead(s, k, b)
              \/ \E d \in BOOLEAN : ResponseComplete(s, d)
              \/ \E h \in BOOLEAN : Upgrade(s, h)
              \/ ParseError(s) \/ PeerEnd(s) \/ SocketError(s)
              \/ SocketFinish(s) \/ HandleClosed(s) \/ IdleTimeout(s)

Next == ~crashed /\ (Program \/ RunTick \/ Network)

Spec == Init /\ [][Next]_vars

TypeOK == /\ AgentTypeOK
          /\ req \in [Requests -> ReqType]
          /\ crashed \in BOOLEAN

----------------------------------------------------------------------------
(* Safety *)

PendingFor(s) == {t \in ToSet(ticks) : t.sock = s /\ t.fn \in {"onSocket", "emitFree"}}

\* The requests that use socket s, or are about to.
Users(s) == {t.req : t \in PendingFor(s)}
            \cup (IF Has(s, "request") THEN {conn[s].message} ELSE {})

IsIdle(s) == \E n \in Origins : s \in pool.freeSockets[n]

\* A socket serves one request at a time, whatever mixture of attached
\* listeners and pending ticks says that it is taken, and none while it idles.
SocketExclusive == \A s \in Sockets : /\ Cardinality(Users(s)) <= 1
                                      /\ IsIdle(s) => Users(s) = {}

\* A request is written to a socket connected to the request's own origin.
RightOrigin == \A r \in Requests :
                  req[r].socket # None => conn[req[r].socket].target = origin[r]

\* A request whose 'close' is still to come is somewhere the code will come
\* back to: in the queue of the agent, in a tick, or listening for the 'close'
\* of a socket that has yet to emit it.
NoRequestForgotten ==
    \A r \in Requests : Made(r) /\ ~req[r].closed =>
        \/ \E n \in Origins : r \in ToSet(pool.requests[n])
        \/ \E t \in ToSet(ticks) : t.req = r
        \/ LET s == req[r].socket
           IN  /\ s # None /\ conn[s].message = r /\ Has(s, "request")
               /\ conn[s].state \in {"open", "ended", "destroyed"}

\* While requests wait, the agent owns a busy socket: only the release or the
\* removal of one makes the agent look at its queues again.
WaitingHasServer == (\E n \in Origins : pool.requests[n] # <<>>)
                       => \E n \in Origins : pool.sockets[n] # {}

\* A socket that is closed, or was given to the program, is in no list of the
\* agent: nothing can hand it out again.
GoneIsForgotten ==
    \A s \in Sockets, n \in Origins :
        s \in pool.sockets[n] \cup pool.freeSockets[n]
           => conn[s].state # "closed" /\ Has(s, "agent")

\* Without keepAlive the counter counts the busy sockets and both limits hold.
LimitsHold ==
    ~KeepAlive => /\ pool.total = Cardinality(UNION {pool.sockets[n] : n \in Origins})
                  /\ pool.total <= MaxTotalSockets
                  /\ MaxSockets # 0 => \A n \in Origins :
                                          Cardinality(pool.sockets[n]) <= MaxSockets

\* A live socket of the agent is without an 'error' listener only while the
\* tick that attaches one, or that frees the socket, is queued (the windows
\* that the TODOs at client.js:646 and client.js:776 name).
ErrorListenerGap ==
    \A s \in Sockets :
        Live(World, s) /\ Has(s, "agent") /\ ~Has(s, "request") /\ ~Has(s, "idle")
           => PendingFor(s) # {}

\* No error of the network ends the process: when ticks run before I/O, none
\* falls into those windows.  (A request that the program destroys with an
\* error between the last byte and the 'end' of its response does: the error is
\* then emitted after responseKeepAlive took the listener away.)
NoUnhandledError == TicksFirst /\ crashed => \E r \in Requests : req[r].why = "error"

\* A request emits 'error' at most once, whichever of the six places that can
\* emit it come together ("make sure we don't double-fire the error event").
AtMostOneError == \A r \in Requests : req[r].errors <= 1

\* After 'close' a request emits no 'error'.
NoErrorAfterClose ==
    [][\A r \in Requests : req[r].closed => req'[r].errors = req[r].errors]_vars

\* A socket passes from one request to the next only when the first one is
\* completely sent, its response read to the end, and both sides keep alive.
SafeReuse ==
    [][\A s \in Sockets :
          LET q == conn[s].message
              n == conn'[s].message
          IN  n # q /\ n # None /\ q # None
                 => req[q].finished /\ req[q].res = "ended" /\ shouldKeepAlive[q]]_vars

----------------------------------------------------------------------------
(* What the documents say and the code does not do *)

\* "If we are under maxSockets create a new one ... We are over limit so we'll
\* add it to the queue" (agent.js:252, 259): an origin never has more busy
\* sockets than maxSockets.
MaxSocketsHolds == MaxSockets # 0 =>
                      \A n \in Origins : Cardinality(pool.sockets[n]) <= MaxSockets

\* "Add our listener first, so that we guarantee socket cleanup" (client.js:612):
\* once a kept-alive exchange is over on both sides, the request lets its
\* socket go.
ExchangeReleasesSocket ==
    \A r \in Requests : req[r].finished /\ req[r].res = "ended" /\ shouldKeepAlive[r]
                           => req[r].destroyed

\* "Drop in replacement for http and https modules" (http/README.md:3): a body
\* that the end of the connection delimits is complete when the connection
\* ends; it is not aborted.
EndOfConnectionEndsBody ==
    [][\A s \in Sockets, r \in Requests :
          PeerEnd(s) /\ conn[s].message = r /\ req[r].res = "toEnd"
             => req'[r].res = "complete"]_vars

----------------------------------------------------------------------------
(* Liveness *)

\* The event loop runs ticks, flushes and closes native sockets; the server
\* answers what it reads and ends the bodies it began; the program reads
\* responses.
Fairness ==
    /\ WF_vars(~crashed /\ RunTick)
    /\ \A s \in Sockets :
          /\ WF_vars(~crashed /\ ~CloseByTick /\ SocketFinish(s))
          /\ WF_vars(~crashed /\ HandleClosed(s))
          /\ WF_vars(~crashed /\ \E k \in BOOLEAN, b \in {"open", "toEnd"} :
                                    ResponseHead(s, k, b))
          /\ WF_vars(~crashed /\ \E d \in BOOLEAN : ResponseComplete(s, d))
          /\ WF_vars(~crashed /\ conn[s].message # None
                       /\ req[conn[s].message].res = "toEnd" /\ PeerEnd(s))
    /\ \A r \in Requests : WF_vars(~crashed /\ ReadResponse(r))

FairSpec == Spec /\ Fairness

\* Every request made over native sockets comes to an end: it emits 'close', be
\* it answered, queued behind others, destroyed or cut off.
EveryRequestCloses == \A r \in Requests : Made(r) ~> (req[r].closed \/ crashed)
=============================================================================
