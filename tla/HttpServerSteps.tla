-------------------------- MODULE HttpServerSteps --------------------------
(***************************************************************************)
(* Each action of HttpServer keeps the inductive invariant, and what else it *)
(* does that the theorems need.                                            *)
(***************************************************************************)
EXTENDS HttpServerInvariant

\* The inductive invariant.
IInv == /\ WorldOK(World, parser.arrived, P!Sent(wire), parser.phase)
        /\ parser \in ParserType
        /\ wire \in Seq(Pieces)
        /\ parser.phase = "head" => parser.arrived < N
        /\ sock.peerEnded => ~parser.executing

\* The fields of the world of the variables.
LEMMA WorldIs ==
  /\ World.sock = sock /\ World.srv = srv /\ World.req = req /\ World.res = res
  /\ World.closing = closing /\ World.failed = failed
BY DEF World

\* The same, after a step.
LEMMA WorldPrime ==
  /\ World'.sock = sock' /\ World'.srv = srv' /\ World'.req = req' /\ World'.res = res'
  /\ World'.closing = closing' /\ World'.failed = failed'
BY DEF World

\* A step to the world v.
LEMMA BecomeWorld ==
  ASSUME NEW v \in WorldType, Become(v)
  PROVE  World' = v
BY DEF Become, World, WorldType

\* The abstract specification's Cardinality is this module's.
LEMMA SameCardinality ==
  \A S : P!Cardinality(S) = Cardinality(S)
BY DEF P!Cardinality, Cardinality

\* The number of responses sent whole is a number.
LEMMA SentType ==
  ASSUME NEW w \in Seq(Pieces)
  PROVE  P!Sent(w) \in Nat
<1> DEFINE S == {i \in DOMAIN w : P!EndsResponse(w[i])}
<1>1. IsFiniteSet(1..Len(w))
  BY FS_Interval
<1>2. S \subseteq 1..Len(w)
  OBVIOUS
<1>3. IsFiniteSet(S)
  BY <1>1, <1>2, FS_Subset
<1>4. Cardinality(S) \in Nat
  BY <1>3, FS_CardinalityType
<1> QED
  BY <1>4, SameCardinality DEF P!Sent

\* A piece sent adds one when it ends its response.
LEMMA SentAppend ==
  ASSUME NEW w \in Seq(Pieces), NEW p \in Pieces
  PROVE  P!Sent(Append(w, p)) = P!Sent(w) + IF P!EndsResponse(p) THEN 1 ELSE 0
<1> DEFINE S == {i \in DOMAIN w : P!EndsResponse(w[i])}
<1> DEFINE v == Append(w, p)
<1> DEFINE T == {i \in DOMAIN v : P!EndsResponse(v[i])}
<1>1. IsFiniteSet(1..Len(w))
  BY FS_Interval
<1>2. S \subseteq 1..Len(w)
  OBVIOUS
<1>3. IsFiniteSet(S)
  BY <1>1, <1>2, FS_Subset
<1>4. Cardinality(S) \in Nat
  BY <1>3, FS_CardinalityType
<1>5. /\ DOMAIN v = DOMAIN w \cup {Len(w) + 1} /\ Len(w) + 1 \notin DOMAIN w
      /\ \A i \in DOMAIN w : v[i] = w[i]
      /\ v[Len(w) + 1] = p
  OBVIOUS
<1>6. P!Sent(w) = Cardinality(S) /\ P!Sent(v) = Cardinality(T)
  BY SameCardinality DEF P!Sent
<1> HIDE DEF v, T, S
<1>7. CASE P!EndsResponse(p)
  <2>1. T = S \cup {Len(w) + 1} /\ Len(w) + 1 \notin S
    BY <1>5, <1>7 DEF T, S
  <2>2. Cardinality(T) = Cardinality(S) + 1
    BY <1>3, <2>1, FS_AddElement
  <2> QED
    BY <1>4, <1>6, <1>7, <2>2 DEF v
<1>8. CASE ~P!EndsResponse(p)
  <2>1. T = S
    BY <1>5, <1>8 DEF T, S
  <2> QED
    BY <1>4, <1>6, <1>8, <2>1 DEF v
<1> QED
  BY <1>7, <1>8

\* The types that the lemmas above ask for.
LEMMA ArrivedType ==
  ASSUME IInv
  PROVE  /\ parser.arrived \in 0..N /\ P!Sent(wire) \in Nat
         /\ World \in WorldType
         /\ \A r \in Arrived : r \in Messages /\ r <= parser.arrived
<1>1. parser.arrived \in 0..N
  BY DEF IInv, ParserType
<1>2. P!Sent(wire) \in Nat
  BY SentType DEF IInv
<1>3. World \in WorldType
  BY DEF IInv, WorldOK
<1> QED
  BY <1>1, <1>2, <1>3, ServerAssumption DEF Arrived, Messages

\* The parser runs only while the client has not ended its side.
LEMMA CanParsePeer ==
  ASSUME IInv, CanParse
  PROVE  ~sock.peerEnded
BY DEF IInv, CanParse

\* A step that changes nothing the invariant is about.
LEMMA CalmStep ==
  ASSUME IInv, Calm(World, World', parser.arrived), wire' = wire,
         parser' \in ParserType, parser'.arrived = parser.arrived,
         parser.phase = "upgraded" => parser'.phase = "upgraded",
         parser.phase = "gone" => parser'.phase = "gone",
         parser'.phase = "head" => parser'.arrived < N,
         parser'.executing => ~sock.peerEnded
  PROVE  IInv'
<1>1. parser.arrived \in 0..N
  BY ArrivedType
<1>2. WorldOK(World', parser.arrived, P!Sent(wire), parser'.phase)
  BY <1>1, CalmKeeps DEF IInv
<1>3. sock'.peerEnded = sock.peerEnded
  BY DEF Calm, World
<1> QED
  BY <1>2, <1>3 DEF IInv

\* The error response leaves, and with it the connection ends.
Refuses == /\ sock.state = "open" /\ sock'.state = "destroyed"
           /\ wire = <<>> /\ wire' = Append(wire, P!Piece(0, "error"))

\* It is a piece, and answers nothing.
LEMMA ErrorPiece ==
  P!Piece(0, "error") \in Pieces /\ ~P!EndsResponse(P!Piece(0, "error"))
<1>1. 0 \in 0..N /\ "error" \in P!Parts
  BY ServerAssumption DEF P!Parts
<1> QED
  BY <1>1 DEF P!Piece, Pieces, P!EndsResponse

\* So no response is counted.
LEMMA RefusesSent ==
  ASSUME wire \in Seq(Pieces), Refuses
  PROVE  wire' \in Seq(Pieces) /\ P!Sent(wire') = P!Sent(wire)
<1>1. PICK e \in Pieces : e = P!Piece(0, "error") /\ ~P!EndsResponse(e)
  BY ErrorPiece
<1>2. wire' = Append(wire, e)
  BY <1>1 DEF Refuses
<1>3. P!Sent(Append(wire, e)) = P!Sent(wire) + 0
  BY <1>1, SentAppend
<1>4. P!Sent(wire) \in Nat
  BY SentType
<1> QED
  BY <1>2, <1>3, <1>4

\* A step that kills the socket.
LEMMA DiesStep ==
  ASSUME IInv, Dies(World, World', parser.arrived, parser.phase, parser'.phase),
         wire' = wire \/ Refuses,
         parser' \in ParserType, parser'.arrived = parser.arrived,
         parser'.phase = "head" => parser'.arrived < N,
         ~parser'.executing
  PROVE  IInv'
<1>1. parser.arrived \in 0..N
  BY ArrivedType
<1>2. WorldOK(World', parser.arrived, P!Sent(wire), parser'.phase)
  BY <1>1, DiesKeeps DEF IInv
<1>3. wire' \in Seq(Pieces) /\ P!Sent(wire') = P!Sent(wire)
  BY RefusesSent DEF IInv
<1> QED
  BY <1>2, <1>3 DEF IInv

\* socketOnError, on a world that differs from the variables' in what the
\* handler has set before.
LEMMA ErrorStep ==
  ASSUME IInv, NEW u \in WorldType, SocketOnError(u),
         u.sock.state = sock.state, u.sock.message = sock.message, u.sock.buf = sock.buf,
         u.srv.incoming = srv.incoming, u.srv.outgoing = srv.outgoing,
         u.srv.outgoingData = srv.outgoingData,
         u.res = res, u.closing = closing, u.failed = failed,
         parser' \in ParserType, parser'.arrived = parser.arrived,
         parser'.phase = "head" => parser'.arrived < N,
         parser.phase = "gone" => parser'.phase = "gone",
         ~parser'.executing
  PROVE  /\ IInv' /\ ~Alive(World') /\ req' = u.req
         /\ wire' = wire \/ Refuses
<1>1. PICK x : x = ErrorUnsent(u)
  OBVIOUS
<1>2. PICK y : y = DestroySocket(u)
  OBVIOUS
<1>3. /\ Dies(World, x, parser.arrived, parser.phase, parser'.phase)
      /\ Dies(World, y, parser.arrived, parser.phase, parser'.phase)
  BY <1>1, <1>2, WorldIs, ErrorEffect
<1>4. x.req = u.req /\ y.req = u.req
  BY <1>1, <1>2, ErrorRequests
<1>5. CASE Become(x) /\ wire' = wire
  <2>1. World' = x
    BY <1>3, <1>5, BecomeWorld DEF Dies
  <2>2. ~Alive(World')
    BY <1>3, <2>1 DEF Dies
  <2> QED
    BY <1>3, <1>4, <1>5, <2>1, <2>2, DiesStep, WorldPrime
<1>6. CASE CanAnswerError(u) /\ Become(y) /\ wire' = Append(wire, P!Piece(0, "error"))
  <2>1. World' = y
    BY <1>3, <1>6, BecomeWorld DEF Dies
  <2>2. ~Alive(World')
    BY <1>3, <2>1 DEF Dies
  <2>3. sock.state = "open" /\ wire = <<>>
    BY <1>6 DEF CanAnswerError
  <2>4. sock'.state = "destroyed"
    <3>1. y.sock.state = "destroyed"
      BY <1>2, <2>3 DEF DestroySocket, Alive, WorldType, SockType
    <3> QED
      BY <2>1, <3>1, WorldPrime
  <2>5. Refuses
    BY <1>6, <2>3, <2>4 DEF Refuses
  <2> QED
    BY <1>3, <1>4, <2>1, <2>2, <2>5, DiesStep, WorldPrime
<1> QED
  BY <1>1, <1>2, <1>5, <1>6 DEF SocketOnError

\* Nothing happening is calm.
LEMMA CalmReflexive ==
  ASSUME NEW w \in WorldType, NEW a
  PROVE  Calm(w, w, a)
BY DEF Calm, SameBuf

-----------------------------------------------------------------------------
(* The client's steps. *)

\* onMessageBegin: the parser starts on a request.
LEMMA MessageBeginStep ==
  ASSUME IInv, MessageBegin
  PROVE  IInv'
<1>1. World \in WorldType
  BY ArrivedType
<1>2. /\ sock' = [sock EXCEPT !.timer = @ \/ RequestTimeout]
      /\ srv' = srv /\ req' = req /\ res' = res /\ closing' = closing /\ failed' = failed
      /\ wire' = wire
      /\ parser' = [parser EXCEPT !.executing = TRUE, !.phase = "head"]
      /\ parser.phase = "idle" /\ parser.arrived < N /\ CanParse
  BY DEF MessageBegin
<1>3. sock \in SockType
  BY <1>1, WorldIs, WorldFields
<1>4. /\ sock' \in SockType
      /\ sock'.state = sock.state /\ sock'.buf = sock.buf /\ sock'.needDrain = sock.needDrain
      /\ sock'.message = sock.message /\ sock'.peerEnded = sock.peerEnded
      /\ sock'.paused = sock.paused
  BY <1>2, <1>3, ServerAssumption DEF SockType
<1>5. Calm(World, World', parser.arrived)
  BY <1>1, <1>2, <1>4 DEF Calm, SameBuf, World, WorldType
<1>6. parser' \in ParserType /\ parser'.arrived = parser.arrived /\ parser'.phase = "head"
  BY <1>2 DEF IInv, ParserType
<1>7. ~sock.peerEnded
  BY <1>2, CanParsePeer
<1> QED
  BY <1>2, <1>5, <1>6, <1>7, CalmStep

\* onMessageComplete: the request is whole.
LEMMA MessageCompleteStep ==
  ASSUME IInv, MessageComplete
  PROVE  IInv'
<1>1. World \in WorldType
  BY ArrivedType
<1>2. /\ req' = [req EXCEPT ![parser.arrived].complete = TRUE]
      /\ sock' = sock /\ srv' = srv /\ res' = res /\ closing' = closing /\ failed' = failed
      /\ wire' = wire
      /\ parser' = [parser EXCEPT !.executing = TRUE, !.phase = "idle"]
      /\ parser.phase = "body" /\ CanParse
  BY DEF MessageComplete
<1>3. req' \in [Messages -> ReqType]
  BY <1>1, <1>2 DEF World, WorldType, ReqType
<1>4. Calm(World, World', parser.arrived)
  BY <1>1, <1>2, <1>3 DEF Calm, SameBuf, World, WorldType
<1>5. parser' \in ParserType /\ parser'.arrived = parser.arrived /\ parser'.phase = "idle"
  BY <1>2 DEF IInv, ParserType
<1>6. ~sock.peerEnded
  BY <1>2, CanParsePeer
<1> QED
  BY <1>2, <1>4, <1>5, <1>6, CalmStep

\* w with the keep-alive timer off.
Resets(w, v) ==
    /\ v \in WorldType
    /\ v.sock = w.sock /\ v.req = w.req /\ v.res = w.res
    /\ v.closing = w.closing /\ v.failed = w.failed
    /\ v.srv.incoming = w.srv.incoming /\ v.srv.outgoing = w.srv.outgoing
    /\ v.srv.outgoingData = w.srv.outgoingData
    /\ ~v.srv.keepAliveTimeoutSet

\* resetSocketTimeout stops the keep-alive timer.
LEMMA ResetEffect ==
  ASSUME NEW w \in WorldType
  PROVE  Resets(w, ResetSocketTimeout(w))
<1>1. PICK b \in BOOLEAN : b = FALSE
  OBVIOUS
<1>2. w.srv \in SrvType
  BY DEF WorldType
<1>3. PICK s : s = WithTimer(w.srv, b)
  OBVIOUS
<1>4. /\ s \in SrvType /\ s.incoming = w.srv.incoming /\ s.outgoing = w.srv.outgoing
      /\ s.outgoingData = w.srv.outgoingData /\ s.keepAliveTimeoutSet = b
  BY <1>2, <1>3, SrvTimerType
<1>5. ResetSocketTimeout(w) = WithSrv(w, s)
  BY <1>1, <1>3 DEF ResetSocketTimeout, WithSrv, WithTimer, WorldType
<1> QED
  BY <1>1, <1>4, <1>5, WithSrvType DEF Resets

\* That is calm.
LEMMA ResetsCalm ==
  ASSUME NEW w, NEW v, NEW a, Resets(w, v)
  PROVE  Calm(w, v, a)
BY DEF Resets, Calm, SameBuf, Alive

\* The parser is done with the chunk.
LEMMA ChunkDoneStep ==
  ASSUME IInv, ChunkDone
  PROVE  IInv'
<1>1. World \in WorldType
  BY ArrivedType
<1>2. PICK v : v = ResetSocketTimeout(World)
  OBVIOUS
<1>3. Resets(World, v)
  BY <1>1, <1>2, ResetEffect
<1>4. /\ Become(v) /\ wire' = wire
      /\ parser' = [parser EXCEPT !.executing = FALSE]
  BY <1>2 DEF ChunkDone
<1>5. World' = v
  BY <1>3, <1>4, BecomeWorld DEF Resets
<1>6. Calm(World, World', parser.arrived)
  BY <1>3, <1>5, ResetsCalm
<1>7. parser' \in ParserType /\ parser'.arrived = parser.arrived
      /\ parser'.phase = parser.phase /\ ~parser'.executing
  BY <1>4 DEF IInv, ParserType
<1> QED
  BY <1>4, <1>6, <1>7, CalmStep DEF IInv

\* onParserExecuteCommon with an error.
LEMMA ParseErrorStep ==
  ASSUME IInv, ParseError
  PROVE  /\ IInv' /\ ~Alive(World') /\ req' = req
         /\ wire' = wire \/ Refuses
<1>1. World \in WorldType
  BY ArrivedType
<1>2. PICK u : u = ResetSocketTimeout(World)
  OBVIOUS
<1>3. Resets(World, u)
  BY <1>1, <1>2, ResetEffect
<1>4. /\ u \in WorldType /\ u.sock = sock /\ u.req = req /\ u.res = res
      /\ u.closing = closing /\ u.failed = failed
      /\ u.srv.incoming = srv.incoming /\ u.srv.outgoing = srv.outgoing
      /\ u.srv.outgoingData = srv.outgoingData
  BY <1>3, WorldIs DEF Resets
<1>5. /\ SocketOnError(u)
      /\ parser' = [parser EXCEPT !.executing = FALSE, !.phase = "failed"]
      /\ parser.phase \in {"idle", "head", "body"}
  BY <1>2 DEF ParseError
<1>6. parser' \in ParserType /\ parser'.arrived = parser.arrived
      /\ parser'.phase = "failed" /\ ~parser'.executing
  BY <1>5 DEF IInv, ParserType
<1> QED
  BY <1>4, <1>5, <1>6, ErrorStep

\* onParserExecuteCommon with an upgrade.
LEMMA UpgradeStep ==
  ASSUME IInv, NEW listening, Upgrade(listening)
  PROVE  IInv' /\ (Alive(World') => sock'.state = sock.state)
<1>1. World \in WorldType
  BY ArrivedType
<1>2. PICK x : x = ResetSocketTimeout(World)
  OBVIOUS
<1>3. Resets(World, x)
  BY <1>1, <1>2, ResetEffect
<1>4. PICK s : s = [x.sock EXCEPT !.timer = FALSE]
  OBVIOUS
<1>5. x \in WorldType /\ x.sock = sock
  BY <1>3, WorldIs DEF Resets
<1>6. /\ s \in SockType
      /\ s.state = sock.state /\ s.buf = sock.buf /\ s.needDrain = sock.needDrain
      /\ s.message = sock.message /\ s.peerEnded = sock.peerEnded
      /\ s.paused = sock.paused
  BY <1>4, <1>5, WorldFields DEF SockType
<1>7. PICK u : u = WithSock(x, s)
  OBVIOUS
<1>8. /\ u \in WorldType /\ u.sock = s /\ u.srv = x.srv /\ u.req = x.req /\ u.res = x.res
      /\ u.closing = x.closing /\ u.failed = x.failed
  BY <1>5, <1>6, <1>7, WithSockType
<1>9. u = [x EXCEPT !.sock.timer = FALSE]
  BY <1>4, <1>5, <1>7 DEF WithSock, WorldType
<1>10. PICK v : v = IF listening THEN u ELSE DestroySocket(x)
  OBVIOUS
<1>11. /\ Become(v) /\ wire' = wire
       /\ parser' = [parser EXCEPT !.executing = FALSE, !.phase = "upgraded"]
       /\ parser.phase = "head"
  BY <1>2, <1>9, <1>10 DEF Upgrade
<1>12. Calm(World, u, parser.arrived)
  BY <1>3, <1>6, <1>8, WorldIs DEF Resets, Calm, SameBuf, Alive
<1>13. Calm(World, v, parser.arrived) /\ (Alive(v) => v.sock.state = sock.state)
  <2>1. CASE listening
    BY <1>6, <1>8, <1>10, <1>12, <2>1
  <2>2. CASE ~listening
    <3>1. PICK k : k = IF Alive(x) THEN "destroyed" ELSE x.sock.state
      OBVIOUS
    <3>2. Moves(x, v, k)
      BY <1>5, <1>10, <2>2, <3>1, DestroySocketMoves
    <3>3. ~Alive(v)
      BY <3>1, <3>2 DEF Moves, Alive
    <3>4. Calm(World, x, parser.arrived)
      BY <1>3, ResetsCalm
    <3> QED
      BY <3>2, <3>3, <3>4 DEF Calm, SameBuf, Moves
  <2> QED
    BY <2>1, <2>2
<1>14. World' = v
  BY <1>11, <1>13, BecomeWorld DEF Calm
<1>15. parser' \in ParserType /\ parser'.arrived = parser.arrived
      /\ parser'.phase = "upgraded" /\ ~parser'.executing
  BY <1>11 DEF IInv, ParserType
<1> QED
  BY <1>11, <1>13, <1>14, <1>15, WorldPrime, CalmStep

-----------------------------------------------------------------------------
(* A request. *)

Pushed(r, kind, keep) ==
    LET reset == ResetSocketTimeout(HeadersComplete(World, r))
    IN  [reset EXCEPT !.req[r].kind = kind,
                      !.srv.incoming = Append(@, r),
                      !.sock.paused = @ \/ sock.needDrain
                                        \/ srv.outgoingData >= HighWaterMark,
                      !.res[r].keep = keep]

WithPause(s, p) == [s EXCEPT !.timer = FALSE, !.paused = p]
WithRequest(c, kind, t) == [c EXCEPT !.kind = kind, !.timer = t]
WithKeep(c, keep) == [c EXCEPT !.keep = keep]
WithArrival(w, s, t, R) == [w EXCEPT !.sock = s, !.srv = t, !.req = R]

WithAll(w, s, t, R, S) == [sock |-> s, srv |-> t, req |-> R, res |-> S,
                           closing |-> w.closing, failed |-> w.failed]

\* The fields of a world all of whose parts are set.
LEMMA WithAllFields ==
  ASSUME NEW w, NEW s, NEW t, NEW R, NEW S, NEW e, e = WithAll(w, s, t, R, S)
  PROVE  /\ e.sock = s /\ e.srv = t /\ e.req = R /\ e.res = S
         /\ \A s2, t2, R2, S2 : WithAll(e, s2, t2, R2, S2) = WithAll(w, s2, t2, R2, S2)
BY DEF WithAll

\* A world is all of its parts.
LEMMA WholeWorld ==
  ASSUME NEW w \in WorldType
  PROVE  w = WithAll(w, w.sock, w.srv, w.req, w.res)
BY DEF WithAll, WorldType

\* The parts set one at a time.
LEMMA SetSock ==
  ASSUME NEW w, NEW s, NEW t, NEW R, NEW S, NEW e, e = WithAll(w, s, t, R, S), NEW s1
  PROVE  [e EXCEPT !.sock = s1] = WithAll(w, s1, t, R, S)
BY DEF WithAll

LEMMA SetSrv ==
  ASSUME NEW w, NEW s, NEW t, NEW R, NEW S, NEW e, e = WithAll(w, s, t, R, S), NEW t1
  PROVE  [e EXCEPT !.srv = t1] = WithAll(w, s, t1, R, S)
BY DEF WithAll

LEMMA SetReq ==
  ASSUME NEW w, NEW s, NEW t, NEW R, NEW S, NEW e, e = WithAll(w, s, t, R, S), NEW R1
  PROVE  [e EXCEPT !.req = R1] = WithAll(w, s, t, R1, S)
BY DEF WithAll

LEMMA SetRes ==
  ASSUME NEW w, NEW s, NEW t, NEW R, NEW S, NEW e, e = WithAll(w, s, t, R, S), NEW S1
  PROVE  [e EXCEPT !.res = S1] = WithAll(w, s, t, R, S1)
BY DEF WithAll

WithTwo(w, s, R) == [w EXCEPT !.sock = s, !.req = R]
WithFour(w, s, t, R, S) == [w EXCEPT !.req = R, !.srv = t, !.sock = s, !.res = S]

\* Two of them.
LEMMA SetSockReq ==
  ASSUME NEW w, NEW s, NEW t, NEW R, NEW S, NEW e, e = WithAll(w, s, t, R, S), NEW s1, NEW R1
  PROVE  WithTwo(e, s1, R1) = WithAll(w, s1, t, R1, S)
<1>1. PICK e1 : e1 = [e EXCEPT !.sock = s1]
  OBVIOUS
<1>2. e1 = WithAll(w, s1, t, R, S)
  BY <1>1, SetSock
<1>3. [e1 EXCEPT !.req = R1] = WithAll(w, s1, t, R1, S)
  BY <1>2, SetReq
<1> QED
  BY <1>1, <1>3 DEF WithTwo

\* All of them.
LEMMA SetAll ==
  ASSUME NEW w, NEW s, NEW t, NEW R, NEW S, NEW e, e = WithAll(w, s, t, R, S),
         NEW s1, NEW t1, NEW R1, NEW S1
  PROVE  WithFour(e, s1, t1, R1, S1) = WithAll(w, s1, t1, R1, S1)
<1>1. PICK e1 : e1 = [e EXCEPT !.req = R1]
  OBVIOUS
<1>2. PICK e2 : e2 = [e1 EXCEPT !.srv = t1]
  OBVIOUS
<1>3. PICK e3 : e3 = [e2 EXCEPT !.sock = s1]
  OBVIOUS
<1>4. PICK e4 : e4 = [e3 EXCEPT !.res = S1]
  OBVIOUS
<1>5. e1 = WithAll(w, s, t, R1, S)
  BY <1>1, SetReq
<1>6. e2 = WithAll(w, s, t1, R1, S)
  BY <1>2, <1>5, SetSrv
<1>7. e3 = WithAll(w, s1, t1, R1, S)
  BY <1>3, <1>6, SetSock
<1>8. e4 = WithAll(w, s1, t1, R1, S1)
  BY <1>4, <1>7, SetRes
<1> QED
  BY <1>1, <1>2, <1>3, <1>4, <1>8 DEF WithFour

Untimed(s) == [s EXCEPT !.timer = FALSE]
Timed(R, r, t) == [R EXCEPT ![r].timer = t]

\* parserOnHeadersComplete, path by path.
LEMMA HeadersPaths ==
  ASSUME NEW w, NEW r
  PROVE  HeadersComplete(w, r) = WithTwo(w, Untimed(w.sock), Timed(w.req, r, w.sock.timer))
<1>1. PICK b : b = FALSE
  OBVIOUS
<1>2. HeadersComplete(w, r) = [w EXCEPT !.sock.timer = b, !.req[r].timer = w.sock.timer]
  BY <1>1 DEF HeadersComplete
<1> QED
  BY <1>1, <1>2 DEF WithTwo, Untimed, Timed

\* The same, part by part.
LEMMA HeadersEffect ==
  ASSUME NEW w \in WorldType, NEW r
  PROVE  HeadersComplete(w, r) = WithAll(w, Untimed(w.sock), w.srv,
                                         Timed(w.req, r, w.sock.timer), w.res)
BY HeadersPaths, WholeWorld, SetSockReq

\* The fields of a socket paused by an arriving request.
LEMMA WithPauseType ==
  ASSUME NEW s \in SockType, NEW p \in BOOLEAN
  PROVE  /\ WithPause(s, p) \in SockType
         /\ WithPause(s, p).paused = p /\ WithPause(s, p).state = s.state
         /\ WithPause(s, p).buf = s.buf /\ WithPause(s, p).needDrain = s.needDrain
         /\ WithPause(s, p).message = s.message /\ WithPause(s, p).peerEnded = s.peerEnded
BY DEF WithPause, SockType

\* The fields of a request whose headers are read.
LEMMA WithRequestType ==
  ASSUME NEW c \in ReqType, NEW kind \in AllKinds, NEW t \in BOOLEAN
  PROVE  /\ WithRequest(c, kind, t) \in ReqType
         /\ WithRequest(c, kind, t).complete = c.complete
BY DEF WithRequest, ReqType

\* The fields of a response that keeps alive or not.
LEMMA WithKeepType ==
  ASSUME NEW c \in ResType, NEW keep \in BOOLEAN
  PROVE  /\ WithKeep(c, keep) \in ResType
         /\ WithKeep(c, keep).keep = keep
         /\ WithKeep(c, keep).output = c.output
         /\ WithKeep(c, keep).last = c.last
         /\ WithKeep(c, keep).finished = c.finished
         /\ WithKeep(c, keep).destroyed = c.destroyed
         /\ WithKeep(c, keep).needDrain = c.needDrain
BY DEF WithKeep, ResType

\* The fields of a world in which a request arrives.
LEMMA WithArrivalType ==
  ASSUME NEW w \in WorldType, NEW s \in SockType, NEW t \in SrvType,
         NEW R \in [Messages -> ReqType]
  PROVE  /\ WithArrival(w, s, t, R) \in WorldType
         /\ WithArrival(w, s, t, R).sock = s /\ WithArrival(w, s, t, R).srv = t
         /\ WithArrival(w, s, t, R).req = R /\ WithArrival(w, s, t, R).res = w.res
         /\ WithArrival(w, s, t, R).closing = w.closing
         /\ WithArrival(w, s, t, R).failed = w.failed
BY DEF WithArrival, WorldType

\* The request is read and counted; its response has no place yet.
Pushes(w, u, r) ==
    /\ u \in WorldType
    /\ u.sock.state = w.sock.state /\ u.sock.peerEnded = w.sock.peerEnded
    /\ SameBuf(w, u) /\ u.sock.message = w.sock.message
    /\ u.sock.paused => \/ w.sock.paused \/ w.sock.needDrain
                        \/ w.srv.outgoingData >= HighWaterMark
    /\ u.srv.incoming = Append(w.srv.incoming, r)
    /\ u.srv.outgoing = w.srv.outgoing
    /\ u.srv.outgoingData = w.srv.outgoingData
    /\ ~u.srv.keepAliveTimeoutSet
    /\ u.closing = w.closing /\ u.failed = w.failed
    /\ \A x \in Messages :
          /\ u.req[x].complete = w.req[x].complete
          /\ u.res[x].output = w.res[x].output
          /\ u.res[x].finished = w.res[x].finished
          /\ u.res[x].destroyed = w.res[x].destroyed
          /\ u.res[x].needDrain = w.res[x].needDrain
          /\ u.res[x].last = w.res[x].last
          /\ x # r => u.res[x].keep = w.res[x].keep

\* The first half of parserOnIncoming: the request joins the list, and the
\* socket is paused when too much is queued.
LEMMA PushedEffect ==
  ASSUME World \in WorldType, NEW r \in Messages, NEW kind \in AllKinds, NEW keep \in BOOLEAN
  PROVE  Pushes(World, Pushed(r, kind, keep), r)
<1>1. /\ sock \in SockType /\ srv \in SrvType /\ req \in [Messages -> ReqType]
      /\ sock.paused \in BOOLEAN /\ sock.timer \in BOOLEAN
      /\ srv.incoming \in Seq(Messages)
  BY DEF World, WorldType, SockType, SrvType
<1>2. PICK p \in BOOLEAN : p = (sock.paused \/ sock.needDrain
                                            \/ srv.outgoingData >= HighWaterMark)
  BY <1>1
<1>3. PICK s : s = WithPause(sock, p)
  OBVIOUS
<1>4. /\ s \in SockType /\ s.paused = p /\ s.state = sock.state
      /\ s.buf = sock.buf /\ s.needDrain = sock.needDrain
      /\ s.message = sock.message /\ s.peerEnded = sock.peerEnded
  BY <1>1, <1>3, WithPauseType
<1>5. PICK q \in Seq(Messages) : q = Append(srv.incoming, r)
  BY <1>1, AppendMessage
<1>6. PICK b \in BOOLEAN : b = FALSE
  OBVIOUS
<1>7. PICK t0 : t0 = WithTimer(srv, b)
  OBVIOUS
<1>8. /\ t0 \in SrvType /\ t0.incoming = srv.incoming /\ t0.outgoing = srv.outgoing
      /\ t0.outgoingData = srv.outgoingData /\ t0.keepAliveTimeoutSet = b
  BY <1>1, <1>7, SrvTimerType
<1>9. PICK t : t = WithIncoming(t0, q)
  OBVIOUS
<1>10. /\ t \in SrvType /\ t.incoming = q /\ t.outgoing = srv.outgoing
       /\ t.outgoingData = srv.outgoingData /\ t.keepAliveTimeoutSet = b
  BY <1>8, <1>9, SrvListsType
<1>11. PICK c : c = WithRequest(req[r], kind, sock.timer)
  OBVIOUS
<1>12. req[r] \in ReqType
  BY <1>1
<1>13. c \in ReqType /\ c.complete = req[r].complete
  BY <1>1, <1>11, <1>12, WithRequestType
<1>14. PICK R : R = [req EXCEPT ![r] = c]
  OBVIOUS
<1>15. R \in [Messages -> ReqType] /\ \A x \in Messages : R[x].complete = req[x].complete
  BY <1>1, <1>13, <1>14
<1>16. PICK v : v = WithArrival(World, s, t, R)
  OBVIOUS
<1>17. /\ v \in WorldType /\ v.sock = s /\ v.srv = t /\ v.req = R /\ v.res = res
       /\ v.closing = closing /\ v.failed = failed
  BY <1>4, <1>10, <1>15, <1>16, WithArrivalType, WorldIs
<1>18. PICK d : d = WithKeep(res[r], keep)
  OBVIOUS
<1>19. res[r] \in ResType
  BY DEF World, WorldType
<1>20. /\ d \in ResType /\ d.output = res[r].output /\ d.last = res[r].last
       /\ d.finished = res[r].finished /\ d.destroyed = res[r].destroyed
       /\ d.needDrain = res[r].needDrain
  BY <1>18, <1>19, WithKeepType
<1>21. PICK u : u = WithRes(v, r, d)
  OBVIOUS
<1>22. /\ u \in WorldType /\ u.res[r] = d
       /\ \A x \in Messages : x # r => u.res[x] = res[x]
       /\ u.sock = s /\ u.srv = t /\ u.req = R
       /\ u.closing = closing /\ u.failed = failed
  <2>1. d \in ResType
    BY <1>20
  <2> QED
    BY <1>17, <1>21, <2>1, WithResType
<1>23. Pushed(r, kind, keep) = u
  <2>1. Pushed(r, kind, keep) = WithAll(World, s, t, R, [res EXCEPT ![r] = d])
    <3>1. [[sock EXCEPT !.timer = FALSE] EXCEPT !.paused = p] = s
      BY <1>3 DEF WithPause
    <3>2. [[srv EXCEPT !.keepAliveTimeoutSet = FALSE] EXCEPT !.incoming = q] = t
      BY <1>6, <1>7, <1>9 DEF WithTimer, WithIncoming
    <3>3. [[req EXCEPT ![r].timer = sock.timer] EXCEPT ![r].kind = kind] = R
      BY <1>1, <1>11, <1>14 DEF WithRequest, ReqType
    <3>4. [res EXCEPT ![r].keep = keep] = [res EXCEPT ![r] = d]
      BY <1>18 DEF WithKeep
    <3>5. PICK s1 : s1 = Untimed(sock)
      OBVIOUS
    <3>6. PICK t1 : t1 = [srv EXCEPT !.keepAliveTimeoutSet = FALSE]
      OBVIOUS
    <3>7. PICK R1 : R1 = Timed(req, r, sock.timer)
      OBVIOUS
    <3>8. PICK e : e = WithAll(World, s1, t1, R1, res)
      OBVIOUS
    <3>9. /\ e.sock = s1 /\ e.srv = t1 /\ e.req = R1 /\ e.res = res
          /\ \A s2, t2, R2, S2 : WithAll(e, s2, t2, R2, S2) = WithAll(World, s2, t2, R2, S2)
      BY <3>8, WithAllFields
    <3>10. HeadersComplete(World, r) = WithAll(World, s1, srv, R1, res)
      BY <3>5, <3>7, WorldIs, HeadersEffect
    <3>11. ResetSocketTimeout(HeadersComplete(World, r)) = e
      <4>1. PICK h : h = WithAll(World, s1, srv, R1, res)
        OBVIOUS
      <4>2. h.srv = srv
        BY <4>1, WithAllFields
      <4>3. ResetSocketTimeout(h) = [h EXCEPT !.srv = t1]
        BY <3>6, <4>2 DEF ResetSocketTimeout
      <4>4. [h EXCEPT !.srv = t1] = e
        BY <3>8, <4>1, SetSrv
      <4> QED
        BY <3>10, <4>1, <4>3, <4>4
    <3>12. s1.paused = sock.paused /\ t1.incoming = srv.incoming
      BY <1>1, <3>5, <3>6 DEF Untimed, SockType, SrvType
    <3>13. [s1 EXCEPT !.paused = @ \/ sock.needDrain \/ srv.outgoingData >= HighWaterMark] = s
      BY <1>2, <3>1, <3>5, <3>12 DEF Untimed
    <3>14. [t1 EXCEPT !.incoming = Append(@, r)] = t
      BY <1>5, <3>2, <3>6, <3>12
    <3>15. [R1 EXCEPT ![r].kind = kind] = R
      BY <3>3, <3>7 DEF Timed
    <3>16. Pushed(r, kind, keep) = WithAll(e, s, t, R, [res EXCEPT ![r] = d])
      <4>1. PICK S2 : S2 = [res EXCEPT ![r] = d]
        OBVIOUS
      <4>2. Pushed(r, kind, keep) = WithFour(e, s, t, R, S2)
        BY <3>4, <3>9, <3>11, <3>13, <3>14, <3>15, <4>1 DEF Pushed, WithFour
      <4>3. WithFour(e, s, t, R, S2) = WithAll(e, s, t, R, S2)
        BY <3>8, <3>9, SetAll
      <4> QED
        BY <4>1, <4>2, <4>3
    <3> QED
      BY <3>9, <3>16
  <2>2. u = WithAll(World, s, t, R, [res EXCEPT ![r] = d])
    BY <1>16, <1>21 DEF WithRes, WithArrival, WithAll, World
  <2> QED
    BY <2>1, <2>2
<1>24. \A x \in Messages :
          /\ u.req[x].complete = req[x].complete
          /\ u.res[x].output = res[x].output
          /\ u.res[x].finished = res[x].finished
          /\ u.res[x].destroyed = res[x].destroyed
          /\ u.res[x].needDrain = res[x].needDrain
          /\ u.res[x].last = res[x].last
          /\ x # r => u.res[x].keep = res[x].keep
  BY <1>15, <1>20, <1>22
<1>25. Pushes(World, u, r)
  BY <1>2, <1>4, <1>5, <1>6, <1>10, <1>22, <1>24, WorldIs DEF Pushes, SameBuf
<1> QED
  BY <1>23, <1>25

\* The second half: the new response gets the socket, or waits for it.
LEMMA PipelinedEffect ==
  ASSUME NEW w \in WorldType, NEW u, NEW r \in Messages, Pushes(w, u, r),
         Len(w.res[r].output) = 0, ~w.res[r].destroyed
  PROVE  Arrives(w, Pipelined(u, r), r) /\ Pipelined(u, r).req = u.req
<1>1. u \in WorldType
  BY DEF Pushes
<1>2. PICK v : v = Pipelined(u, r)
  OBVIOUS
<1>3. CASE u.sock.message # NoMessage
  <2>1. PICK q : q = Append(u.srv.outgoing, r)
    OBVIOUS
  <2>2. q \in Seq(Messages) /\ u.srv \in SrvType
    BY <1>1, <2>1, WorldFields, AppendMessage DEF WorldType
  <2>3. PICK t : t = WithOutgoing(u.srv, q)
    OBVIOUS
  <2>4. /\ t \in SrvType /\ t.incoming = u.srv.incoming /\ t.outgoing = q
        /\ t.outgoingData = u.srv.outgoingData
        /\ t.keepAliveTimeoutSet = u.srv.keepAliveTimeoutSet
    BY <2>2, <2>3, SrvListsType
  <2>5. v = WithSrv(u, t)
    BY <1>1, <1>2, <1>3, <2>1, <2>3 DEF Pipelined, WithSrv, WithOutgoing, WorldType
  <2>6. /\ v \in WorldType /\ v.sock = u.sock /\ v.srv = t /\ v.req = u.req /\ v.res = u.res
        /\ v.closing = u.closing /\ v.failed = u.failed
    BY <1>1, <2>4, <2>5, WithSrvType
  <2>7. Arrives(w, v, r)
    BY <1>3, <2>1, <2>4, <2>6 DEF Pushes, Arrives, SameBuf
  <2> QED
    BY <1>2, <2>6, <2>7
<1>4. CASE u.sock.message = NoMessage
  <2>1. v = AssignSocket(u, r)
    BY <1>2, <1>4 DEF Pipelined
  <2>2. Assigns(u, v, r)
    BY <1>1, <1>4, <2>1, AssignSocketEffect
  <2>3. Len(u.res[r].output) = 0 /\ ~u.res[r].destroyed
    BY DEF Pushes
  <2>4. /\ SameBuf(u, v) /\ SameOutputs(u, v)
        /\ v.srv.outgoingData = u.srv.outgoingData
        /\ v.sock.state = u.sock.state
    BY <2>2, <2>3 DEF Assigns
  <2>5. \A x \in Messages :
          /\ v.res[x].output = w.res[x].output
          /\ v.res[x].finished = w.res[x].finished
          /\ v.res[x].destroyed = w.res[x].destroyed
          /\ v.res[x].needDrain => w.res[x].needDrain
          /\ v.res[x].last => w.res[x].last \/ ~v.res[x].keep
          /\ x # r => v.res[x].keep = w.res[x].keep
    BY <2>2, <2>4 DEF Pushes, Assigns, SameOutputs
  <2>6. Arrives(w, v, r)
    BY <1>4, <2>2, <2>4, <2>5 DEF Pushes, Arrives, Assigns, SameBuf
  <2> QED
    BY <1>2, <2>2, <2>6 DEF Assigns
<1> QED
  BY <1>3, <1>4

\* parserOnIncoming, with what the program or the server answers at once.
LEMMA IncomingStep ==
  ASSUME IInv, NEW kind \in AllKinds, NEW keep \in BOOLEAN, Incoming(kind, keep)
  PROVE  /\ IInv'
         /\ parser.arrived < N /\ parser'.arrived = parser.arrived + 1 /\ wire' = wire
         /\ sock'.state = sock.state
         /\ SameComplete(World, World') /\ parser'.phase = "body"
         /\ kind # "expectation" => \A x \in Messages : res'[x].finished = res[x].finished
<1>1. World \in WorldType /\ parser.arrived \in 0..N /\ P!Sent(wire) \in Nat
  BY ArrivedType
<1>2. PICK a \in 0..N : a = parser.arrived
  BY <1>1
<1>3. PICK n \in Nat : n = P!Sent(wire)
  BY <1>1
<1>4. PICK r : r = a + 1
  OBVIOUS
<1>5. /\ CanParse /\ parser.phase = "head" /\ wire' = wire
      /\ parser' = [arrived |-> r, executing |-> TRUE, phase |-> "body"]
  BY <1>2, <1>4 DEF Incoming
<1>6. a < N
  BY <1>2, <1>5 DEF IInv
<1>7. r \in Messages /\ r \in 0..N /\ r > a
  BY <1>4, <1>6, ServerAssumption DEF Messages
<1>8. WorldOK(World, a, n, "head")
  BY <1>2, <1>3, <1>5 DEF IInv
<1>9. ~sock.peerEnded
  BY <1>5, CanParsePeer
<1>10. PICK u : u = Pushed(r, kind, keep)
  OBVIOUS
<1>11. Pushes(World, u, r)
  BY <1>1, <1>7, <1>10, PushedEffect
<1>12. PICK v : v = Pipelined(u, r)
  OBVIOUS
<1>13. Len(res[r].output) = 0 /\ ~res[r].destroyed /\ ~res[r].finished
  BY <1>7, <1>8, WorldIs DEF WorldOK, FreshOK
<1>14. Arrives(World, v, r)
  BY <1>1, <1>7, <1>11, <1>12, <1>13, WorldIs, PipelinedEffect
<1>15. WorldOK(v, r, n, "body")
  BY <1>4, <1>7, <1>8, <1>9, <1>14, WorldIs, ArrivesKeeps
<1>16. v \in WorldType /\ ~v.res[r].finished /\ v.sock.state = sock.state
       /\ v.sock.peerEnded = sock.peerEnded
  BY <1>7, <1>13, <1>14, WorldIs DEF Arrives
<1>17. Tagged(v.res[r].output, r) /\ NoEnd(v.res[r].output)
  BY <1>7, <1>15, <1>16 DEF WorldOK, OutputsOK
<1>18. r <= r
  BY <1>7
<1>19. v.req = u.req /\ SameComplete(World, u)
       /\ \A y \in Messages : v.res[y].finished = res[y].finished
  <2>1. v.req = u.req
    BY <1>1, <1>7, <1>11, <1>12, <1>13, WorldIs, PipelinedEffect
  <2>2. SameComplete(World, u)
    BY <1>11 DEF Pushes, SameComplete
  <2> QED
    BY <1>14, <2>1, <2>2, WorldIs DEF Arrives
<1>20. ASSUME NEW x, Become(x), WorldOK(x, r, n, "body"), SameSock(v.sock, x.sock),
              x.req = v.req,
              kind # "expectation" =>
                  \A y \in Messages : x.res[y].finished = v.res[y].finished
       PROVE  /\ IInv'
              /\ parser.arrived < N /\ parser'.arrived = parser.arrived + 1 /\ wire' = wire
              /\ sock'.state = sock.state
              /\ SameComplete(World, World') /\ parser'.phase = "body"
              /\ kind # "expectation" =>
                     \A y \in Messages : res'[y].finished = res[y].finished
  <2>1. x \in WorldType
    BY <1>20 DEF WorldOK
  <2>2. World' = x
    BY <1>20, <2>1, BecomeWorld
  <2>3. parser' \in ParserType /\ parser'.arrived = r /\ parser'.phase = "body"
    BY <1>5, <1>7 DEF ParserType
  <2>4. sock'.state = sock.state /\ sock'.peerEnded = sock.peerEnded
    BY <1>16, <1>20, <2>2, WorldPrime DEF SameSock
  <2>5. WorldOK(World', parser'.arrived, P!Sent(wire'), parser'.phase)
    BY <1>3, <1>5, <1>20, <2>2, <2>3
  <2>6. SameComplete(World, World')
    BY <1>20, <1>19, <2>2 DEF SameComplete
  <2>7. kind # "expectation" => \A y \in Messages : res'[y].finished = res[y].finished
    BY <1>20, <1>19, <2>2, WorldPrime
  <2> QED
    BY <1>2, <1>4, <1>5, <1>6, <1>9, <2>3, <2>4, <2>5, <2>6, <2>7 DEF IInv
<1>21. CASE kind = "plain"
  <2>1. Become(v)
    BY <1>2, <1>4, <1>10, <1>12, <1>21 DEF Incoming, Pushed
  <2> QED
    BY <1>15, <1>20, <2>1 DEF SameSock
<1>22. CASE kind = "continue"
  <2>1. PICK piece : piece = P!Piece(r, "continue")
    OBVIOUS
  <2>2. "continue" \in P!Parts
    BY DEF P!Parts
  <2>3. piece \in Pieces /\ piece.of = r /\ piece.part = "continue"
    BY <1>7, <2>1, <2>2, PieceType
  <2>4. piece.part # "error" /\ ~P!EndsResponse(piece)
    BY <2>3 DEF P!EndsResponse
  <2>5. PICK x : x = WriteRaw(v, r, piece)
    OBVIOUS
  <2>6. Become(x)
    BY <1>2, <1>4, <1>10, <1>12, <1>22, <2>1, <2>5 DEF Incoming, Pushed
  <2>7. Tells(v, x) /\ Emission(v, x, piece)
    BY <1>7, <1>16, <1>17, <2>3, <2>4, <2>5, WriteRawEmission
  <2>8. Writes(v, x, piece)
    BY <1>7, <2>3, <2>4, <2>7, TellsWrites
  <2>9. WorldOK(x, r, n, "body")
    BY <1>7, <1>15, <1>16, <1>18, <2>3, <2>8, WritesKeep
  <2> QED
    BY <1>20, <2>6, <2>7, <2>8, <2>9 DEF Writes, Tells
<1>23. CASE kind = "expectation"
  <2>1. PICK x : x = EndResponse(v, r)
    OBVIOUS
  <2>2. Become(x)
    BY <1>2, <1>4, <1>10, <1>12, <1>23, <2>1 DEF Incoming, Pushed
  <2>3. PICK piece \in Pieces : piece.of = r /\ Writes(v, x, piece)
    BY <1>7, <1>16, <1>17, <2>1, EndResponseEffect
  <2>4. WorldOK(x, r, n, "body")
    BY <1>7, <1>15, <1>16, <1>18, <2>3, WritesKeep
  <2> QED
    BY <1>20, <1>23, <2>2, <2>3, <2>4 DEF Writes
<1> QED
  BY <1>21, <1>22, <1>23 DEF AllKinds

-----------------------------------------------------------------------------
(* The program's steps. *)

\* A step of the program to a world for which the invariant holds.
LEMMA BecomesOK ==
  ASSUME IInv, NEW x, Become(x), wire' = wire, parser' = parser,
         WorldOK(x, parser.arrived, P!Sent(wire), parser.phase), x.sock.peerEnded = sock.peerEnded
  PROVE  IInv' /\ World' = x
<1>1. x \in WorldType
  BY DEF WorldOK
<1>2. World' = x
  BY <1>1, BecomeWorld
<1>3. sock'.peerEnded = sock.peerEnded
  BY <1>2, WorldPrime
<1> QED
  BY <1>2, <1>3 DEF IInv

\* What a call of the program does to the timer: nothing.
LEMMA WritesFrame ==
  ASSUME NEW w, NEW v, NEW piece \in Pieces, Writes(w, v, piece),
         P!EndsResponse(piece) => w.req[piece.of].complete \/ w.sock.state # "open"
  PROVE  Frame(w, v, TRUE)
<1>1. /\ v.sock.state = w.sock.state /\ v.sock.message = w.sock.message
      /\ v.srv.keepAliveTimeoutSet = w.srv.keepAliveTimeoutSet
      /\ v.req = w.req
  BY DEF Writes, SameSock
<1>2. ASSUME NEW x \in Messages, v.res[x].finished, v.sock.state = "open"
      PROVE  w.res[x].finished \/ w.req[x].complete
  <2>1. CASE x = piece.of
    BY <1>1, <1>2, <2>1 DEF Writes
  <2>2. CASE x # piece.of
    BY <1>2, <2>2 DEF Writes
  <2> QED
    BY <2>1, <2>2
<1> QED
  BY <1>1, <1>2 DEF Frame, SameComplete

\* response.write().
LEMMA WriteStep ==
  ASSUME IInv, NEW r \in Messages, NEW b, Write(r, b)
  PROVE  /\ IInv' /\ wire' = wire /\ parser' = parser /\ sock'.state = sock.state
         /\ Frame(World, World', TRUE)
<1>1. World \in WorldType /\ parser.arrived \in 0..N /\ P!Sent(wire) \in Nat
  BY ArrivedType
<1>2. r <= parser.arrived /\ ~res[r].finished /\ res[r].writes < MaxWrites
      /\ wire' = wire /\ parser' = parser
  BY ArrivedType DEF Write
<1>3. Tagged(res[r].output, r) /\ NoEnd(res[r].output)
  BY <1>2, WorldIs DEF IInv, WorldOK, OutputsOK
<1>4. PICK v : v = WriteResponse(World, r, b)
  OBVIOUS
<1>5. Become(v)
  BY <1>4 DEF Write
<1>6. PICK piece \in Pieces : piece.of = r /\ ~P!EndsResponse(piece)
                              /\ Writes(World, v, piece)
  BY <1>1, <1>2, <1>3, <1>4, WorldIs, WriteResponseEffect
<1>7. WorldOK(World, parser.arrived, P!Sent(wire), parser.phase)
  BY DEF IInv
<1>8. WorldOK(v, parser.arrived, P!Sent(wire), parser.phase)
  BY <1>1, <1>2, <1>6, <1>7, WorldIs, WritesKeep
<1>9. v.sock.state = sock.state /\ v.sock.peerEnded = sock.peerEnded
  BY <1>6, WorldIs DEF Writes, SameSock
<1>10. IInv' /\ World' = v
  BY <1>2, <1>5, <1>8, <1>9, BecomesOK
<1>11. Frame(World, v, TRUE)
  BY <1>6, WritesFrame
<1> QED
  BY <1>2, <1>9, <1>10, <1>11, WorldPrime

\* response.end().
LEMMA EndStep ==
  ASSUME IInv, NEW r \in Messages, End(r)
  PROVE  /\ IInv' /\ wire' = wire /\ parser' = parser /\ sock'.state = sock.state
         /\ ~Early => Frame(World, World', TRUE)
<1>1. World \in WorldType /\ parser.arrived \in 0..N /\ P!Sent(wire) \in Nat
  BY ArrivedType
<1>2. r <= parser.arrived /\ ~res[r].finished /\ wire' = wire /\ parser' = parser
  BY ArrivedType DEF End
<1>3. Tagged(res[r].output, r) /\ NoEnd(res[r].output)
  BY <1>2, WorldIs DEF IInv, WorldOK, OutputsOK
<1>4. PICK v : v = EndResponse(World, r)
  OBVIOUS
<1>5. Become(v)
  BY <1>4 DEF End
<1>6. PICK piece \in Pieces : piece.of = r /\ Writes(World, v, piece)
  BY <1>1, <1>3, <1>4, WorldIs, EndResponseEffect
<1>7. WorldOK(World, parser.arrived, P!Sent(wire), parser.phase)
  BY DEF IInv
<1>8. WorldOK(v, parser.arrived, P!Sent(wire), parser.phase)
  BY <1>1, <1>2, <1>6, <1>7, WorldIs, WritesKeep
<1>9. v.sock.state = sock.state /\ v.sock.peerEnded = sock.peerEnded
  BY <1>6, WorldIs DEF Writes, SameSock
<1>10. IInv' /\ World' = v
  BY <1>2, <1>5, <1>8, <1>9, BecomesOK
<1>11. ~Early => Frame(World, v, TRUE)
  <2>1. ~Early => req[r].complete \/ sock.state # "open"
    BY WorldIs DEF End, Alive
  <2> QED
    BY <1>6, <2>1, WorldIs, WritesFrame
<1> QED
  BY <1>2, <1>9, <1>10, <1>11, WorldPrime

\* A step between two chunks, or of the program, that leaves the parser alone.
LEMMA CalmBecomes ==
  ASSUME IInv, NEW v, Become(v), Calm(World, v, parser.arrived), wire' = wire, parser' = parser
  PROVE  /\ IInv' /\ World' = v
         /\ sock'.state = sock.state \/ ~Alive(World')
<1>1. parser.arrived \in 0..N
  BY ArrivedType
<1>2. WorldOK(v, parser.arrived, P!Sent(wire), parser.phase)
  BY <1>1, CalmKeeps DEF IInv
<1>3. v.sock.peerEnded = sock.peerEnded
  BY WorldIs DEF Calm
<1>4. IInv' /\ World' = v
  BY <1>2, <1>3, BecomesOK
<1> QED
  BY <1>4, WorldIs, WorldPrime DEF Calm

WithDestroyed(c, d, k) == [c EXCEPT !.destroyed = d, !.closed = k]

\* The fields of a response that is destroyed.
LEMMA WithDestroyedType ==
  ASSUME NEW c \in ResType, NEW d \in BOOLEAN, NEW k \in BOOLEAN
  PROVE  /\ WithDestroyed(c, d, k) \in ResType
         /\ WithDestroyed(c, d, k).destroyed = d
         /\ WithDestroyed(c, d, k).keep = c.keep
         /\ WithDestroyed(c, d, k).output = c.output
         /\ WithDestroyed(c, d, k).last = c.last
         /\ WithDestroyed(c, d, k).finished = c.finished
         /\ WithDestroyed(c, d, k).needDrain = c.needDrain
BY DEF WithDestroyed, ResType

\* A response that is destroyed, and keeps the rest of what matters.
LEMMA DestroyedCalm ==
  ASSUME NEW w \in WorldType, NEW r \in Messages, NEW a, r <= a, NEW c \in ResType,
         c.destroyed, c.output = w.res[r].output, c.keep = w.res[r].keep,
         c.last = w.res[r].last, c.finished = w.res[r].finished,
         c.needDrain = w.res[r].needDrain
  PROVE  Calm(w, WithRes(w, r, c), a)
<1>1. PICK v : v = WithRes(w, r, c)
  OBVIOUS
<1>2. v \in WorldType
  BY <1>1, WithResType
<1>3. v.res[r] = c /\ \A x \in Messages : x # r => v.res[x] = w.res[x]
  BY <1>1, WithResType
<1>4. /\ v.sock = w.sock /\ v.srv = w.srv /\ v.req = w.req
      /\ v.closing = w.closing /\ v.failed = w.failed
  BY <1>1, WithResType
<1>5. \A x \in Messages :
          /\ v.res[x].output = w.res[x].output
          /\ v.res[x].keep = w.res[x].keep
          /\ v.res[x].last = w.res[x].last
          /\ v.res[x].finished = w.res[x].finished
          /\ v.res[x].needDrain = w.res[x].needDrain
          /\ w.res[x].destroyed => v.res[x].destroyed
          /\ v.res[x].destroyed => w.res[x].destroyed \/ x <= a
  BY <1>3
<1>6. Calm(w, v, a)
  BY <1>2, <1>4, <1>5 DEF Calm, SameBuf
<1> QED
  BY <1>1, <1>6

\* response.destroy() without the socket is calm.
LEMMA DestroyCalm ==
  ASSUME NEW w \in WorldType, NEW r \in Messages, NEW a, r <= a, NEW d \in BOOLEAN, d = TRUE,
         NEW k \in BOOLEAN, NEW v, v = WithRes(w, r, WithDestroyed(w.res[r], d, k))
  PROVE  Calm(w, v, a)
<1>1. PICK c : c = WithDestroyed(w.res[r], d, k)
  OBVIOUS
<1>2. w.res[r] \in ResType
  BY ResFields
<1>3. c \in ResType
  BY <1>1, <1>2, WithDestroyedType
<1>4. c.destroyed /\ c.output = w.res[r].output /\ c.last = w.res[r].last
      /\ c.keep = w.res[r].keep /\ c.finished = w.res[r].finished
      /\ c.needDrain = w.res[r].needDrain
  BY <1>1, <1>2, WithDestroyedType
<1>5. Calm(w, WithRes(w, r, c), a)
  BY <1>3, <1>4, DestroyedCalm
<1> QED
  BY <1>1, <1>5

\* So is what ends with socket.destroy().
LEMMA CalmDestroyed ==
  ASSUME NEW w \in WorldType, NEW u, NEW a, Calm(w, u, a)
  PROVE  Calm(w, DestroySocket(u), a) /\ ~Alive(DestroySocket(u))
<1>1. PICK k : k = IF Alive(u) THEN "destroyed" ELSE u.sock.state
  OBVIOUS
<1>2. u \in WorldType
  BY DEF Calm
<1>3. PICK v : v = DestroySocket(u)
  OBVIOUS
<1>4. Moves(u, v, k)
  BY <1>1, <1>2, <1>3, DestroySocketMoves
<1>5. ~Alive(v)
  BY <1>1, <1>4 DEF Moves, Alive
<1>6. Calm(w, v, a)
  BY <1>4, <1>5 DEF Calm, SameBuf, Moves
<1> QED
  BY <1>3, <1>5, <1>6

\* response.destroy(): now, or when the response gets the socket.
LEMMA DestroyStep ==
  ASSUME IInv, NEW r \in Messages, Destroy(r)
  PROVE  /\ IInv' /\ wire' = wire /\ parser' = parser
         /\ (sock'.state = sock.state \/ ~Alive(World'))
         /\ Frame(World, World', TRUE)
<1>1. World \in WorldType
  BY ArrivedType
<1>2. r <= parser.arrived /\ wire' = wire /\ parser' = parser
  BY ArrivedType DEF Destroy
<1>3. PICK d \in BOOLEAN : d = TRUE
  OBVIOUS
<1>4. PICK k : k = res[r].closed
  OBVIOUS
<1>5. k \in BOOLEAN
  BY <1>1, <1>4 DEF World, WorldType, ResType
<1>6. PICK u : u = WithRes(World, r, WithDestroyed(World.res[r], d, k))
  OBVIOUS
<1>7. u = [World EXCEPT !.res[r].destroyed = TRUE]
  <2>1. res[r] \in ResType
    BY <1>1 DEF World, WorldType
  <2>2. WithDestroyed(res[r], d, k) = [res[r] EXCEPT !.destroyed = TRUE]
    BY <1>3, <1>4, <2>1 DEF WithDestroyed, ResType
  <2> QED
    BY <1>6, <2>2, WorldIs DEF WithRes
<1>8. Calm(World, u, parser.arrived)
  BY <1>1, <1>2, <1>3, <1>5, <1>6, DestroyCalm
<1>9. PICK v : v = IF sock.message = r THEN DestroySocket(u) ELSE u
  OBVIOUS
<1>10. Become(v)
  BY <1>7, <1>9 DEF Destroy
<1>11. Calm(World, v, parser.arrived)
  BY <1>1, <1>8, <1>9, CalmDestroyed
<1>12. u \in WorldType /\ u.srv = srv /\ u.req = req /\ u.sock = sock
  <2>1. res[r] \in ResType
    BY <1>1 DEF World, WorldType
  <2>2. WithDestroyed(World.res[r], d, k) \in ResType
    BY <1>5, <2>1, WorldIs, WithDestroyedType
  <2> QED
    BY <1>1, <1>6, <2>2, WorldIs, WithResType
<1>13. v.srv = srv /\ v.req = req /\ (v.sock.state = "open" => sock.state = "open")
       /\ v.sock.message = sock.message
  BY <1>9, <1>12, DestroySocketEffect DEF Alive
<1>14. Frame(World, v, TRUE)
  BY <1>11, <1>13, WorldIs DEF Calm, Frame, SameComplete
<1> QED
  BY <1>2, <1>10, <1>11, <1>14, CalmBecomes

\* The program reads the request.
LEMMA ReadRequestStep ==
  ASSUME IInv, NEW r \in Messages, ReadRequest(r)
  PROVE  /\ IInv' /\ wire' = wire /\ parser' = parser /\ sock' = sock
         /\ Frame(World, World', TRUE)
<1>1. World \in WorldType
  BY ArrivedType
<1>2. /\ req' = [req EXCEPT ![r].ended = TRUE, ![r].timer = @ /\ req[r].kind # "plain"]
      /\ sock' = sock /\ srv' = srv /\ res' = res /\ closing' = closing /\ failed' = failed
      /\ wire' = wire /\ parser' = parser
  BY DEF ReadRequest
<1>3. req' \in [Messages -> ReqType]
  <2>1. req \in [Messages -> ReqType] /\ req[r] \in ReqType
    BY <1>1 DEF World, WorldType
  <2>2. PICK t \in BOOLEAN : t = (req[r].timer /\ req[r].kind # "plain")
    BY <2>1 DEF ReqType
  <2>3. PICK e \in BOOLEAN : e = TRUE
    OBVIOUS
  <2>4. PICK c : c = [req[r] EXCEPT !.ended = e, !.timer = t]
    OBVIOUS
  <2>5. c \in ReqType
    BY <2>1, <2>4 DEF ReqType
  <2>6. req' = [req EXCEPT ![r] = c]
    BY <1>2, <2>1, <2>2, <2>3, <2>4 DEF ReqType
  <2> QED
    BY <2>1, <2>5, <2>6
<1>4. Calm(World, World', parser.arrived)
  BY <1>1, <1>2, <1>3 DEF Calm, SameBuf, World, WorldType
<1>5. Frame(World, World', TRUE)
  <2>1. req \in [Messages -> ReqType]
    BY <1>1 DEF World, WorldType
  <2>2. \A x \in Messages : req'[x].complete = req[x].complete
    BY <1>2, <2>1 DEF ReqType
  <2> QED
    BY <1>2, <2>2, WorldIs, WorldPrime DEF Frame, SameComplete
<1> QED
  BY <1>2, <1>4, <1>5, CalmStep DEF IInv

\* 'close' of a response is calm.
LEMMA EmitCloseCalm ==
  ASSUME NEW w \in WorldType, NEW r \in Messages, NEW a, r <= a
  PROVE  Calm(w, EmitClose(w, r), a)
<1>1. CASE w.res[r].destroyed
  BY <1>1, CalmReflexive DEF EmitClose
<1>2. CASE ~w.res[r].destroyed
  <2>1. PICK d \in BOOLEAN : d = TRUE
    OBVIOUS
  <2>2. PICK v : v = WithRes(w, r, WithDestroyed(w.res[r], d, d))
    OBVIOUS
  <2>3. EmitClose(w, r) = v
    BY <1>2, <2>1, <2>2 DEF EmitClose, WithRes, WithDestroyed, WorldType
  <2> QED
    BY <2>1, <2>2, <2>3, DestroyCalm
<1> QED
  BY <1>1, <1>2

\* 'close' of a response leaves everything else alone.
LEMMA EmitCloseSame ==
  ASSUME NEW w \in WorldType, NEW r
  PROVE  /\ EmitClose(w, r).sock = w.sock /\ EmitClose(w, r).srv = w.srv
         /\ EmitClose(w, r).req = w.req
BY DEF EmitClose, WorldType

\* The nextTick in which a response emits 'close'.
LEMMA RunEmitCloseStep ==
  ASSUME IInv, NEW r \in Messages, RunEmitClose(r)
  PROVE  /\ IInv' /\ wire' = wire /\ parser' = parser /\ sock'.state = sock.state
         /\ Frame(World, World', TRUE)
<1>1. World \in WorldType
  BY ArrivedType
<1>2. r \in closing /\ wire' = wire /\ parser' = parser
  BY DEF RunEmitClose
<1>3. r <= parser.arrived
  BY <1>2, WorldIs DEF IInv, WorldOK, FreshOK
<1>4. PICK u : u = EmitClose(World, r)
  OBVIOUS
<1>5. Calm(World, u, parser.arrived)
  BY <1>1, <1>3, <1>4, EmitCloseCalm
<1>6. PICK c : c = u.closing \ {r}
  OBVIOUS
<1>7. PICK v : v = WithAnswered(u, u.req, c)
  OBVIOUS
<1>8. v = [u EXCEPT !.closing = @ \ {r}]
  BY <1>5, <1>6, <1>7 DEF WithAnswered, Calm, WorldType
<1>9. Become(v)
  BY <1>4, <1>8 DEF RunEmitClose
<1>10. /\ v \in WorldType /\ v.sock = u.sock /\ v.srv = u.srv /\ v.res = u.res
       /\ v.req = u.req /\ v.closing = c /\ v.failed = u.failed
  <2>1. u \in WorldType /\ u.req \in [Messages -> ReqType] /\ u.closing \in SUBSET Messages
    BY <1>5 DEF Calm, WorldType
  <2> QED
    BY <1>6, <1>7, <2>1, WithAnsweredType
<1>11. Calm(World, v, parser.arrived)
  BY <1>5, <1>6, <1>10 DEF Calm, SameBuf, Alive
<1>12. u.sock = sock /\ u.srv = srv /\ u.req = req
  BY <1>1, <1>4, WorldIs, EmitCloseSame
<1>13. Frame(World, v, TRUE)
  BY <1>10, <1>11, <1>12, WorldIs DEF Calm, Frame, SameComplete
<1> QED
  BY <1>2, <1>9, <1>10, <1>11, <1>12, <1>13, CalmBecomes, WorldPrime

-----------------------------------------------------------------------------
(* The steps of the socket. *)

\* The world without the first piece.
LEMMA PoppedType ==
  ASSUME NEW w \in WorldType, Len(w.sock.buf) > 0, NEW d \in BOOLEAN, NEW v,
         v = WithSock(w, WithBuf(w.sock, Tail(w.sock.buf), d))
  PROVE  /\ v \in WorldType
         /\ SameSock(w.sock, v.sock)
         /\ v.sock.buf = Tail(w.sock.buf) /\ v.sock.needDrain = d
         /\ v.sock.paused = w.sock.paused
         /\ v.srv = w.srv /\ v.req = w.req /\ v.res = w.res
         /\ v.closing = w.closing /\ v.failed = w.failed
<1>1. Tail(w.sock.buf) \in Seq(Pieces) /\ w.sock \in SockType
  BY WorldFields, TailPieces
<1>2. PICK q \in Seq(Pieces) : q = Tail(w.sock.buf)
  BY <1>1
<1>3. PICK s : s = WithBuf(w.sock, q, d)
  OBVIOUS
<1>4. /\ s \in SockType /\ s.state = w.sock.state /\ s.buf = q /\ s.needDrain = d
      /\ s.paused = w.sock.paused /\ s.message = w.sock.message
      /\ s.peerEnded = w.sock.peerEnded
  BY <1>1, <1>3, WithBufType
<1>5. v = WithSock(w, s)
  BY <1>2, <1>3
<1> QED
  BY <1>2, <1>4, <1>5, WithSockType DEF SameSock

\* The buffer without its first piece, and socketOnDrain when that was the last.
LEMMA DrainedPops ==
  ASSUME NEW w \in WorldType, NEW ph, NEW u \in WorldType,
         SameSock(w.sock, u.sock),
         u.sock.buf = Tail(w.sock.buf),
         u.sock.needDrain = (w.sock.needDrain /\ ~Drains(w)),
         u.sock.paused = w.sock.paused,
         u.srv = w.srv, u.req = w.req, u.res = w.res,
         u.closing = w.closing, u.failed = w.failed
  PROVE  Pops(w, IF Drains(w) /\ ph # "upgraded" THEN SocketOnDrain(u) ELSE u, ph)
<1>1. CASE Drains(w) /\ ph # "upgraded"
  <2>1. PICK v : v = SocketOnDrain(u)
    OBVIOUS
  <2>2. Counts(u, v, 0)
    BY <2>1, SocketOnDrainEffect
  <2>3. /\ v.srv.incoming = u.srv.incoming /\ v.srv.outgoing = u.srv.outgoing
        /\ v.srv.keepAliveTimeoutSet = u.srv.keepAliveTimeoutSet
        /\ v.srv.outgoingData = u.srv.outgoingData
    <3>1. u.srv.outgoingData \in Int
      BY WorldFields
    <3>2. v.srv.outgoingData = u.srv.outgoingData + 0
      BY <2>2 DEF Counts
    <3>3. v.srv.outgoingData = u.srv.outgoingData
      BY <3>1, <3>2
    <3> QED
      BY <2>2, <3>3 DEF Counts, Tells
  <2>4. v.srv = w.srv
    <3>1. v.srv \in SrvType /\ u.srv \in SrvType
      BY <2>2 DEF Counts, Tells, WorldType
    <3> QED
      BY <2>3, <3>1 DEF SrvType
  <2>5. \A x \in Messages :
          /\ v.res[x].output = w.res[x].output
          /\ v.res[x].keep = w.res[x].keep
          /\ v.res[x].last => w.res[x].last \/ ~w.res[x].keep
          /\ v.res[x].finished = w.res[x].finished
          /\ v.res[x].destroyed = w.res[x].destroyed
          /\ v.res[x].needDrain => w.res[x].needDrain
    <3>1. \A x \in Messages :
            /\ v.res[x].output = u.res[x].output
            /\ v.res[x].keep = u.res[x].keep
            /\ v.res[x].last => u.res[x].last \/ ~u.res[x].keep
            /\ v.res[x].finished = u.res[x].finished
            /\ v.res[x].destroyed = u.res[x].destroyed
            /\ v.res[x].needDrain => u.res[x].needDrain
      BY <2>2 DEF Counts, Tells, SameOutputs
    <3> QED
      BY <3>1
  <2>6. SameSock(w.sock, v.sock) /\ v.sock.buf = Tail(w.sock.buf)
        /\ v.sock.needDrain = (w.sock.needDrain /\ ~Drains(w))
        /\ (v.sock.paused => w.sock.paused)
    <3>1. SameSock(u.sock, v.sock)
      BY <2>2 DEF Counts, Tells
    <3>2. v.sock.buf = u.sock.buf /\ v.sock.needDrain = u.sock.needDrain
      BY <2>2 DEF Counts, Tells, SameBuf
    <3>3. v.sock.paused => u.sock.paused
      BY <2>2 DEF Counts, Tells
    <3> QED
      BY <3>1, <3>2, <3>3 DEF SameSock
  <2>7. /\ v.sock.paused => v.srv.outgoingData > HighWaterMark
        /\ v.sock.message # NoMessage /\ ~v.res[v.sock.message].finished
             => ~v.res[v.sock.message].needDrain
        /\ v \in WorldType /\ v.req = w.req /\ v.closing = w.closing /\ v.failed = w.failed
    BY <2>2 DEF Counts, Tells
  <2>8. Pops(w, v, ph)
    BY <2>4, <2>5, <2>6, <2>7 DEF Pops, SameOutputs
  <2> QED
    BY <1>1, <2>1, <2>8
<1>2. CASE ~(Drains(w) /\ ph # "upgraded")
  <2>1. Pops(w, u, ph)
    BY <1>2 DEF Pops, SameOutputs
  <2> QED
    BY <1>2, <2>1
<1> QED
  BY <1>1, <1>2

\* The piece that the socket is done with.
LEMMA FirstPiece ==
  ASSUME NEW w, NEW a \in 0..N, NEW n \in Nat, NEW ph, WorldOK(w, a, n, ph),
         Len(w.sock.buf) > 0, NEW piece, piece = w.sock.buf[1]
  PROVE  /\ piece \in Pieces
         /\ Alive(w) => /\ piece.of = w.sock.message /\ piece.of = n + 1 /\ n + 1 <= a
                        /\ piece.part # "error"
         /\ P!EndsResponse(piece) =>
              /\ Len(w.sock.buf) = 1
              /\ piece.of = w.sock.message /\ piece.of \in Messages /\ piece.of <= a
              /\ w.res[piece.of].finished
              /\ \/ Len(w.srv.incoming) > 0 /\ w.srv.incoming[1] = piece.of
                 \/ ph = "gone" /\ Len(w.srv.incoming) = 0
<1>1. w \in WorldType
  BY DEF WorldOK
<1>2. w.sock.buf \in Seq(Pieces) /\ Len(w.sock.buf) \in Nat /\ 1 \in 1..Len(w.sock.buf)
  BY <1>1, WorldFields
<1>3. piece \in Pieces
  BY <1>2
<1>4. ASSUME Alive(w)
      PROVE  /\ piece.of = w.sock.message /\ piece.of = n + 1 /\ n + 1 <= a
             /\ piece.part # "error"
  <2>1. piece.of = w.sock.message /\ piece.part # "error" /\ w.sock.message # NoMessage
    BY <1>2, <1>4 DEF WorldOK, BufOK, Tagged
  <2>2. InOrder(w)
    BY <1>4 DEF InOrder, Alive
  <2>3. w.sock.message = n + 1
    BY <2>1, <2>2 DEF WorldOK, NumbersOK, Numbered
  <2>4. w.sock.message <= a
    BY DEF WorldOK, FreshOK
  <2> QED
    BY <2>1, <2>3, <2>4
<1>5. ASSUME P!EndsResponse(piece)
      PROVE  /\ Len(w.sock.buf) = 1
             /\ piece.of = w.sock.message /\ piece.of \in Messages /\ piece.of <= a
             /\ w.res[piece.of].finished
             /\ \/ Len(w.srv.incoming) > 0 /\ w.srv.incoming[1] = piece.of
                \/ ph = "gone" /\ Len(w.srv.incoming) = 0
  <2>1. /\ piece.of = w.sock.message /\ w.sock.message \in 1..a
        /\ w.res[w.sock.message].finished /\ Len(w.sock.buf) = 1
    BY <1>2, <1>5 DEF WorldOK, BufOK, EndLast
  <2>2. ~NoEnd(w.sock.buf)
    BY <1>2, <1>5 DEF NoEnd
  <2>3. 1..a \subseteq Messages /\ \A x \in 1..a : x <= a
    BY ServerAssumption DEF Messages
  <2> QED
    BY <2>1, <2>2, <2>3 DEF WorldOK, EndHeads
<1> QED
  BY <1>3, <1>4, <1>5

\* The world after the callback of the write.
LEMMA WrittenKeeps ==
  ASSUME NEW w, NEW u, NEW a \in 0..N, NEW n \in Nat, NEW ph, NEW piece,
         WorldOK(w, a, n, ph), Len(w.sock.buf) > 0, piece = w.sock.buf[1], Pops(w, u, ph)
  PROVE  /\ WorldOK(Written(u, piece), a, n + IF P!EndsResponse(piece) THEN 1 ELSE 0, ph)
         /\ Alive(Written(u, piece)) => Alive(w)
         /\ w.sock.state = "open" /\ Written(u, piece).sock.state = "ended"
              => P!EndsResponse(piece) /\ (w.res[piece.of].last \/ ~w.res[piece.of].keep)
         /\ Frame(w, Written(u, piece), FALSE)
<1>1. WorldOK(u, a, n, ph) /\ (Alive(u) => Numbered(u, a, n))
  BY PopsKeep
<1>2. u.sock.state = w.sock.state /\ u.sock.message = w.sock.message
      /\ u.srv = w.srv /\ u.sock.buf = Tail(w.sock.buf)
  BY DEF Pops, SameSock
<1>3. u.req = w.req /\ \A x \in Messages : u.res[x].finished = w.res[x].finished
  BY DEF Pops
<1>4. CASE ~P!EndsResponse(piece)
  <2>1. Written(u, piece) = u
    BY <1>4 DEF Written
  <2>2. n + 0 = n
    OBVIOUS
  <2>3. Frame(w, u, FALSE)
    BY <1>2, <1>3 DEF Frame, SameComplete
  <2> QED
    BY <1>1, <1>2, <1>4, <2>1, <2>2, <2>3 DEF Alive
<1>5. CASE P!EndsResponse(piece)
  <2>1. /\ Len(w.sock.buf) = 1
        /\ piece.of = w.sock.message /\ piece.of \in Messages /\ piece.of <= a
        /\ w.res[piece.of].finished
        /\ \/ Len(w.srv.incoming) > 0 /\ w.srv.incoming[1] = piece.of
           \/ ph = "gone" /\ Len(w.srv.incoming) = 0
    BY <1>5, FirstPiece
  <2>2. Len(u.sock.buf) = 0
    <3>1. w.sock.buf \in Seq(Pieces)
      BY WorldFields DEF WorldOK
    <3> QED
      BY <1>2, <2>1, <3>1, TailPieces
  <2>3. u.res[piece.of].finished
        /\ (u.res[piece.of].last => w.res[piece.of].last \/ ~w.res[piece.of].keep)
    BY <2>1 DEF Pops
  <2>4. Finishing(u, a, n, ph, piece.of)
    BY <1>1, <1>2, <2>1, <2>2, <2>3 DEF Finishing
  <2>5. Written(u, piece) = ResOnFinish(u, piece.of)
    BY <1>5 DEF Written
  <2>6. /\ WorldOK(ResOnFinish(u, piece.of), a, n + 1, ph)
        /\ Alive(ResOnFinish(u, piece.of)) => Alive(u)
        /\ u.sock.state = "open" /\ ResOnFinish(u, piece.of).sock.state = "ended"
             => u.res[piece.of].last
        /\ Frame(u, ResOnFinish(u, piece.of), FALSE)
    BY <2>4, ResOnFinishKeeps
  <2>7. Frame(w, ResOnFinish(u, piece.of), FALSE)
    BY <1>2, <1>3, <2>6 DEF Frame, SameComplete
  <2> QED
    BY <1>2, <1>5, <2>3, <2>5, <2>6, <2>7 DEF Alive
<1> QED
  BY <1>4, <1>5

\* The socket has sent its first piece.
LEMMA WriteDoneStep ==
  ASSUME IInv, WriteDone
  PROVE  /\ IInv' /\ parser' = parser
         /\ Alive(World) /\ P!Sent(wire) + 1 <= parser.arrived
         /\ \E piece \in Pieces :
               /\ wire' = Append(wire, piece)
               /\ piece.of = P!Sent(wire) + 1 /\ piece.part # "error"
               /\ sock.state = "open" /\ sock'.state = "ended"
                    => P!EndsResponse(piece) /\ (res[piece.of].last \/ ~res[piece.of].keep)
         /\ Frame(World, World', FALSE) /\ ~parser.executing
<1>1. World \in WorldType /\ parser.arrived \in 0..N /\ P!Sent(wire) \in Nat
  BY ArrivedType
<1>2. PICK a \in 0..N : a = parser.arrived
  BY <1>1
<1>3. PICK n \in Nat : n = P!Sent(wire)
  BY <1>1
<1>4. PICK w : w = World
  OBVIOUS
<1>5. w \in WorldType /\ w.sock = sock /\ w.res = res
  BY <1>1, <1>4, WorldIs
<1>6. sock.buf \in Seq(Pieces) /\ sock.needDrain \in BOOLEAN
  BY <1>5, WorldFields
<1>7. /\ ~parser.executing /\ sock.buf # <<>> /\ Alive(w)
      /\ wire' = Append(wire, Head(sock.buf)) /\ parser' = parser
  BY <1>4 DEF WriteDone, IO
<1>8. Len(sock.buf) > 0
  BY <1>6, <1>7
<1>9. PICK piece : piece = sock.buf[1]
  OBVIOUS
<1>10. Head(sock.buf) = piece
  BY <1>6, <1>8, <1>9, TailPieces
<1>11. PICK d \in BOOLEAN : d = (sock.needDrain /\ ~Drains(w))
  BY <1>6
<1>12. PICK u : u = WithSock(w, WithBuf(w.sock, Tail(w.sock.buf), d))
  OBVIOUS
<1>13. u = [World EXCEPT !.sock.buf = Tail(@), !.sock.needDrain = @ /\ ~Drains(w)]
  BY <1>4, <1>5, <1>11, <1>12 DEF WithSock, WithBuf, WorldType, SockType
<1>14. PICK x : x = IF Drains(w) /\ parser.phase # "upgraded" THEN SocketOnDrain(u) ELSE u
  OBVIOUS
<1>15. Pops(w, x, parser.phase)
  <2>1. Len(w.sock.buf) > 0
    BY <1>5, <1>8
  <2>2. /\ u \in WorldType
        /\ SameSock(w.sock, u.sock)
        /\ u.sock.buf = Tail(w.sock.buf) /\ u.sock.needDrain = d
        /\ u.sock.paused = w.sock.paused
        /\ u.srv = w.srv /\ u.req = w.req /\ u.res = w.res
        /\ u.closing = w.closing /\ u.failed = w.failed
    BY <1>5, <1>12, <2>1, PoppedType
  <2>3. u.sock.needDrain = (w.sock.needDrain /\ ~Drains(w))
    BY <1>5, <1>11, <2>2
  <2> QED
    BY <1>5, <1>14, <2>2, <2>3, DrainedPops
<1>16. PICK v : v = Written(x, piece)
  OBVIOUS
<1>17. Become(v)
  <2>1. Drains(w) <=> (Len(sock.buf) = 1 /\ sock.needDrain /\ sock.state = "open")
    BY <1>5 DEF Drains
  <2>2. CASE Drains(w)
    BY <1>10, <1>13, <1>14, <1>16, <2>1, <2>2 DEF WriteDone
  <2>3. CASE ~Drains(w)
    BY <1>10, <1>13, <1>14, <1>16, <2>1, <2>3 DEF WriteDone
  <2> QED
    BY <2>2, <2>3
<1>18. WorldOK(w, a, n, parser.phase)
  BY <1>2, <1>3, <1>4 DEF IInv
<1>19. /\ WorldOK(v, a, n + IF P!EndsResponse(piece) THEN 1 ELSE 0, parser.phase)
       /\ sock.state = "open" /\ v.sock.state = "ended"
            => P!EndsResponse(piece) /\ (res[piece.of].last \/ ~res[piece.of].keep)
       /\ Frame(w, v, FALSE)
  BY <1>5, <1>8, <1>9, <1>15, <1>16, <1>18, WrittenKeeps
<1>20. /\ piece \in Pieces /\ piece.of = n + 1 /\ n + 1 <= a /\ piece.part # "error"
  BY <1>5, <1>7, <1>8, <1>9, <1>18, FirstPiece
<1>21. World' = v
  BY <1>17, <1>19, BecomeWorld DEF WorldOK
<1>22. wire \in Seq(Pieces)
  BY DEF IInv
<1>23. wire' \in Seq(Pieces)
       /\ P!Sent(wire') = n + IF P!EndsResponse(piece) THEN 1 ELSE 0
  BY <1>3, <1>7, <1>10, <1>20, <1>22, SentAppend
<1>24. WorldOK(World', parser'.arrived, P!Sent(wire'), parser'.phase)
  BY <1>2, <1>7, <1>19, <1>21, <1>23
<1>25. IInv'
  BY <1>7, <1>23, <1>24 DEF IInv
<1>26. sock'.state = v.sock.state
  BY <1>21, WorldPrime
<1> QED
  BY <1>2, <1>3, <1>4, <1>7, <1>10, <1>19, <1>20, <1>21, <1>25, <1>26

\* The callback of a piece that a destroyed socket did not send.
LEMMA WriteFailsStep ==
  ASSUME IInv, WriteFails
  PROVE  /\ IInv' /\ wire' = wire /\ parser' = parser /\ ~Alive(World')
         /\ Frame(World, World', FALSE)
<1>1. World \in WorldType /\ parser.arrived \in 0..N /\ P!Sent(wire) \in Nat
  BY ArrivedType
<1>2. PICK a \in 0..N : a = parser.arrived
  BY <1>1
<1>3. PICK n \in Nat : n = P!Sent(wire)
  BY <1>1
<1>4. PICK w : w = World
  OBVIOUS
<1>5. w \in WorldType /\ w.sock = sock
  BY <1>1, <1>4, WorldIs
<1>6. sock.buf \in Seq(Pieces) /\ sock.needDrain \in BOOLEAN
  BY <1>5, WorldFields
<1>7. ~parser.executing /\ sock.buf # <<>> /\ ~Alive(w) /\ wire' = wire /\ parser' = parser
  BY <1>4 DEF WriteFails, IO
<1>8. Len(sock.buf) > 0
  BY <1>6, <1>7
<1>9. PICK piece : piece = sock.buf[1]
  OBVIOUS
<1>10. Head(sock.buf) = piece
  BY <1>6, <1>8, <1>9, TailPieces
<1>11. ~Drains(w)
  BY <1>7 DEF Drains, Alive
<1>12. PICK d \in BOOLEAN : d = sock.needDrain
  BY <1>6
<1>13. PICK u : u = WithSock(w, WithBuf(w.sock, Tail(w.sock.buf), d))
  OBVIOUS
<1>14. u = [World EXCEPT !.sock.buf = Tail(@)]
  <2>1. w.sock \in SockType
    BY <1>5 DEF WorldType
  <2>2. WithBuf(w.sock, Tail(w.sock.buf), d) = [w.sock EXCEPT !.buf = Tail(@)]
    BY <1>5, <1>12, <2>1 DEF WithBuf, SockType
  <2> QED
    BY <1>4, <1>13, <2>2 DEF WithSock
<1>15. d = (w.sock.needDrain /\ ~Drains(w))
  BY <1>5, <1>6, <1>11, <1>12
<1>16. Pops(w, u, parser.phase)
  <2>1. Pops(w, IF Drains(w) /\ parser.phase # "upgraded" THEN SocketOnDrain(u) ELSE u,
             parser.phase)
    <3>1. Len(w.sock.buf) > 0
      BY <1>5, <1>8
    <3>2. /\ u \in WorldType
          /\ SameSock(w.sock, u.sock)
          /\ u.sock.buf = Tail(w.sock.buf) /\ u.sock.needDrain = d
          /\ u.sock.paused = w.sock.paused
          /\ u.srv = w.srv /\ u.req = w.req /\ u.res = w.res
          /\ u.closing = w.closing /\ u.failed = w.failed
      BY <1>5, <1>13, <3>1, PoppedType
    <3>3. u.sock.needDrain = (w.sock.needDrain /\ ~Drains(w))
      BY <1>15, <3>2
    <3> QED
      BY <1>5, <3>2, <3>3, DrainedPops
  <2> QED
    BY <1>11, <2>1
<1>17. PICK v : v = Written(u, piece)
  OBVIOUS
<1>18. Become(v)
  BY <1>10, <1>14, <1>17 DEF WriteFails
<1>19. WorldOK(w, a, n, parser.phase)
  BY <1>2, <1>3, <1>4 DEF IInv
<1>20. PICK k : k = n + IF P!EndsResponse(piece) THEN 1 ELSE 0
  OBVIOUS
<1>21. WorldOK(v, a, k, parser.phase) /\ (Alive(v) => Alive(w)) /\ Frame(w, v, FALSE)
  BY <1>5, <1>8, <1>9, <1>16, <1>17, <1>19, <1>20, WrittenKeeps
<1>22. WorldOK(v, a, n, parser.phase) /\ ~Alive(v)
  BY <1>7, <1>21, DeadAnyCount
<1>23. World' = v
  BY <1>18, <1>22, BecomeWorld DEF WorldOK
<1> QED
  BY <1>2, <1>3, <1>4, <1>7, <1>21, <1>22, <1>23 DEF IInv

\* The steps that destroy the socket.
LEMMA DestroySocketStep ==
  ASSUME IInv, Become(DestroySocket(World)), wire' = wire, parser' = parser
  PROVE  IInv' /\ ~Alive(World') /\ Frame(World, World', TRUE)
<1>1. World \in WorldType
  BY ArrivedType
<1>2. PICK v : v = DestroySocket(World)
  OBVIOUS
<1>3. v.req = req
  BY <1>1, <1>2, WorldIs, DestroySocketEffect
<1>4. World' = v /\ IInv' /\ ~Alive(v)
  BY <1>1, <1>2, CalmReflexive, CalmDestroyed, CalmBecomes
<1>5. Calm(World, v, parser.arrived) /\ ~Alive(v)
  BY <1>1, <1>2, CalmReflexive, CalmDestroyed
<1> QED
  BY <1>3, <1>4, WorldIs DEF Frame, SameComplete, Alive

\* With httpAllowHalfOpen the server does not end while a response has the socket.
LEMMA HalfCloseWaits ==
  ASSUME NEW u \in WorldType, HttpAllowHalfOpen, u.sock.message # NoMessage
  PROVE  HalfClose(u).sock = u.sock
BY DEF HalfClose, WorldType

\* The requests are left alone.
LEMMA HalfCloseRequests ==
  ASSUME NEW u \in WorldType
  PROVE  HalfClose(u).req = u.req
BY DEF HalfClose, EndSocket, WorldType

\* socketOnEnd: the client has ended its side.
LEMMA PeerEndStep ==
  ASSUME IInv, PeerEnd
  PROVE  /\ IInv' /\ parser' = parser /\ Frame(World, World', TRUE)
         /\ wire' = wire \/ Refuses
         /\ Alive(World') => sock'.state = sock.state
                             \/ (sock.state = "open" /\ sock'.state = "ended")
         /\ sock.state = "open" /\ sock'.state = "ended" =>
               \/ ~HttpAllowHalfOpen /\ sock'.peerEnded
               \/ parser.arrived = P!Sent(wire)
<1>1. World \in WorldType /\ parser.arrived \in 0..N /\ P!Sent(wire) \in Nat
  BY ArrivedType
<1>2. ~parser.executing /\ Alive(World) /\ ~sock.peerEnded /\ parser' = parser
  BY DEF PeerEnd, IO
<1>3. PICK s : s = [sock EXCEPT !.peerEnded = TRUE]
  OBVIOUS
<1>4. sock \in SockType
  BY <1>1, WorldIs, WorldFields
<1>5. /\ s \in SockType /\ s.state = sock.state /\ s.buf = sock.buf
      /\ s.needDrain = sock.needDrain /\ s.message = sock.message
      /\ s.paused = sock.paused /\ s.peerEnded
  BY <1>3, <1>4 DEF SockType
<1>6. PICK u : u = WithSock(World, s)
  OBVIOUS
<1>7. /\ u \in WorldType /\ u.sock = s /\ u.srv = srv /\ u.req = req /\ u.res = res
      /\ u.closing = closing /\ u.failed = failed
  BY <1>1, <1>5, <1>6, WithSockType, WorldIs
<1>8. u = [World EXCEPT !.sock.peerEnded = TRUE]
  BY <1>3, <1>6 DEF WithSock, World
<1>9. PICK a \in 0..N : a = parser.arrived
  BY <1>1
<1>10. PICK n \in Nat : n = P!Sent(wire)
  BY <1>1
<1>11. WorldOK(World, a, n, parser.phase)
  BY <1>9, <1>10 DEF IInv
<1>12. CASE parser.phase = "idle"
  <2>1. PICK v : v = HalfClose(u)
    OBVIOUS
  <2>2. Become(v) /\ wire' = wire
    BY <1>8, <1>12, <2>1 DEF PeerEnd
  <2>3. ClientEnds(World, v, a)
    BY <1>2, <1>5, <1>7, <1>11, <2>1, WorldIs, HalfCloseEffect DEF SameBuf
  <2>4. WorldOK(v, a, n, parser.phase)
    BY <1>2, <1>11, <2>3, WorldIs, ClientEndsKeeps
  <2>5. World' = v
    BY <2>2, <2>4, BecomeWorld DEF WorldOK
  <2>6. sock'.state = sock.state \/ (sock.state = "open" /\ sock'.state = "ended")
    BY <2>3, <2>5, WorldIs, WorldPrime DEF ClientEnds
  <2>7. ASSUME sock.state = "open", sock'.state = "ended"
        PROVE  \/ ~HttpAllowHalfOpen /\ sock'.peerEnded
               \/ parser.arrived = P!Sent(wire)
    <3>1. sock'.peerEnded
      BY <2>3, <2>5, WorldPrime DEF ClientEnds
    <3>2. HttpAllowHalfOpen => sock.message = NoMessage
      <4>1. SUFFICES ASSUME HttpAllowHalfOpen, sock.message # NoMessage
                     PROVE  FALSE
        OBVIOUS
      <4>2. v.sock.state = sock.state
        BY <1>5, <1>7, <2>1, <4>1, HalfCloseWaits
      <4> QED
        BY <2>5, <2>7, <4>2, WorldPrime
    <3>3. Numbered(World, a, n)
      BY <1>11, <2>7, WorldIs DEF WorldOK, NumbersOK, InOrder
    <3>4. sock.message = NoMessage => a = n
      BY <3>3, WorldIs DEF Numbered
    <3> QED
      BY <1>9, <1>10, <3>1, <3>2, <3>4, ServerAssumption
  <2>8. Frame(World, World', TRUE)
    <3>1. v.req = req
      BY <1>7, <2>1, HalfCloseRequests
    <3> QED
      BY <2>3, <2>5, <3>1, WorldIs DEF Frame, SameComplete, ClientEnds
  <2> QED
    BY <1>2, <1>9, <1>10, <2>2, <2>4, <2>5, <2>6, <2>7, <2>8 DEF IInv
<1>13. CASE parser.phase # "idle"
  <2>1. SocketOnError(u)
    BY <1>8, <1>13 DEF PeerEnd
  <2>2. parser' \in ParserType /\ (parser'.phase = "head" => parser'.arrived < N)
    BY <1>2 DEF IInv
  <2>3. /\ IInv' /\ ~Alive(World') /\ req' = req
        /\ wire' = wire \/ Refuses
    BY <1>2, <1>5, <1>7, <2>1, <2>2, ErrorStep
  <2>4. Frame(World, World', TRUE)
    BY <2>3, WorldIs, WorldPrime DEF Frame, SameComplete, Alive
  <2> QED
    BY <1>2, <2>3, <2>4 DEF Alive, World
<1> QED
  BY <1>12, <1>13

\* onRequestTimeout, of the timer on the socket or on a request.
LEMMA RequestTimesOutStep ==
  ASSUME IInv, RequestTimesOut
  PROVE  /\ IInv' /\ parser' = parser /\ ~Alive(World')
         /\ wire' = wire \/ Refuses
         /\ Frame(World, World', TRUE)
<1>1. World \in WorldType
  BY ArrivedType
<1>2. ~parser.executing /\ parser' = parser
  BY DEF RequestTimesOut, IO
<1>3. PICK s : s = [sock EXCEPT !.timer = FALSE]
  OBVIOUS
<1>4. sock \in SockType /\ req \in [Messages -> ReqType] /\ closing \in SUBSET Messages
  BY <1>1, WorldIs DEF WorldType
<1>5. /\ s \in SockType /\ s.buf = sock.buf /\ s.message = sock.message
      /\ s.state = sock.state
  BY <1>3, <1>4 DEF SockType
<1>6. PICK u : u = WithSock(World, s)
  OBVIOUS
<1>7. /\ u \in WorldType /\ u.sock = s /\ u.srv = srv /\ u.req = req /\ u.res = res
      /\ u.closing = closing /\ u.failed = failed
  BY <1>1, <1>5, <1>6, WithSockType, WorldIs
<1>8. u = [World EXCEPT !.sock.timer = FALSE]
  BY <1>3, <1>6 DEF WithSock, World
<1>9. ASSUME NEW x \in WorldType, x.sock = s, x.srv = srv, x.res = res, x.closing = closing,
             x.failed = failed, SameComplete(World, x), SocketOnError(x)
      PROVE  /\ IInv' /\ ~Alive(World') /\ Frame(World, World', TRUE)
             /\ wire' = wire \/ Refuses
  <2>1. parser' \in ParserType /\ (parser'.phase = "head" => parser'.arrived < N)
    BY <1>2 DEF IInv
  <2>2. /\ IInv' /\ ~Alive(World') /\ req' = x.req
        /\ wire' = wire \/ Refuses
    BY <1>2, <1>5, <1>9, <2>1, ErrorStep
  <2>3. Frame(World, World', TRUE)
    BY <1>9, <2>2, WorldIs, WorldPrime DEF Frame, SameComplete, Alive
  <2> QED
    BY <2>2, <2>3
<1>10. CASE SocketOnError([World EXCEPT !.sock.timer = FALSE])
  BY <1>2, <1>7, <1>8, <1>9, <1>10, WorldIs DEF SameComplete
<1>11. ASSUME NEW r \in Messages,
              SocketOnError([World EXCEPT !.sock.timer = FALSE, !.req[r].timer = FALSE])
       PROVE  /\ IInv' /\ ~Alive(World') /\ Frame(World, World', TRUE)
              /\ wire' = wire \/ Refuses
  <2>1. PICK R : R = [req EXCEPT ![r].timer = FALSE]
    OBVIOUS
  <2>2. R \in [Messages -> ReqType]
    BY <1>4, <2>1 DEF ReqType
  <2>3. PICK x : x = WithAnswered(u, R, closing)
    OBVIOUS
  <2>4. /\ x \in WorldType /\ x.sock = s /\ x.srv = srv /\ x.res = res /\ x.req = R
        /\ x.closing = closing /\ x.failed = failed
    BY <1>4, <1>7, <2>2, <2>3, WithAnsweredType
  <2>5. x = [World EXCEPT !.sock.timer = FALSE, !.req[r].timer = FALSE]
    BY <1>7, <1>8, <2>1, <2>3 DEF WithAnswered, World
  <2>6. SameComplete(World, x)
    <3>1. \A y \in Messages : R[y].complete = req[y].complete
      BY <1>4, <2>1 DEF ReqType
    <3> QED
      BY <2>4, <3>1, WorldIs DEF SameComplete
  <2> QED
    BY <1>9, <1>11, <2>4, <2>5, <2>6
<1> QED
  BY <1>2, <1>10, <1>11 DEF RequestTimesOut

WithRequests(w, t, R) == [w EXCEPT !.srv = t, !.req = R]

\* The fields of a world whose requests are aborted.
LEMMA WithRequestsType ==
  ASSUME NEW w \in WorldType, NEW t \in SrvType, NEW R \in [Messages -> ReqType]
  PROVE  /\ WithRequests(w, t, R) \in WorldType
         /\ WithRequests(w, t, R).sock = w.sock /\ WithRequests(w, t, R).srv = t
         /\ WithRequests(w, t, R).req = R /\ WithRequests(w, t, R).res = w.res
         /\ WithRequests(w, t, R).closing = w.closing
         /\ WithRequests(w, t, R).failed = w.failed
BY DEF WithRequests, WorldType

\* socketOnClose, abortIncoming and the response's 'close'.
LEMMA ClosedStep ==
  ASSUME IInv, Closed
  PROVE  /\ IInv' /\ wire' = wire /\ parser'.arrived = parser.arrived /\ ~Alive(World')
         /\ parser'.phase \in {"upgraded", "gone"} /\ Frame(World, World', TRUE)
<1>1. World \in WorldType
  BY ArrivedType
<1>2. sock \in SockType /\ srv \in SrvType /\ req \in [Messages -> ReqType]
      /\ closing \in SUBSET Messages
  BY <1>1, WorldIs DEF WorldType
<1>3. /\ ~parser.executing /\ wire' = wire
      /\ parser' = [parser EXCEPT !.phase = IF parser.phase = "upgraded" THEN @ ELSE "gone"]
  BY DEF Closed, IO
<1>4. /\ parser' \in ParserType /\ parser'.arrived = parser.arrived
      /\ parser'.phase = IF parser.phase = "upgraded" THEN "upgraded" ELSE "gone"
      /\ ~parser'.executing
  BY <1>3 DEF IInv, ParserType
<1>5. PICK k \in {"open", "ended", "destroyed", "closed"} : k = "closed"
  OBVIOUS
<1>6. PICK s : s = WithState(sock, k)
  OBVIOUS
<1>7. s \in SockType /\ s.state = k /\ s.buf = sock.buf /\ s.message = sock.message
  BY <1>2, <1>6, WithStateType
<1>8. ASSUME NEW x \in WorldType, x.sock = sock, x.res = res, x.closing = closing,
             x.failed = failed, x.srv.outgoing = srv.outgoing,
             x.srv.outgoingData = srv.outgoingData,
             \/ x.srv.incoming = srv.incoming /\ parser.phase = "upgraded"
             \/ Len(x.srv.incoming) = 0 /\ parser.phase # "upgraded",
             SameComplete(World, x),
             NEW w, w = [x EXCEPT !.sock.state = "closed"],
             Become(IF sock.message = NoMessage THEN w ELSE EmitClose(w, sock.message))
      PROVE  IInv' /\ ~Alive(World') /\ Frame(World, World', TRUE)
  <2>1. w = WithSock(x, s)
    BY <1>5, <1>6, <1>8 DEF WithSock, WithState, WorldType
  <2>2. /\ w \in WorldType /\ w.sock = s /\ w.srv = x.srv /\ w.res = res /\ w.req = x.req
        /\ w.closing = closing /\ w.failed = failed
    <3>1. s \in SockType
      BY <1>7
    <3>2. /\ w \in WorldType /\ w.sock = s /\ w.srv = x.srv /\ w.res = x.res /\ w.req = x.req
          /\ w.closing = x.closing /\ w.failed = x.failed
      BY <2>1, <3>1, WithSockType
    <3> QED
      BY <1>8, <3>2
  <2>3. ~Alive(w)
    BY <1>5, <1>7, <2>2 DEF Alive
  <2>4. Dies(World, w, parser.arrived, parser.phase, parser'.phase)
    BY <1>4, <1>7, <1>8, <2>2, <2>3, WorldIs DEF Dies
  <2>5. PICK v : v = IF sock.message = NoMessage THEN w ELSE EmitClose(w, sock.message)
    OBVIOUS
  <2>6. Calm(w, v, parser.arrived) /\ ~Alive(v)
    <3>1. CASE sock.message = NoMessage
      BY <2>2, <2>3, <2>5, <3>1, CalmReflexive
    <3>2. CASE sock.message # NoMessage
      <4>1. sock.message \in Messages /\ sock.message <= parser.arrived
        <5>1. sock.message \in 0..N /\ sock.message # 0
          BY <1>2, <3>2 DEF SockType, NoMessage
        <5>2. sock.message <= parser.arrived
          BY WorldIs DEF IInv, WorldOK, FreshOK
        <5> QED
          BY <5>1, <5>2 DEF Messages
      <4>2. Calm(w, v, parser.arrived)
        BY <2>2, <2>5, <3>2, <4>1, EmitCloseCalm
      <4> QED
        BY <2>3, <4>2 DEF Calm, Alive
    <3> QED
      BY <3>1, <3>2
  <2>7. Dies(World, v, parser.arrived, parser.phase, parser'.phase)
    <3>1. \A y \in Messages :
            /\ v.res[y].output = World.res[y].output
            /\ v.res[y].keep = World.res[y].keep
            /\ v.res[y].last = World.res[y].last
            /\ v.res[y].finished = World.res[y].finished
            /\ v.res[y].needDrain = World.res[y].needDrain
            /\ v.res[y].destroyed => World.res[y].destroyed \/ y <= parser.arrived
      BY <2>4, <2>6 DEF Calm, Dies
    <3> QED
      BY <2>4, <2>6, <3>1 DEF Dies, Calm, SameBuf
  <2>8. World' = v
    BY <1>8, <2>5, <2>7, BecomeWorld DEF Dies
  <2>9. parser'.phase # "head"
    BY <1>4
  <2>10. IInv'
    BY <1>3, <1>4, <2>7, <2>8, <2>9, DiesStep
  <2>11. Frame(World, v, TRUE)
    <3>1. v.req = w.req
      BY <2>2, <2>5, EmitCloseSame
    <3> QED
      BY <1>8, <2>2, <2>6, <3>1 DEF Frame, SameComplete, Alive
  <2> QED
    BY <2>6, <2>8, <2>10, <2>11
<1>9. CASE parser.phase = "upgraded"
  <2>1. PICK w : w = [World EXCEPT !.sock.state = "closed"]
    OBVIOUS
  <2>2. Become(IF sock.message = NoMessage THEN w ELSE EmitClose(w, sock.message))
    BY <1>9, <2>1 DEF Closed
  <2>3. IInv' /\ ~Alive(World') /\ Frame(World, World', TRUE)
    BY <1>1, <1>8, <1>9, <2>1, <2>2, WorldIs DEF SameComplete
  <2> QED
    BY <1>3, <1>4, <2>3
<1>10. CASE parser.phase # "upgraded"
  <2>1. PICK R : R = [r \in Messages |->
                        [req[r] EXCEPT !.aborted =
                            @ \/ r \in {srv.incoming[i] : i \in 1..Len(srv.incoming)}]]
    OBVIOUS
  <2>2. R \in [Messages -> ReqType]
    <3>1. ASSUME NEW r \in Messages
          PROVE  R[r] \in ReqType
      <4>1. PICK b \in BOOLEAN :
               b = (req[r].aborted \/ r \in {srv.incoming[i] : i \in 1..Len(srv.incoming)})
        BY <1>2 DEF ReqType
      <4>2. R[r] = [req[r] EXCEPT !.aborted = b]
        BY <2>1, <4>1
      <4> QED
        BY <1>2, <4>1, <4>2 DEF ReqType
    <3> QED
      BY <2>1, <3>1
  <2>3. <<>> \in Seq(Messages)
    OBVIOUS
  <2>4. PICK e \in Seq(Messages) : e = <<>>
    BY <2>3
  <2>5. PICK t : t = WithIncoming(srv, e)
    OBVIOUS
  <2>6. /\ t \in SrvType /\ t.incoming = e /\ t.outgoing = srv.outgoing
        /\ t.outgoingData = srv.outgoingData
    BY <1>2, <2>5, SrvListsType
  <2>7. PICK x : x = WithRequests(World, t, R)
    OBVIOUS
  <2>8. /\ x \in WorldType /\ x.sock = sock /\ x.srv = t /\ x.req = R /\ x.res = res
        /\ x.closing = closing /\ x.failed = failed
    BY <1>1, <1>2, <2>2, <2>6, <2>7, WithRequestsType, WorldIs
  <2>9. x = [World EXCEPT !.srv.incoming = <<>>, !.req = R]
    <3>1. t = [srv EXCEPT !.incoming = <<>>]
      BY <2>4, <2>5 DEF WithIncoming
    <3> QED
      BY <2>7, <3>1 DEF WithRequests, World
  <2>10. PICK w : w = [x EXCEPT !.sock.state = "closed"]
    OBVIOUS
  <2>11. Become(IF sock.message = NoMessage THEN w ELSE EmitClose(w, sock.message))
    BY <1>10, <2>1, <2>9, <2>10 DEF Closed
  <2>12. Len(x.srv.incoming) = 0
    BY <2>4, <2>6, <2>8
  <2>13. SameComplete(World, x)
    <3>1. \A y \in Messages : R[y].complete = req[y].complete
      BY <1>2, <2>1 DEF ReqType
    <3> QED
      BY <2>8, <3>1, WorldIs DEF SameComplete
  <2>14. IInv' /\ ~Alive(World') /\ Frame(World, World', TRUE)
    BY <1>8, <1>10, <2>6, <2>8, <2>10, <2>11, <2>12, <2>13
  <2> QED
    BY <1>3, <1>4, <2>14
<1> QED
  BY <1>9, <1>10

=============================================================================
