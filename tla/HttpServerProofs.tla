-------------------------- MODULE HttpServerProofs --------------------------
(***************************************************************************)
(* What holds of a server connection for every number of requests and of   *)
(* writes, every high-water mark, and whatever the client and the program do. *)
(***************************************************************************)
EXTENDS HttpServerSteps

-----------------------------------------------------------------------------
(* The invariant. *)

\* A connection that has just been accepted.
LEMMA InitInv == Init => IInv
<1> SUFFICES ASSUME Init
             PROVE  IInv
  OBVIOUS
<1>1. /\ sock.state = "open" /\ sock.buf = <<>> /\ ~sock.needDrain /\ ~sock.paused
      /\ sock.message = 0 /\ ~sock.peerEnded
      /\ srv.incoming = <<>> /\ srv.outgoing = <<>> /\ srv.outgoingData = 0
      /\ ~srv.keepAliveTimeoutSet
      /\ parser.arrived = 0 /\ ~parser.executing /\ parser.phase = "idle"
      /\ closing = {} /\ wire = <<>> /\ ~failed
  BY DEF Init, NoMessage
<1>2. /\ \A x \in Messages : /\ res[x].keep /\ ~res[x].last /\ res[x].output = <<>>
                             /\ ~res[x].needDrain /\ ~res[x].finished /\ ~res[x].destroyed
      /\ \A x \in Messages : x > 0
  BY DEF Init, Messages
<1>3. /\ Len(sock.buf) = 0 /\ Len(srv.incoming) = 0 /\ Len(srv.outgoing) = 0
      /\ \A x \in Messages : Len(res[x].output) = 0 /\ DOMAIN res[x].output = {}
  BY <1>1, <1>2
<1>4. World \in WorldType /\ parser \in ParserType /\ wire \in Seq(Pieces)
  <2>1. <<>> \in Seq(Pieces) /\ <<>> \in Seq(Messages)
    OBVIOUS
  <2>2. 0 \in 0..N /\ 0 \in 0..MaxWrites /\ 0 \in Int
    BY ServerAssumption
  <2>3. sock \in SockType
    BY <2>1, <2>2, ServerAssumption DEF Init, SockType, NoMessage
  <2>4. srv \in SrvType
    BY <2>1, <2>2 DEF Init, SrvType
  <2>5. req \in [Messages -> ReqType]
    BY DEF Init, ReqType, AllKinds
  <2>6. res \in [Messages -> ResType]
    BY <2>1, <2>2 DEF Init, ResType
  <2>7. closing \in SUBSET Messages /\ failed \in BOOLEAN
    BY DEF Init
  <2>8. parser \in ParserType /\ wire \in Seq(Pieces)
    BY <2>1, <2>2 DEF Init, ParserType
  <2> QED
    BY <2>3, <2>4, <2>5, <2>6, <2>7, <2>8 DEF World, WorldType
<1>5. P!Sent(wire) = 0
  <2>1. DOMAIN wire = {}
    BY <1>1
  <2>2. {i \in DOMAIN wire : P!EndsResponse(wire[i])} = {}
    BY <2>1
  <2> QED
    BY <2>2, SameCardinality, FS_EmptySet DEF P!Sent
<1>6. CountOK(World)
  <2>1. Queued(World) = {}
    BY <1>3, WorldIs DEF Queued
  <2> QED
    BY <1>1, <2>1, WorldIs, FS_EmptySet DEF CountOK
<1>7. FreshOK(World, 0)
  BY <1>1, <1>2, <1>3, WorldIs DEF FreshOK
<1>8. OutputsOK(World)
  BY <1>3, WorldIs DEF OutputsOK, Tagged, EndLast, NoEnd
<1>9. BufOK(World, 0) /\ EndHeads(World, "idle")
  BY <1>1, <1>3, WorldIs DEF BufOK, EndHeads, Tagged, EndLast, NoEnd
<1>10. NumbersOK(World, 0, 0)
  BY <1>1, <1>3, WorldIs DEF NumbersOK, Numbered, NoMessage
<1>11. TimerOK(World)
  BY <1>1, WorldIs DEF TimerOK
<1>12. TurnsOK(World, 0)
  <2>1. \A x \in Messages : ~(x <= 0)
    BY DEF Messages
  <2> QED
    BY <1>1, <1>3, <2>1, WorldIs DEF TurnsOK
<1>13. PausedOK(World, "idle")
  BY <1>1, WorldIs DEF PausedOK
<1>14. WaitingOK(World, 0, "idle")
  BY <1>2, WorldIs DEF WaitingOK
<1>15. LastOK(World, 0)
  BY <1>2, WorldIs DEF LastOK
<1>16. WorldOK(World, 0, 0, "idle")
  BY <1>4, <1>6, <1>7, <1>8, <1>9, <1>10, <1>11, <1>12, <1>13, <1>14, <1>15 DEF WorldOK
<1> QED
  BY <1>1, <1>4, <1>5, <1>16 DEF IInv

\* A socket that ended and has sent everything is destroyed.
LEMMA SocketFinishStep ==
  ASSUME IInv, SocketFinish
  PROVE  /\ IInv' /\ wire' = wire /\ parser' = parser /\ ~Alive(World')
         /\ Frame(World, World', TRUE)
BY DestroySocketStep DEF SocketFinish

\* The client resets the connection.
LEMMA PeerResetStep ==
  ASSUME IInv, PeerReset
  PROVE  /\ IInv' /\ wire' = wire /\ parser' = parser /\ ~Alive(World')
         /\ Frame(World, World', TRUE)
BY DestroySocketStep DEF PeerReset

\* The keep-alive timeout.
LEMMA KeepAliveTimeoutStep ==
  ASSUME IInv, KeepAliveTimeout
  PROVE  /\ IInv' /\ wire' = wire /\ parser' = parser /\ ~Alive(World')
         /\ Frame(World, World', TRUE)
BY DestroySocketStep DEF KeepAliveTimeout

\* The invariant is inductive.
LEMMA NextInv == IInv /\ [Next]_vars => IInv'
<1> SUFFICES ASSUME IInv, [Next]_vars
             PROVE  IInv'
  OBVIOUS
<1>1. CASE MessageBegin
  BY <1>1, MessageBeginStep
<1>2. CASE MessageComplete
  BY <1>2, MessageCompleteStep
<1>3. CASE ChunkDone
  BY <1>3, ChunkDoneStep
<1>4. CASE ParseError
  BY <1>4, ParseErrorStep
<1>5. ASSUME NEW k \in Kinds, NEW keep \in BOOLEAN, Incoming(k, keep)
      PROVE  IInv'
  <2>1. k \in AllKinds
    BY ServerAssumption
  <2> QED
    BY <1>5, <2>1, IncomingStep
<1>6. ASSUME NEW l \in BOOLEAN, Upgrade(l)
      PROVE  IInv'
  BY <1>6, UpgradeStep
<1>7. ASSUME NEW r \in Messages, NEW b \in Buffers, Write(r, b)
      PROVE  IInv'
  BY <1>7, WriteStep
<1>8. ASSUME NEW r \in Messages, End(r)
      PROVE  IInv'
  BY <1>8, EndStep
<1>9. ASSUME NEW r \in Messages, Destroy(r)
      PROVE  IInv'
  BY <1>9, DestroyStep
<1>10. ASSUME NEW r \in Messages, ReadRequest(r)
       PROVE  IInv'
  BY <1>10, ReadRequestStep
<1>11. ASSUME NEW r \in Messages, RunEmitClose(r)
       PROVE  IInv'
  BY <1>11, RunEmitCloseStep
<1>12. CASE WriteDone
  BY <1>12, WriteDoneStep
<1>13. CASE WriteFails
  BY <1>13, WriteFailsStep
<1>14. CASE SocketFinish
  BY <1>14, SocketFinishStep
<1>15. CASE PeerEnd
  BY <1>15, PeerEndStep
<1>16. CASE PeerReset
  BY <1>16, PeerResetStep
<1>17. CASE KeepAliveTimeout
  BY <1>17, KeepAliveTimeoutStep
<1>18. CASE RequestTimesOut
  BY <1>18, RequestTimesOutStep
<1>19. CASE Closed
  BY <1>19, ClosedStep
<1>20. CASE UNCHANGED vars
  BY <1>20 DEF vars, IInv, World
<1> QED
  BY <1>1, <1>2, <1>3, <1>4, <1>5, <1>6, <1>7, <1>8, <1>9, <1>10, <1>11, <1>12, <1>13,
     <1>14, <1>15, <1>16, <1>17, <1>18, <1>19, <1>20
     DEF Next, Client, Program, Socket

(* The inductive invariant holds in every state that the server reaches. *)
THEOREM InvHolds == Spec => []IInv
<1>1. Init => IInv
  BY InitInv
<1>2. IInv /\ [Next]_vars => IInv'
  BY NextInv
<1> QED
  BY <1>1, <1>2, PTL DEF Spec

-----------------------------------------------------------------------------
(* What it implies. *)

\* The invariant holds the type invariant.
LEMMA InvType == IInv => TypeOK
BY WorldIs DEF IInv, WorldOK, WorldType, TypeOK

(* The variables of the connection keep their types, whatever the number of
   requests and of writes, and the high-water mark. *)
THEOREM TypeCorrect == Spec => []TypeOK
BY InvHolds, InvType, PTL

\* A sequence from its first element and the rest.
LEMMA OneAndRest ==
  ASSUME NEW S, NEW m \in S, NEW q \in Seq(S), NEW p \in Seq(S),
         Len(p) = Len(q) + 1, p[1] = m, \A i \in 1..Len(q) : p[i + 1] = q[i]
  PROVE  p = <<m>> \o q
<1>1. <<m>> \o q \in Seq(S) /\ Len(<<m>> \o q) = Len(q) + 1
  OBVIOUS
<1>2. Len(q) \in Nat /\ Len(p) \in Nat
  OBVIOUS
<1>3. ASSUME NEW i \in 1..Len(p)
      PROVE  p[i] = (<<m>> \o q)[i]
  <2>1. CASE i = 1
    BY <1>2, <2>1
  <2>2. CASE i # 1
    <3>1. i - 1 \in 1..Len(q) /\ (i - 1) + 1 = i
      BY <1>2, <2>2
    <3>2. p[i] = q[i - 1]
      BY <3>1
    <3>3. (<<m>> \o q)[i] = q[i - 1]
      BY <2>2, <3>1
    <3> QED
      BY <3>2, <3>3
  <2> QED
    BY <2>1, <2>2
<1> QED
  BY <1>1, <1>2, <1>3

\* The lists are the requests due, in their order.
LEMMA InvAligned == IInv => PipelineAligned
<1> SUFFICES ASSUME IInv
             PROVE  PipelineAligned
  OBVIOUS
<1>1. ~failed
  BY WorldIs DEF IInv, WorldOK, BufOK
<1>2. ASSUME sock.state = "open"
      PROVE  srv.incoming = (IF sock.message = NoMessage THEN <<>> ELSE <<sock.message>>)
                            \o srv.outgoing
  <2>1. PICK n \in Nat : n = P!Sent(wire)
    BY ArrivedType
  <2>2. PICK a \in 0..N : a = parser.arrived
    BY ArrivedType
  <2>3. Numbered(World, a, n)
    BY <1>2, <2>1, <2>2, WorldIs DEF IInv, WorldOK, NumbersOK, InOrder
  <2>4. srv.incoming \in Seq(Messages) /\ srv.outgoing \in Seq(Messages)
        /\ sock.message \in 0..N
    BY ArrivedType, WorldFields, WorldIs
  <2>5. a \in Int /\ n \in Int
    BY ServerAssumption
  <2>6. CASE sock.message = NoMessage
    <3>1. Len(srv.outgoing) = 0 /\ Len(srv.incoming) = 0
      BY <2>3, <2>6, WorldIs DEF Numbered
    <3>2. srv.outgoing = <<>> /\ srv.incoming = <<>>
      BY <2>4, <3>1
    <3> QED
      BY <2>6, <3>2
  <2>7. CASE sock.message # NoMessage
    <3>1. PICK k \in Nat : k = Len(srv.outgoing)
      BY <2>4
    <3>2. PICK l \in Nat : l = Len(srv.incoming)
      BY <2>4
    <3>3. /\ sock.message = n + 1
          /\ Len(srv.outgoing) = a - n - 1 /\ Len(srv.incoming) = a - n
          /\ \A i \in 1..Len(srv.outgoing) : srv.outgoing[i] = n + 1 + i
          /\ \A i \in 1..Len(srv.incoming) : srv.incoming[i] = n + i
      BY <2>3, <2>7, WorldIs DEF Numbered
    <3>4. sock.message \in Messages
      BY <2>4, <2>7 DEF Messages, NoMessage
    <3>5. l = a - n /\ k = a - n - 1
      BY <3>1, <3>2, <3>3
    <3>6. l = k + 1
      BY <2>5, <3>5
    <3>7. 1 \in 1..l /\ \A i \in 1..k : i + 1 \in 1..l
      BY <3>6
    <3>8. srv.incoming[1] = sock.message
      BY <3>2, <3>3, <3>7
    <3>9. ASSUME NEW i \in 1..k
          PROVE  srv.incoming[i + 1] = srv.outgoing[i]
      <4>1. srv.outgoing[i] = n + 1 + i /\ srv.incoming[i + 1] = n + (i + 1)
        BY <3>1, <3>2, <3>3, <3>7
      <4> QED
        BY <2>1, <3>1, <4>1
    <3>10. Len(srv.incoming) = Len(srv.outgoing) + 1
          /\ \A i \in 1..Len(srv.outgoing) : srv.incoming[i + 1] = srv.outgoing[i]
      BY <3>1, <3>2, <3>6, <3>9
    <3>11. srv.incoming = <<sock.message>> \o srv.outgoing
      BY <2>4, <3>4, <3>8, <3>10, OneAndRest
    <3> QED
      BY <2>7, <3>11
  <2> QED
    BY <2>6, <2>7
<1> QED
  BY <1>1, <1>2 DEF PipelineAligned

(* Until the server ends its side of the connection, the requests that are
   due are the one whose response has the socket and then those whose responses
   wait for it, in the same order, and no assert of the code fails: what
   parserOnIncoming pushes, resOnFinish takes off in step. *)
THEOREM Aligned == Spec => []PipelineAligned
BY InvHolds, InvAligned, PTL

\* The counter is the number of pieces queued.
LEMMA InvExact == IInv => OutgoingDataExact
BY WorldIs DEF IInv, WorldOK, CountOK, OutgoingDataExact

(* state.outgoingData, which updateOutgoingData adds to at each write and takes
   from at each flush, is at all times the number of pieces that the
   responses of the connection have queued. *)
THEOREM Exact == Spec => []OutgoingDataExact
BY InvHolds, InvExact, PTL

\* A sequence is empty when its length is zero.
LEMMA LenNotEmpty ==
  ASSUME NEW S, NEW q \in Seq(S)
  PROVE  Len(q) > 0 <=> q # <<>>
OBVIOUS

\* What pauses the socket is still there.
LEMMA InvPaused == IInv => PausedHasReason
<1> SUFFICES ASSUME IInv, Serving, sock.state = "open", sock.paused
             PROVE  \/ sock.needDrain /\ sock.buf # <<>>
                    \/ \E i \in 1..Len(srv.outgoing) : res[srv.outgoing[i]].output # <<>>
  BY DEF PausedHasReason
<1>1. \/ Draining(World)
      \/ \E i \in 1..Len(srv.outgoing) : Len(res[srv.outgoing[i]].output) > 0
  BY WorldIs DEF IInv, WorldOK, PausedOK, Serving
<1>2. World \in WorldType
  BY ArrivedType
<1>3. CASE Draining(World)
  BY <1>2, <1>3, WorldIs, WorldFields, LenNotEmpty DEF Draining
<1>4. ASSUME NEW i \in 1..Len(srv.outgoing), Len(res[srv.outgoing[i]].output) > 0
      PROVE  res[srv.outgoing[i]].output # <<>>
  BY <1>4
<1> QED
  BY <1>1, <1>3, <1>4

(* A socket that parserOnIncoming paused, for the client wrote faster than the
   program reads, has still something whose sending will resume it. *)
THEOREM PauseReason == Spec => []PausedHasReason
BY InvHolds, InvPaused, PTL

\* What will tell the program 'drain' is still there.
LEMMA InvWriter == IInv => WaitingWriterWakes
<1> SUFFICES ASSUME IInv, NEW r \in Arrived, Serving, sock.state = "open",
                    res[r].needDrain, ~res[r].finished, ~res[r].destroyed
             PROVE  IF sock.message = r THEN sock.needDrain /\ sock.buf # <<>>
                    ELSE res[r].output # <<>>
  BY DEF WaitingWriterWakes
<1>1. r \in Messages /\ r <= parser.arrived /\ World \in WorldType
  BY ArrivedType
<1>2. IF sock.message = r THEN Draining(World) ELSE Len(res[r].output) > 0
  BY <1>1, WorldIs DEF IInv, WorldOK, WaitingOK, Serving
<1>3. CASE sock.message = r
  BY <1>1, <1>2, <1>3, WorldIs, WorldFields, LenNotEmpty DEF Draining
<1>4. CASE sock.message # r
  BY <1>1, <1>2, <1>4, WorldIs, ResFields, LenNotEmpty
<1> QED
  BY <1>3, <1>4

(* A program that write() told to wait for 'drain' waits for pieces that are
   still to be sent: its wake-up cannot have been lost. *)
THEOREM WriterWakes == Spec => []WaitingWriterWakes
BY InvHolds, InvWriter, PTL

\* The timer is set only between requests.
LEMMA InvTimer == IInv => KeepAliveTimerOnlyWhenIdle
<1> SUFFICES ASSUME IInv, Serving, srv.keepAliveTimeoutSet
             PROVE  sock.message = NoMessage /\ srv.incoming = <<>>
  BY DEF KeepAliveTimerOnlyWhenIdle
<1>1. sock.message = NoMessage /\ Len(srv.incoming) = 0
  BY WorldIs DEF IInv, WorldOK, TimerOK, Serving
<1>2. srv.incoming \in Seq(Messages)
  BY ArrivedType, WorldFields, WorldIs
<1> QED
  BY <1>1, <1>2

(* The keep-alive timer, which resOnFinish sets and resetSocketTimeout clears,
   is never set while a request is due or a response has the socket. *)
THEOREM TimerOnlyWhenIdle == Spec => []KeepAliveTimerOnlyWhenIdle
BY InvHolds, InvTimer, PTL

-----------------------------------------------------------------------------
(* The refinement. *)

\* A step that neither receives nor sends.
Quiet == wire' = wire /\ parser'.arrived = parser.arrived /\ (Alive(World') => Alive(World))

\* It is a stutter, or the end of the connection.
LEMMA QuietMaps == Quiet => [P!Next]_P!pipelineVars
<1> SUFFICES ASSUME Quiet
             PROVE  [P!Next]_P!pipelineVars
  OBVIOUS
<1>1. /\ Alive(World) <=> sock.state \in {"open", "ended"}
      /\ Alive(World') <=> sock'.state \in {"open", "ended"}
  BY WorldIs, WorldPrime DEF Alive
<1>2. CASE Alive(World) <=> Alive(World')
  BY <1>1, <1>2 DEF Quiet, P!pipelineVars
<1>3. CASE Alive(World) /\ ~Alive(World')
  BY <1>1, <1>3 DEF Quiet, P!Next, P!Close
<1> QED
  BY <1>2, <1>3 DEF Quiet

\* The socket is as alive as it was.
LEMMA SameState ==
  ASSUME sock'.state = sock.state
  PROVE  Alive(World') <=> Alive(World)
BY WorldIs, WorldPrime DEF Alive

\* A request that arrives.
LEMMA ReceiveMaps ==
  ASSUME parser.arrived < N, parser'.arrived = parser.arrived + 1, wire' = wire,
         sock'.state = sock.state
  PROVE  P!Receive
BY DEF P!Receive

\* A piece sent, in the turn of its response.
LEMMA SendMaps ==
  ASSUME Alive(World), P!Sent(wire) + 1 <= parser.arrived, parser'.arrived = parser.arrived,
         NEW piece \in Pieces, wire' = Append(wire, piece),
         piece.of = P!Sent(wire) + 1, piece.part # "error"
  PROVE  P!Send
<1>1. sock.state \in {"open", "ended"}
  BY WorldIs DEF Alive
<1>2. piece.part \in P!Parts \ {"error"} /\ piece = P!Piece(P!Turn, piece.part)
  BY DEF Pieces, P!Piece, P!Turn
<1> QED
  BY <1>1, <1>2 DEF P!Send, P!Turn

\* An error response, with which the connection closes.
LEMMA RefusesMaps ==
  ASSUME Refuses, parser'.arrived = parser.arrived
  PROVE  P!Reject
BY DEF Refuses, P!Reject

\* A step that may send the error response, and kills the socket.
LEMMA DeadMaps ==
  ASSUME wire' = wire \/ Refuses, parser'.arrived = parser.arrived, ~Alive(World')
  PROVE  [P!Next]_P!pipelineVars
<1>1. CASE wire' = wire
  BY <1>1, QuietMaps DEF Quiet
<1>2. CASE Refuses
  BY <1>2, RefusesMaps DEF P!Next
<1> QED
  BY <1>1, <1>2

\* The client's steps.
LEMMA ClientMaps ==
  ASSUME IInv, Client
  PROVE  [P!Next]_P!pipelineVars
<1>1. parser \in ParserType
  BY DEF IInv
<1>2. CASE MessageBegin \/ MessageComplete
  <2>1. /\ wire' = wire /\ parser'.arrived = parser.arrived
    BY <1>1, <1>2 DEF MessageBegin, MessageComplete, ParserType
  <2>2. sock'.state = sock.state
    <3>1. sock \in SockType
      BY ArrivedType, WorldIs, WorldFields
    <3> QED
      BY <1>2, <3>1 DEF MessageBegin, MessageComplete, SockType
  <2> QED
    BY <2>1, <2>2, SameState, QuietMaps DEF Quiet
<1>3. CASE ChunkDone
  <2>1. wire' = wire /\ parser'.arrived = parser.arrived
    BY <1>1, <1>3 DEF ChunkDone, ParserType
  <2>2. sock' = sock
    BY <1>3 DEF ChunkDone, Become, ResetSocketTimeout, World
  <2> QED
    BY <2>1, <2>2, SameState, QuietMaps DEF Quiet
<1>4. CASE ParseError
  <2>1. parser'.arrived = parser.arrived
    BY <1>1, <1>4 DEF ParseError, ParserType
  <2> QED
    BY <1>4, <2>1, ParseErrorStep, DeadMaps
<1>5. ASSUME NEW k \in Kinds, NEW keep \in BOOLEAN, Incoming(k, keep)
      PROVE  P!Next
  <2>1. k \in AllKinds
    BY ServerAssumption
  <2> QED
    BY <1>5, <2>1, IncomingStep, ReceiveMaps DEF P!Next
<1>6. ASSUME NEW l \in BOOLEAN, Upgrade(l)
      PROVE  [P!Next]_P!pipelineVars
  <2>1. wire' = wire /\ parser'.arrived = parser.arrived
    BY <1>1, <1>6 DEF Upgrade, ParserType
  <2> QED
    BY <1>6, <2>1, UpgradeStep, SameState, QuietMaps DEF Quiet
<1> QED
  BY <1>2, <1>3, <1>4, <1>5, <1>6 DEF Client

\* The program's steps.
LEMMA ProgramMaps ==
  ASSUME IInv, Program
  PROVE  [P!Next]_P!pipelineVars
<1>1. PICK r \in Messages : \/ \E b \in Buffers : Write(r, b)
                            \/ End(r) \/ Destroy(r) \/ ReadRequest(r) \/ RunEmitClose(r)
  BY DEF Program
<1>2. /\ wire' = wire /\ parser' = parser
      /\ sock'.state = sock.state \/ ~Alive(World')
  BY <1>1, WriteStep, EndStep, DestroyStep, ReadRequestStep, RunEmitCloseStep
<1> QED
  BY <1>2, SameState, QuietMaps DEF Quiet

\* The socket's steps.
LEMMA SocketMaps ==
  ASSUME IInv, Socket
  PROVE  [P!Next]_P!pipelineVars
<1>1. CASE WriteDone
  BY <1>1, WriteDoneStep, SendMaps DEF P!Next
<1>2. CASE PeerEnd
  <2>1. /\ wire' = wire \/ Refuses
        /\ parser' = parser
        /\ Alive(World') => sock'.state = sock.state
                            \/ (sock.state = "open" /\ sock'.state = "ended")
    BY <1>2, PeerEndStep
  <2>2. CASE Refuses
    BY <2>1, <2>2, RefusesMaps DEF P!Next
  <2>3. CASE wire' = wire
    BY <1>2, <2>1, <2>3, QuietMaps DEF Quiet, PeerEnd
  <2> QED
    BY <2>1, <2>2, <2>3
<1>3. CASE ~WriteDone /\ ~PeerEnd
  <2>1. /\ wire' = wire \/ Refuses
        /\ parser'.arrived = parser.arrived /\ ~Alive(World')
    BY <1>3, WriteFailsStep, SocketFinishStep, PeerResetStep, KeepAliveTimeoutStep,
       RequestTimesOutStep, ClosedStep DEF Socket
  <2> QED
    BY <2>1, DeadMaps
<1> QED
  BY <1>1, <1>2, <1>3

(* Each step of the server is, for a client that sees only what it sent and what
   it got, a step of the abstract pipeline or none: responses come whole, in
   the order of their requests, and only to requests that were made; or the
   connection is refused with an error response, before any response and as
   the last thing sent. *)
THEOREM ServerRefinesPipeline == Spec => RefinesPipeline
<1>1. Init => P!Init
  BY DEF Init, P!Init
<1>2. IInv /\ [Next]_vars => [P!Next]_P!pipelineVars
  <2>1. ASSUME IInv, Next
        PROVE  [P!Next]_P!pipelineVars
    BY <2>1, ClientMaps, ProgramMaps, SocketMaps DEF Next
  <2>2. CASE UNCHANGED vars
    BY <2>2 DEF vars, P!pipelineVars
  <2> QED
    BY <2>1, <2>2
<1> QED
  BY <1>1, <1>2, InvHolds, PTL DEF Spec, P!Spec, RefinesPipeline

-----------------------------------------------------------------------------
(* Why the server ends its side. *)

\* The responses counted as sent are those of the first requests.
SentAnswered == \A x \in Messages : x <= P!Sent(wire) => Answered(x)

\* What is answered stays answered, and a last piece answers its request.
LEMMA AnsweredAppend ==
  ASSUME wire \in Seq(Pieces), NEW piece \in Pieces, wire' = Append(wire, piece)
  PROVE  /\ \A x : Answered(x) => Answered(x)'
         /\ P!EndsResponse(piece) => Answered(piece.of)'
         /\ wire'[Len(wire')] = piece /\ wire' # wire
<1>1. PICK w : w = wire'
  OBVIOUS
<1>2. /\ Len(w) = Len(wire) + 1 /\ w[Len(w)] = piece /\ Len(w) \in 1..Len(w)
      /\ \A i \in 1..Len(wire) : i \in 1..Len(w) /\ w[i] = wire[i]
      /\ w # wire
  BY <1>1
<1>3. ASSUME NEW x, Answered(x)
      PROVE  Answered(x)'
  BY <1>1, <1>2, <1>3 DEF Answered
<1>4. P!EndsResponse(piece) => Answered(piece.of)'
  BY <1>1, <1>2 DEF Answered, P!EndsResponse
<1> QED
  BY <1>1, <1>2, <1>3, <1>4

\* Nothing is sent at first.
LEMMA InitSent == Init => SentAnswered
<1> SUFFICES ASSUME Init
             PROVE  SentAnswered
  OBVIOUS
<1>1. {i \in DOMAIN wire : P!EndsResponse(wire[i])} = {}
  BY DEF Init
<1>2. P!Sent(wire) = 0
  BY <1>1, SameCardinality, FS_EmptySet DEF P!Sent
<1> QED
  BY <1>2 DEF SentAnswered, Messages

\* A last piece sent answers the first request due.
LEMMA WriteDoneSent ==
  ASSUME IInv, SentAnswered, WriteDone
  PROVE  SentAnswered'
<1>1. PICK piece \in Pieces : wire' = Append(wire, piece) /\ piece.of = P!Sent(wire) + 1
  BY WriteDoneStep
<1>2. wire \in Seq(Pieces) /\ P!Sent(wire) \in Nat
  BY ArrivedType DEF IInv
<1>3. PICK n \in Nat : n = P!Sent(wire)
  BY <1>2
<1>4. PICK k : k = P!Sent(wire')
  OBVIOUS
<1>5. k = n + IF P!EndsResponse(piece) THEN 1 ELSE 0
  BY <1>1, <1>2, <1>3, <1>4, SentAppend
<1>6. /\ \A x : Answered(x) => Answered(x)'
      /\ P!EndsResponse(piece) => Answered(n + 1)'
  BY <1>1, <1>2, <1>3, AnsweredAppend
<1>7. ASSUME NEW x \in Messages, x <= k
      PROVE  Answered(x)'
  <2>1. x <= n \/ (P!EndsResponse(piece) /\ x = n + 1)
    BY <1>3, <1>5, <1>7 DEF Messages
  <2> QED
    BY <1>3, <1>6, <2>1 DEF SentAnswered
<1> QED
  BY <1>4, <1>7 DEF SentAnswered

\* Only WriteDone sends, but for the error response.
LEMMA OthersSendNothing ==
  ASSUME IInv, [Next]_vars, ~WriteDone
  PROVE  wire' = wire \/ Refuses
<1>1. CASE ParseError \/ PeerEnd \/ RequestTimesOut
  BY <1>1, ParseErrorStep, PeerEndStep, RequestTimesOutStep
<1>2. CASE ~ParseError /\ ~PeerEnd /\ ~RequestTimesOut
  BY <1>2 DEF Next, Client, Program, Socket, MessageBegin, MessageComplete, ChunkDone,
     Incoming, Upgrade, Write, End, Destroy, ReadRequest, RunEmitClose, WriteFails,
     SocketFinish, PeerReset, KeepAliveTimeout, Closed, vars
<1> QED
  BY <1>1, <1>2

\* It answers no request.
LEMMA RefusesAnswers ==
  ASSUME IInv, SentAnswered, Refuses
  PROVE  SentAnswered'
<1>1. wire \in Seq(Pieces)
  BY DEF IInv
<1>2. PICK e \in Pieces : e = P!Piece(0, "error")
  BY ErrorPiece
<1>3. wire' = Append(wire, e)
  BY <1>2 DEF Refuses
<1>4. \A x : Answered(x) => Answered(x)'
  BY <1>1, <1>3, AnsweredAppend
<1>5. P!Sent(wire') = P!Sent(wire)
  BY <1>1, RefusesSent
<1> QED
  BY <1>4, <1>5 DEF SentAnswered

\* No step undoes it.
LEMMA NextSent == IInv /\ SentAnswered /\ [Next]_vars => SentAnswered'
<1> SUFFICES ASSUME IInv, SentAnswered, [Next]_vars
             PROVE  SentAnswered'
  OBVIOUS
<1>1. CASE WriteDone
  BY <1>1, WriteDoneSent
<1>2. CASE ~WriteDone
  <2>1. wire' = wire \/ Refuses
    BY <1>2, OthersSendNothing
  <2>2. CASE wire' = wire
    BY <2>2 DEF SentAnswered, Answered
  <2>3. CASE Refuses
    BY <2>3, RefusesAnswers
  <2> QED
    BY <2>1, <2>2, <2>3
<1> QED
  BY <1>1, <1>2

(* When n responses have been sent whole, they answer the first n requests: none
   is left out or overtaken. *)
THEOREM SentIsAnswered == Spec => []SentAnswered
<1>1. Init => SentAnswered
  BY InitSent
<1>2. IInv /\ SentAnswered /\ [Next]_vars => SentAnswered'
  BY NextSent
<1> QED
  BY <1>1, <1>2, InvHolds, PTL DEF Spec

\* Only two steps end the server's side.
LEMMA OthersEndNothing ==
  ASSUME IInv, [Next]_vars, sock.state = "open", sock'.state = "ended"
  PROVE  WriteDone \/ PeerEnd
<1>1. Alive(World') /\ sock'.state # sock.state
  BY WorldPrime DEF Alive
<1>2. sock \in SockType
  BY ArrivedType, WorldIs, WorldFields
<1>3. CASE Client
  <2>1. ~MessageBegin /\ ~MessageComplete
    BY <1>1, <1>2 DEF MessageBegin, MessageComplete, SockType
  <2>2. ~ChunkDone
    BY <1>1 DEF ChunkDone, Become, ResetSocketTimeout, World
  <2>3. ~ParseError /\ \A l \in BOOLEAN : ~Upgrade(l)
    BY <1>1, ParseErrorStep, UpgradeStep
  <2>4. \A k \in Kinds, keep \in BOOLEAN : ~Incoming(k, keep)
    <3>1. \A k \in Kinds : k \in AllKinds
      BY ServerAssumption
    <3> QED
      BY <1>1, <3>1, IncomingStep
  <2> QED
    BY <1>3, <2>1, <2>2, <2>3, <2>4 DEF Client
<1>4. CASE Program
  BY <1>1, <1>4, WriteStep, EndStep, DestroyStep, ReadRequestStep, RunEmitCloseStep DEF Program
<1>5. CASE Socket
  BY <1>1, <1>5, WriteFailsStep, SocketFinishStep, PeerResetStep, KeepAliveTimeoutStep,
     RequestTimesOutStep, ClosedStep DEF Socket
<1>6. CASE UNCHANGED vars
  BY <1>1, <1>6 DEF vars
<1> QED
  BY <1>3, <1>4, <1>5, <1>6 DEF Next

EndsStep == sock.state = "open" /\ sock'.state = "ended" =>
                \/ \A r \in Arrived : Answered(r)'
                \/ wire' # wire /\ ~res[wire'[Len(wire')].of].keep
                \/ ~HttpAllowHalfOpen /\ sock'.peerEnded /\ ~sock.peerEnded

\* Those two steps, and why they do.
LEMMA NextEnds == IInv /\ SentAnswered /\ SentAnswered' /\ [Next]_vars => EndsStep
<1> SUFFICES ASSUME IInv, SentAnswered, SentAnswered', [Next]_vars,
                    sock.state = "open", sock'.state = "ended"
             PROVE  \/ \A r \in Arrived : Answered(r)'
                    \/ wire' # wire /\ ~res[wire'[Len(wire')].of].keep
                    \/ ~HttpAllowHalfOpen /\ sock'.peerEnded /\ ~sock.peerEnded
  BY DEF EndsStep
<1>1. WriteDone \/ PeerEnd
  BY OthersEndNothing
<1>2. PICK a \in 0..N : a = parser.arrived
  BY ArrivedType
<1>3. PICK n \in Nat : n = P!Sent(wire)
  BY ArrivedType
<1>4. \A r \in Arrived : r \in Messages /\ r <= a
  BY <1>2, ArrivedType
<1>5. CASE WriteDone
  <2>1. PICK piece \in Pieces :
               /\ wire' = Append(wire, piece) /\ piece.of = n + 1
               /\ P!EndsResponse(piece) /\ (res[piece.of].last \/ ~res[piece.of].keep)
               /\ n + 1 <= a
    BY <1>2, <1>3, <1>5, WriteDoneStep
  <2>2. wire \in Seq(Pieces)
    BY DEF IInv
  <2>3. wire'[Len(wire')] = piece /\ wire' # wire
    BY <2>1, <2>2, AnsweredAppend
  <2>4. CASE ~res[piece.of].keep
    BY <2>3, <2>4
  <2>5. CASE res[piece.of].keep
    <3>1. piece.of \in Messages
      BY <1>2, <1>3, <2>1, ServerAssumption DEF Messages
    <3>2. piece.of = a
      BY <1>2, <2>1, <2>5, <3>1, WorldIs DEF IInv, WorldOK, LastOK
    <3>3. P!Sent(wire') = a
      BY <1>3, <2>1, <2>2, <3>2, SentAppend
    <3> QED
      BY <1>4, <3>3 DEF SentAnswered
  <2> QED
    BY <2>4, <2>5
<1>6. CASE PeerEnd
  <2>1. wire' = wire /\ ~sock.peerEnded
    BY <1>6, PeerEndStep DEF PeerEnd, Refuses
  <2>2. \/ ~HttpAllowHalfOpen /\ sock'.peerEnded
        \/ a = n
    BY <1>2, <1>3, <1>6, PeerEndStep
  <2>3. CASE a = n
    BY <1>3, <1>4, <2>1, <2>3 DEF SentAnswered
  <2> QED
    BY <2>1, <2>2, <2>3
<1> QED
  BY <1>1, <1>5, <1>6

(* The server ends its side only when each request it read is answered, after
   the response that closes the connection, or as the client ends its own
   side and half-open connections are not allowed. *)
THEOREM ServerEndsWhenAnswered == Spec => EndsWhenAnswered
<1>1. IInv /\ SentAnswered /\ SentAnswered' /\ [Next]_vars => [EndsStep]_vars
  BY NextEnds
<1> QED
  BY <1>1, InvHolds, SentIsAnswered, PTL DEF Spec, EndsWhenAnswered, EndsStep

-----------------------------------------------------------------------------
(* The keep-alive timer. *)

AnsweredInFull == ~Early /\ "expectation" \notin Kinds

\* Where responses end after their requests: the connection is idle, with its
\* timer, only between requests.
TimerInv ==
    AnsweredInFull =>
        /\ \A x \in Messages : req[x].complete => x <= parser.arrived
        /\ parser.phase = "body" =>
              parser.arrived > 0 /\ ~req[parser.arrived].complete
        /\ sock.state = "open" =>
              /\ \A x \in Messages : res[x].finished => req[x].complete
              /\ parser.executing /\ parser.phase = "idle" => sock.message # NoMessage
              /\ /\ ~parser.executing /\ parser.phase = "idle"
                 /\ sock.message = NoMessage /\ parser.arrived > 0
                 => srv.keepAliveTimeoutSet

\* A step of the program may be taken between chunks too.
LEMMA FrameWeaker ==
  ASSUME NEW w, NEW v, NEW e, Frame(w, v, TRUE)
  PROVE  Frame(w, v, e)
BY DEF Frame

\* A step that leaves the parser alone, or closes the connection.
LEMMA FrameTimer ==
  ASSUME IInv, TimerInv, Frame(World, World', parser.executing),
         \/ parser' = parser
         \/ /\ parser'.arrived = parser.arrived /\ parser'.phase # "body"
            /\ sock'.state # "open"
  PROVE  TimerInv'
<1>1. parser.arrived \in 0..N /\ ServerAssumption
  BY ArrivedType, ServerAssumption
<1>2. SUFFICES ASSUME AnsweredInFull
               PROVE  TimerInv'
  BY DEF TimerInv, AnsweredInFull
<1>3. \A x \in Messages : req'[x].complete = req[x].complete
  BY WorldIs, WorldPrime DEF Frame, SameComplete
<1>4. parser'.arrived = parser.arrived
  OBVIOUS
<1>5. parser'.phase = "body" => parser'.arrived > 0 /\ ~req'[parser'.arrived].complete
  <2>1. SUFFICES ASSUME parser'.phase = "body"
                 PROVE  parser'.arrived > 0 /\ ~req'[parser'.arrived].complete
    OBVIOUS
  <2>2. parser.arrived > 0 /\ ~req[parser.arrived].complete
    BY <1>2, <2>1 DEF TimerInv
  <2>3. parser.arrived \in Messages
    BY <1>1, <2>2 DEF Messages
  <2> QED
    BY <1>3, <1>4, <2>2, <2>3
<1>6. ASSUME sock'.state = "open"
      PROVE  /\ parser' = parser
             /\ \A x \in Messages : res'[x].finished => req'[x].complete
             /\ parser'.executing /\ parser'.phase = "idle" => sock'.message # NoMessage
             /\ /\ ~parser'.executing /\ parser'.phase = "idle"
                /\ sock'.message = NoMessage /\ parser'.arrived > 0
                => srv'.keepAliveTimeoutSet
  <2>1. parser' = parser
    BY <1>6
  <2>2. /\ sock.state = "open"
        /\ \A x \in Messages : res'[x].finished => res[x].finished \/ req[x].complete
        /\ sock'.message = NoMessage =>
               \/ srv'.keepAliveTimeoutSet /\ ~parser.executing
               \/ sock.message = NoMessage
                  /\ (srv.keepAliveTimeoutSet => srv'.keepAliveTimeoutSet)
    BY <1>6, WorldIs, WorldPrime DEF Frame
  <2>3. /\ \A x \in Messages : res[x].finished => req[x].complete
        /\ parser.executing /\ parser.phase = "idle" => sock.message # NoMessage
        /\ /\ ~parser.executing /\ parser.phase = "idle"
           /\ sock.message = NoMessage /\ parser.arrived > 0
           => srv.keepAliveTimeoutSet
    BY <1>2, <2>2 DEF TimerInv
  <2>4. \A x \in Messages : res'[x].finished => req'[x].complete
    BY <1>3, <2>2, <2>3
  <2> QED
    BY <2>1, <2>2, <2>3, <2>4
<1>7. \A x \in Messages : req'[x].complete => x <= parser'.arrived
  BY <1>2, <1>3, <1>4 DEF TimerInv
<1> QED
  BY <1>5, <1>6, <1>7 DEF TimerInv

\* No request has come.
LEMMA InitTimer == Init => TimerInv
BY DEF Init, TimerInv, Messages, NoMessage

\* The parser starts on a request.
LEMMA MessageBeginTimer ==
  ASSUME IInv, TimerInv, MessageBegin
  PROVE  TimerInv'
<1>1. /\ sock' = [sock EXCEPT !.timer = @ \/ RequestTimeout]
      /\ srv' = srv /\ req' = req /\ res' = res
      /\ parser' = [parser EXCEPT !.executing = TRUE, !.phase = "head"]
  BY DEF MessageBegin
<1>2. sock'.state = sock.state
  BY <1>1, ArrivedType, WorldIs, WorldFields DEF SockType
<1>3. parser'.phase = "head" /\ parser'.arrived = parser.arrived
  BY <1>1 DEF IInv, ParserType
<1> QED
  BY <1>1, <1>2, <1>3 DEF TimerInv, AnsweredInFull

\* The response to a request that was not complete has the socket.
LEMMA MessageCompleteTimer ==
  ASSUME IInv, TimerInv, MessageComplete
  PROVE  TimerInv'
<1>1. /\ req' = [req EXCEPT ![parser.arrived].complete = TRUE]
      /\ sock' = sock /\ srv' = srv /\ res' = res
      /\ parser' = [parser EXCEPT !.executing = TRUE, !.phase = "idle"]
      /\ parser.phase = "body"
  BY DEF MessageComplete
<1>2. parser'.executing /\ parser'.phase = "idle" /\ parser'.arrived = parser.arrived
  BY <1>1 DEF IInv, ParserType
<1>3. SUFFICES ASSUME AnsweredInFull
               PROVE  TimerInv'
  BY DEF TimerInv, AnsweredInFull
<1>4. PICK a \in 0..N : a = parser.arrived
  BY ArrivedType
<1>5. a > 0 /\ ~req[a].complete
  BY <1>1, <1>3, <1>4 DEF TimerInv
<1>6. a \in Messages /\ a \in Nat
  BY <1>5, ServerAssumption DEF Messages
<1>7. req \in [Messages -> ReqType]
  BY ArrivedType, WorldIs DEF WorldType
<1>8. \A x \in Messages : /\ x # a => req'[x] = req[x]
                          /\ x = a => req'[x].complete
  BY <1>1, <1>4, <1>6, <1>7 DEF ReqType
<1>9. \A x \in Messages : req'[x].complete => x <= a
  <2>1. a <= a
    BY <1>6
  <2> QED
    BY <1>3, <1>4, <1>8, <2>1 DEF TimerInv
<1>10. ASSUME sock.state = "open"
       PROVE  sock.message # NoMessage /\ \A x \in Messages : res[x].finished => req'[x].complete
  <2>1. \A x \in Messages : res[x].finished => req[x].complete
    BY <1>3, <1>10 DEF TimerInv
  <2>2. ~res[a].finished
    BY <1>5, <1>6, <2>1
  <2>3. PICK n \in Nat : n = P!Sent(wire)
    BY ArrivedType
  <2>4. ~(a <= n)
    BY <1>6, <1>10, <2>2, <2>3, WorldIs DEF IInv, WorldOK, TurnsOK
  <2>5. Numbered(World, a, n)
    BY <1>4, <1>10, <2>3, WorldIs DEF IInv, WorldOK, NumbersOK, InOrder
  <2>6. a # n
    BY <1>6, <2>3, <2>4
  <2>7. sock.message # NoMessage
    BY <2>5, <2>6, WorldIs DEF Numbered
  <2> QED
    BY <1>8, <2>1, <2>7
<1> QED
  BY <1>1, <1>2, <1>4, <1>9, <1>10 DEF TimerInv

\* The parser is done with a chunk: a response has the socket, or the timer is set.
LEMMA ChunkDoneTimer ==
  ASSUME IInv, TimerInv, ChunkDone
  PROVE  TimerInv'
<1>1. /\ parser.executing /\ ~parser'.executing
      /\ parser'.arrived = parser.arrived /\ parser'.phase = parser.phase
  BY DEF ChunkDone, IInv, ParserType
<1>2. sock' = sock /\ req' = req /\ res' = res
  BY DEF ChunkDone, Become, ResetSocketTimeout, World
<1> QED
  BY <1>1, <1>2 DEF TimerInv, AnsweredInFull

\* The socket is dead.
LEMMA ParseErrorTimer ==
  ASSUME IInv, TimerInv, ParseError
  PROVE  TimerInv'
<1>1. /\ parser'.arrived = parser.arrived /\ parser'.phase = "failed"
  BY DEF ParseError, IInv, ParserType
<1>2. sock'.state # "open"
  BY ParseErrorStep, WorldPrime DEF Alive
<1>3. req' = req
  BY ParseErrorStep
<1> QED
  BY <1>1, <1>2, <1>3 DEF TimerInv, AnsweredInFull

\* The parser is gone.
LEMMA UpgradeTimer ==
  ASSUME IInv, TimerInv, NEW listening, Upgrade(listening)
  PROVE  TimerInv'
<1>1. /\ parser'.arrived = parser.arrived /\ parser'.phase = "upgraded"
  BY DEF Upgrade, IInv, ParserType
<1>2. sock'.state = "open" => sock.state = "open"
  BY UpgradeStep, WorldPrime DEF Alive
<1>3. req' = req /\ res' = res
  <2>1. PICK x : x = ResetSocketTimeout(World)
    OBVIOUS
  <2>2. PICK u : u = [x EXCEPT !.sock.timer = FALSE]
    OBVIOUS
  <2>3. x.req = req /\ x.res = res
    BY <2>1 DEF ResetSocketTimeout, World
  <2>4. u.req = req /\ u.res = res
    BY <2>1, <2>2 DEF ResetSocketTimeout, World
  <2>5. DestroySocket(x).req = req /\ DestroySocket(x).res = res
    BY <2>1, <2>3 DEF DestroySocket, ResetSocketTimeout, World
  <2>6. Become(IF listening THEN u ELSE DestroySocket(x))
    BY <2>1, <2>2 DEF Upgrade
  <2> QED
    BY <2>4, <2>5, <2>6 DEF Become
<1> QED
  BY <1>1, <1>2, <1>3 DEF TimerInv, AnsweredInFull

\* A request that has arrived is not complete.
LEMMA IncomingTimer ==
  ASSUME IInv, TimerInv, NEW kind \in Kinds, NEW keep \in BOOLEAN, Incoming(kind, keep)
  PROVE  TimerInv'
<1>1. SUFFICES ASSUME AnsweredInFull
               PROVE  TimerInv'
  BY DEF TimerInv, AnsweredInFull
<1>2. kind \in AllKinds /\ kind # "expectation"
  BY <1>1, ServerAssumption DEF AnsweredInFull
<1>3. PICK a \in 0..N : a = parser.arrived
  BY ArrivedType
<1>4. /\ a < N /\ parser'.arrived = a + 1 /\ sock'.state = sock.state
      /\ SameComplete(World, World') /\ parser'.phase = "body"
      /\ \A x \in Messages : res'[x].finished = res[x].finished
  BY <1>2, <1>3, IncomingStep
<1>5. \A x \in Messages : req'[x].complete = req[x].complete
  BY <1>4, WorldIs, WorldPrime DEF SameComplete
<1>6. a \in Nat /\ N \in Nat /\ a + 1 \in Messages
  BY <1>4, ServerAssumption DEF Messages
<1>7. \A x \in Messages : req'[x].complete => x <= a
  BY <1>1, <1>3, <1>5 DEF TimerInv
<1>8. a + 1 > 0 /\ ~req'[a + 1].complete
  <2>1. ~(a + 1 <= a) /\ a + 1 > 0
    BY <1>6
  <2> QED
    BY <1>6, <1>7, <2>1
<1>9. \A x \in Messages : req'[x].complete => x <= a + 1
  <2>1. \A x \in Messages : x <= a => x <= a + 1
    BY <1>6 DEF Messages
  <2> QED
    BY <1>7, <2>1
<1>10. sock'.state = "open" => \A x \in Messages : res'[x].finished => req'[x].complete
  BY <1>1, <1>4, <1>5 DEF TimerInv
<1> QED
  BY <1>4, <1>8, <1>9, <1>10 DEF TimerInv

\* The program's steps leave the parser alone.
LEMMA ProgramTimer ==
  ASSUME IInv, TimerInv, Program
  PROVE  TimerInv'
<1>1. SUFFICES ASSUME AnsweredInFull
               PROVE  TimerInv'
  BY DEF TimerInv, AnsweredInFull
<1>2. PICK r \in Messages : \/ \E b \in Buffers : Write(r, b)
                            \/ End(r) \/ Destroy(r) \/ ReadRequest(r) \/ RunEmitClose(r)
  BY DEF Program
<1>3. Frame(World, World', TRUE) /\ parser' = parser
  BY <1>1, <1>2, WriteStep, EndStep, DestroyStep, ReadRequestStep, RunEmitCloseStep
     DEF AnsweredInFull
<1> QED
  BY <1>3, FrameWeaker, FrameTimer

\* The socket's steps leave the parser alone, or end the connection.
LEMMA SocketTimer ==
  ASSUME IInv, TimerInv, Socket
  PROVE  TimerInv'
<1>1. CASE WriteDone
  <2>1. parser' = parser /\ Frame(World, World', FALSE) /\ parser.executing = FALSE
    BY <1>1, WriteDoneStep DEF IInv, ParserType
  <2>2. Frame(World, World', parser.executing)
    BY <2>1
  <2> QED
    BY <2>1, <2>2, FrameTimer
<1>2. CASE WriteFails
  <2>1. parser' = parser /\ Frame(World, World', FALSE)
    BY <1>2, WriteFailsStep
  <2>2. parser.executing = FALSE
    BY <1>2 DEF WriteFails, IO, IInv, ParserType
  <2>3. Frame(World, World', parser.executing)
    BY <2>1, <2>2
  <2> QED
    BY <2>1, <2>3, FrameTimer
<1>3. CASE Closed
  <2>1. /\ Frame(World, World', TRUE) /\ parser'.arrived = parser.arrived
        /\ parser'.phase # "body" /\ sock'.state # "open"
    BY <1>3, ClosedStep, WorldPrime DEF Alive
  <2> QED
    BY <2>1, FrameWeaker, FrameTimer
<1>4. CASE SocketFinish \/ PeerEnd \/ PeerReset \/ KeepAliveTimeout \/ RequestTimesOut
  <2>1. Frame(World, World', TRUE) /\ parser' = parser
    BY <1>4, SocketFinishStep, PeerEndStep, PeerResetStep, KeepAliveTimeoutStep,
       RequestTimesOutStep
  <2> QED
    BY <2>1, FrameWeaker, FrameTimer
<1> QED
  BY <1>1, <1>2, <1>3, <1>4 DEF Socket

\* No step undoes it.
LEMMA NextTimer == IInv /\ TimerInv /\ [Next]_vars => TimerInv'
<1> SUFFICES ASSUME IInv, TimerInv, [Next]_vars
             PROVE  TimerInv'
  OBVIOUS
<1>1. CASE Client
  BY <1>1, MessageBeginTimer, MessageCompleteTimer, ChunkDoneTimer, ParseErrorTimer,
     IncomingTimer, UpgradeTimer DEF Client
<1>2. CASE Program
  BY <1>2, ProgramTimer
<1>3. CASE Socket
  BY <1>3, SocketTimer
<1>4. CASE UNCHANGED vars
  BY <1>4 DEF vars, TimerInv, AnsweredInFull
<1> QED
  BY <1>1, <1>2, <1>3, <1>4 DEF Next

\* What it says of an idle connection.
LEMMA TimerIdle == IInv /\ TimerInv => IdleHasTimer
BY DEF TimerInv, AnsweredInFull, IdleHasTimer, Idle

(* A connection on which nothing is due has the keep-alive timer set, where no
   response ends before its request and no 'Expect' is refused: the client that
   left it unused will be timed out. *)
THEOREM ServerIdleHasTimer == Spec => []IdleHasTimer
<1>1. Init => TimerInv
  BY InitTimer
<1>2. IInv /\ TimerInv /\ [Next]_vars => TimerInv'
  BY NextTimer
<1>3. IInv /\ TimerInv => IdleHasTimer
  BY TimerIdle
<1> QED
  BY <1>1, <1>2, <1>3, InvHolds, PTL DEF Spec

=============================================================================
