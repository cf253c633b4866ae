---------------------------- MODULE StackProofs ----------------------------
(***************************************************************************)
(* What holds below HTTP for every number of relays, streams, keys and     *)
(* connections, and every limit.                                           *)
(***************************************************************************)
EXTENDS Stack, FiniteSetTheorems, SequenceTheorems, TLAPS

-----------------------------------------------------------------------------
(* The server *)

ServerTick == ({"connection", "tlsClose"} \X Streams) \cup {<<"close">>, <<"abort">>}

TakenStates == {"announcing", "announced", "gone"}

\* A stream whose 'connection' is to come is counted already.
TicksAreTaken ==
    \A i \in 1..Len(nextTicks), s \in Streams :
        nextTicks[i] = <<"connection", s>> => accepted[s] \in TakenStates

CountInv == /\ server \in ServerType /\ accepted \in AcceptedType /\ nextTicks \in Seq(ServerTick)
            /\ TicksAreTaken
            /\ AcceptedCounted
            /\ ListenCallbackOnce

\* The actions touch the fields of the server in groups: those of listen()
\* and close() leave the count alone.
LEMMA CountKept ==
  ASSUME CountInv, server' \in ServerType, server'.connections = server.connections,
         server'.transport = server.transport, UNCHANGED accepted
  PROVE  AcceptedCounted'
<1>1. Taken' = Taken
  BY DEF Taken
<1> QED
  BY <1>1 DEF CountInv, AcceptedCounted

\* Ticks that are not 'connection' may be added and taken.
LEMMA OtherTicks ==
  ASSUME CountInv, UNCHANGED accepted, NEW u \in Seq(ServerTick),
         nextTicks' = nextTicks \o u,
         \A i \in 1..Len(u), s \in Streams : u[i] # <<"connection", s>>
  PROVE  nextTicks' \in Seq(ServerTick) /\ TicksAreTaken'
<1>1. nextTicks' \in Seq(ServerTick)
  BY DEF CountInv
<1>2. ASSUME NEW i \in 1..Len(nextTicks'), NEW s \in Streams, nextTicks'[i] = <<"connection", s>>
      PROVE  accepted'[s] \in TakenStates
  <2>1. i \in 1..Len(nextTicks)
    <3> SUFFICES ASSUME i \notin 1..Len(nextTicks) PROVE FALSE
      OBVIOUS
    <3>1. i - Len(nextTicks) \in 1..Len(u) /\ nextTicks'[i] = u[i - Len(nextTicks)]
      BY DEF CountInv
    <3> QED
      BY <3>1, <1>2
  <2>2. nextTicks'[i] = nextTicks[i]
    BY <2>1 DEF CountInv
  <2> QED
    BY <2>1, <2>2, <1>2 DEF CountInv, TicksAreTaken
<1> QED
  BY <1>1, <1>2 DEF TicksAreTaken

LEMMA TailTicks ==
  ASSUME CountInv, Len(nextTicks) > 0, nextTicks' = Tail(nextTicks), UNCHANGED accepted
  PROVE  nextTicks' \in Seq(ServerTick) /\ TicksAreTaken'
<1>1. /\ nextTicks' \in Seq(ServerTick) /\ Len(nextTicks') = Len(nextTicks) - 1
      /\ \A i \in 1..Len(nextTicks') : i + 1 \in 1..Len(nextTicks) /\ nextTicks'[i] = nextTicks[i + 1]
  BY DEF CountInv
<1> QED
  BY <1>1 DEF CountInv, TicksAreTaken

LEMMA CountedType ==
  ASSUME NEW v \in ServerType, NEW w, w = [v EXCEPT !.connections = @ + 1]
  PROVE  /\ w \in ServerType /\ w.connections = v.connections + 1
         /\ v.connections \in Nat
         /\ w.transport = v.transport
         /\ w.called = v.called /\ w.waiting = v.waiting /\ w.listens = v.listens
<1>1. v.connections \in Nat /\ v.connections + 1 \in Nat
  BY DEF ServerType
<1> QED
  BY <1>1 DEF ServerType

\* A connection that is counted, and its tick.
LEMMA AddConnectionOK ==
  ASSUME CountInv, NEW s \in Streams, AddConnection(s)
  PROVE  CountInv'
<1> USE NetServerAssumption
<1> DEFINE full == MaxConnections # 0 /\ server.connections >= MaxConnections
<1>1. CASE server' = server /\ nextTicks' = nextTicks /\ \E r \in {"refused", "swallowed"} :
              accepted' = [accepted EXCEPT ![s] = r]
  <2>0. accepted[s] = "unborn"
    BY DEF AddConnection
  <2>1. accepted' \in AcceptedType /\ Taken' = Taken
    BY <1>1, <2>0 DEF CountInv, AcceptedType, Taken
  <2>2. AcceptedCounted'
    BY <1>1, <2>1 DEF CountInv, AcceptedCounted
  <2>3. TicksAreTaken'
    BY <1>1, <2>0 DEF CountInv, AcceptedType, TicksAreTaken, TakenStates
  <2> QED
    BY <1>1, <2>1, <2>2, <2>3 DEF CountInv, ListenCallbackOnce
<1>2. CASE /\ ~full /\ server.transport = "generic"
           /\ accepted' = [accepted EXCEPT ![s] = "announcing"]
           /\ server' = [server EXCEPT !.connections = @ + 1]
           /\ nextTicks' = Append(nextTicks, <<"connection", s>>)
  <2>0. accepted[s] = "unborn"
    BY DEF AddConnection
  <2>1. /\ server' \in ServerType /\ server'.connections = server.connections + 1
        /\ server.connections \in Nat
        /\ server'.transport = server.transport
        /\ server'.called = server.called /\ server'.waiting = server.waiting
        /\ server'.listens = server.listens
    <3>1. server \in ServerType /\ server' = [server EXCEPT !.connections = @ + 1]
      BY <1>2 DEF CountInv
    <3> HIDE DEF full
    <3> QED
      BY ONLY <3>1, CountedType
  <2>2. accepted' \in AcceptedType /\ Taken' = Taken \cup {s} /\ s \notin Taken
    BY <1>2, <2>0 DEF CountInv, AcceptedType, Taken
  <2>3. IsFiniteSet(Taken)
    BY FS_Subset DEF Taken, NetServerAssumption
  <2>4. Cardinality(Taken') = Cardinality(Taken) + 1
    BY <2>2, <2>3, FS_AddElement
  <2>5. MaxConnections # 0 => server.connections + 1 <= MaxConnections
    BY <1>2, <2>1 DEF NetServerAssumption
  <2>6. AcceptedCounted'
    BY <1>2, <2>1, <2>4, <2>5 DEF CountInv, AcceptedCounted
  <2>7. nextTicks' \in Seq(ServerTick)
    BY <1>2 DEF CountInv, ServerTick
  <2>8. TicksAreTaken'
    <3> SUFFICES ASSUME NEW i \in 1..Len(nextTicks'), NEW t \in Streams,
                        nextTicks'[i] = <<"connection", t>>
                 PROVE  accepted'[t] \in TakenStates
      BY DEF TicksAreTaken
    <3>1. CASE i = Len(nextTicks) + 1
      <4>1. <<"connection", t>> = <<"connection", s>>
        BY <3>1, <1>2 DEF CountInv
      <4> QED
        BY <4>1, <1>2 DEF CountInv, AcceptedType, TakenStates
    <3>2. CASE i \in 1..Len(nextTicks)
      <4>1. nextTicks[i] = <<"connection", t>>
        BY <3>2, <1>2 DEF CountInv
      <4>2. accepted[t] \in TakenStates
        BY <3>2, <4>1 DEF CountInv, TicksAreTaken
      <4> QED
        BY <4>2, <2>0, <1>2 DEF CountInv, AcceptedType, TakenStates
    <3> QED
      BY <3>1, <3>2, <1>2 DEF CountInv
  <2> QED
    BY <2>1, <2>2, <2>6, <2>7, <2>8 DEF CountInv, ListenCallbackOnce
<1> QED
  BY <1>1, <1>2 DEF AddConnection

\* A counted stream goes on from one state to the next and stays counted.
LEMMA StreamMoves ==
  ASSUME CountInv, NEW s \in Streams, NEW state \in TakenStates,
         accepted[s] \in TakenStates, accepted' = [accepted EXCEPT ![s] = state],
         UNCHANGED server,
         nextTicks' \in {nextTicks} \cup (IF Len(nextTicks) > 0 THEN {Tail(nextTicks)} ELSE {})
  PROVE  CountInv'
<1>1. accepted' \in AcceptedType /\ Taken' = Taken
  BY DEF CountInv, AcceptedType, Taken, TakenStates
<1>2. AcceptedCounted'
  BY <1>1 DEF CountInv, AcceptedCounted
<1>3. \A t \in Streams : accepted[t] \in TakenStates => accepted'[t] \in TakenStates
  BY DEF CountInv, AcceptedType
<1>4. CASE nextTicks' = nextTicks
  BY <1>1, <1>2, <1>3, <1>4 DEF CountInv, TicksAreTaken, ListenCallbackOnce
<1>5. CASE Len(nextTicks) > 0 /\ nextTicks' = Tail(nextTicks)
  <2>1. /\ nextTicks' \in Seq(ServerTick) /\ Len(nextTicks') = Len(nextTicks) - 1
        /\ \A i \in 1..Len(nextTicks') : i + 1 \in 1..Len(nextTicks)
                                         /\ nextTicks'[i] = nextTicks[i + 1]
    BY <1>5 DEF CountInv
  <2>2. TicksAreTaken'
    BY <1>3, <2>1 DEF CountInv, TicksAreTaken
  <2> QED
    BY <1>1, <1>2, <2>1, <2>2 DEF CountInv, ListenCallbackOnce
<1> QED
  BY <1>4, <1>5

\* What listen() and close() keep of the server.
Keeps(v, w) == /\ w \in ServerType
               /\ w.connections = v.connections /\ w.transport = v.transport
               /\ w.called + w.waiting - w.listens = v.called + v.waiting - v.listens

LEMMA EmitListeningKeeps ==
  ASSUME NEW v \in ServerType PROVE Keeps(v, EmitListening(v))
<1>1. v.called \in Nat /\ v.waiting \in Nat /\ v.called + v.waiting \in Nat /\ 0 \in Nat
      /\ v.listens \in Nat
  BY DEF ServerType
<1>2. EmitListening(v) \in ServerType
  BY <1>1 DEF ServerType, EmitListening
<1>3. /\ EmitListening(v).called = v.called + v.waiting
      /\ EmitListening(v).waiting = 0
      /\ EmitListening(v).listens = v.listens
      /\ EmitListening(v).connections = v.connections
      /\ EmitListening(v).transport = v.transport
  BY DEF ServerType, EmitListening
<1> QED
  BY <1>1, <1>2, <1>3 DEF Keeps

LEMMA WatchedKeeps ==
  ASSUME NEW v \in ServerType, NEW watch \in BOOLEAN PROVE Keeps(v, Watched(v, watch))
<1>1. v.aborts \in Nat /\ v.aborts + 1 \in Nat
  BY DEF ServerType
<1> QED
  BY <1>1 DEF ServerType, Watched, Keeps

Up(v) == [v EXCEPT !.handled = TRUE, !.listening = TRUE]

LEMMA UpKeeps ==
  ASSUME NEW v \in ServerType PROVE Keeps(v, Up(v))
BY DEF ServerType, Up, Keeps

Asked(v) == [v EXCEPT !.listens = @ + 1, !.waiting = @ + 1]

LEMMA AskedKeeps ==
  ASSUME NEW v \in ServerType PROVE Keeps(v, Asked(v))
<1>1. v.listens + 1 \in Nat /\ v.waiting + 1 \in Nat /\ v.listens \in Nat
      /\ v.waiting \in Nat /\ v.called \in Nat
  BY DEF ServerType
<1>2. Asked(v) \in ServerType
  BY <1>1 DEF ServerType, Asked
<1>3. /\ Asked(v).listens = v.listens + 1 /\ Asked(v).waiting = v.waiting + 1
      /\ Asked(v).called = v.called
      /\ Asked(v).connections = v.connections /\ Asked(v).transport = v.transport
  BY DEF ServerType, Asked
<1> QED
  BY <1>1, <1>2, <1>3 DEF Keeps

LEMMA KeepsTransitive ==
  ASSUME NEW v \in ServerType, NEW w, NEW u, Keeps(v, w), Keeps(w, u) PROVE Keeps(v, u)
BY DEF Keeps

\* A step of listen() or close(): the fields, and ticks that are not 'connection'.
LEMMA KeepsStep ==
  ASSUME CountInv, Keeps(server, server'), UNCHANGED accepted,
         nextTicks' \in Seq(ServerTick), TicksAreTaken'
  PROVE  CountInv'
<1>1. AcceptedCounted'
  BY CountKept DEF Keeps
<1>2. ListenCallbackOnce'
  <2>1. /\ server.called \in Nat /\ server.waiting \in Nat /\ server.listens \in Nat
        /\ server'.called \in Nat /\ server'.waiting \in Nat /\ server'.listens \in Nat
    BY DEF CountInv, Keeps, ServerType
  <2> QED
    <3>1. server.called + server.waiting <= server.listens
      BY DEF CountInv, ListenCallbackOnce
    <3>2. server'.called + server'.waiting - server'.listens
          = server.called + server.waiting - server.listens
      BY DEF Keeps
    <3>3. server'.called + server'.waiting <= server'.listens
      BY ONLY <2>1, <3>1, <3>2
    <3> QED
      BY <3>3 DEF ListenCallbackOnce
<1> QED
  BY <1>1, <1>2 DEF CountInv, Keeps

LEMMA ListenOK ==
  ASSUME CountInv, NEW watch \in BOOLEAN, Listen(watch) PROVE CountInv'
<1> DEFINE v == Watched(Asked(server), watch)
<1>0. server \in ServerType
  BY DEF CountInv
<1>1. Keeps(server, v) /\ v \in ServerType
  BY <1>0, AskedKeeps, WatchedKeeps, KeepsTransitive DEF Keeps
<1>2. Keeps(server, EmitListening(Up(v)))
  BY <1>0, <1>1, UpKeeps, EmitListeningKeeps, KeepsTransitive DEF Keeps
<1>3. Keeps(server, EmitListening(EmitListening(Up(v))))
  BY <1>0, <1>2, EmitListeningKeeps, KeepsTransitive DEF Keeps
<1>4. Keeps(server, server')
  BY <1>1, <1>2, <1>3 DEF Listen, InternalListen, Up, Asked
<1>5. WatchTick(watch) \in Seq(ServerTick)
  BY DEF WatchTick, ServerTick
<1>6. \A i \in 1..Len(WatchTick(watch)), s \in Streams :
          WatchTick(watch)[i] # <<"connection", s>>
  BY DEF WatchTick
<1>7. nextTicks' = nextTicks \o WatchTick(watch) /\ UNCHANGED accepted
  BY DEF Listen
<1> QED
  BY <1>4, <1>5, <1>6, <1>7, OtherTicks, KeepsStep

\* The ticks of close() are 'close' ticks.
LEMMA CloseTicks ==
  ASSUME NEW n \in Nat, NEW u, u = [i \in 1..n |-> <<"close">>]
  PROVE  /\ u \in Seq(ServerTick)
         /\ \A i \in 1..Len(u), s \in Streams : u[i] # <<"connection", s>>
<1>1. <<"close">> \in ServerTick
  BY DEF ServerTick
<1>2. u \in Seq(ServerTick) /\ Len(u) = n
  BY <1>1
<1>3. \A s \in Streams : <<"close">> # <<"connection", s>>
  OBVIOUS
<1> QED
  BY <1>2, <1>3

LEMMA DrainedTicks ==
  /\ CloseIfDrained(server) \in Seq(ServerTick)
  /\ \A i \in 1..Len(CloseIfDrained(server)), s \in Streams :
        CloseIfDrained(server)[i] # <<"connection", s>>
<1>1. CASE server.connections = 0
  <2>1. CloseIfDrained(server) = [i \in 1..1 |-> <<"close">>]
    BY <1>1 DEF CloseIfDrained
  <2> QED
    BY <2>1, CloseTicks
<1>2. CASE server.connections # 0
  BY <1>2 DEF CloseIfDrained
<1> QED
  BY <1>1, <1>2

LEMMA CloseOK ==
  ASSUME CountInv, Close PROVE CountInv'
<1>0. server.asked + 1 \in Nat /\ server.closing + 1 \in Nat /\ server \in ServerType
  BY DEF CountInv, ServerType
<1>1. Keeps(server, server')
  BY <1>0 DEF Close, Keeps, ServerType
<1>2. nextTicks' = nextTicks \o CloseIfDrained(server) /\ UNCHANGED accepted
  BY DEF Close
<1> QED
  BY <1>1, <1>2, DrainedTicks, OtherTicks, KeepsStep

LEMMA AbortOK ==
  ASSUME CountInv, Abort PROVE CountInv'
<1> DEFINE n == IF server.connections = 0 THEN server.aborts ELSE 0
<1>0. server \in ServerType /\ n \in Nat
  BY DEF CountInv, ServerType
<1>1. Keeps(server, server')
  BY <1>0 DEF Abort, Keeps, ServerType
<1>2. nextTicks' = nextTicks \o [i \in 1..n |-> <<"close">>] /\ UNCHANGED accepted
  BY DEF Abort
<1> HIDE DEF n
<1> QED
  BY <1>0, <1>1, <1>2, CloseTicks, OtherTicks, KeepsStep

LEMMA EmitServerCloseOK ==
  ASSUME CountInv, EmitServerClose PROVE CountInv'
<1>0. server \in ServerType /\ server.closes + 1 \in Nat /\ 0 \in Nat
  BY DEF CountInv, ServerType
<1>1. Keeps(server, server')
  BY <1>0 DEF EmitServerClose, Keeps, ServerType
<1>2. Len(nextTicks) > 0 /\ nextTicks' = Tail(nextTicks) /\ UNCHANGED accepted
  BY DEF EmitServerClose, CountInv
<1> QED
  BY <1>1, <1>2, TailTicks, KeepsStep

LEMMA RunAbortOK ==
  ASSUME CountInv, RunAbort PROVE CountInv'
<1> DEFINE q == Tail(nextTicks)
           u == CloseIfDrained(server)
<1>1. /\ nextTicks' = q \o u /\ UNCHANGED <<server, accepted>>
      /\ Len(nextTicks) > 0
  BY DEF RunAbort, CountInv
<1>2. /\ q \in Seq(ServerTick) /\ Len(q) = Len(nextTicks) - 1
      /\ \A i \in 1..Len(q) : i + 1 \in 1..Len(nextTicks) /\ q[i] = nextTicks[i + 1]
  BY <1>1 DEF CountInv
<1>3. /\ u \in Seq(ServerTick)
      /\ \A i \in 1..Len(u), s \in Streams : u[i] # <<"connection", s>>
  BY DrainedTicks
<1> HIDE DEF q, u
<1>4. nextTicks' \in Seq(ServerTick) /\ Len(nextTicks') = Len(q) + Len(u)
  <2>1. q \in Seq(ServerTick) /\ u \in Seq(ServerTick) /\ nextTicks' = q \o u
    BY <1>1, <1>2, <1>3
  <2> QED
    BY ONLY <2>1
<1>5. ASSUME NEW i \in 1..Len(nextTicks'), NEW s \in Streams, nextTicks'[i] = <<"connection", s>>
      PROVE  accepted'[s] \in TakenStates
  <2>1. CASE i \in 1..Len(q)
    <3>1. nextTicks'[i] = q[i]
      BY <1>1, <1>2, <1>3, <2>1
    <3>2. i + 1 \in 1..Len(nextTicks) /\ nextTicks[i + 1] = <<"connection", s>>
      BY <1>2, <1>5, <2>1, <3>1
    <3> QED
      BY <1>1, <3>2 DEF CountInv, TicksAreTaken
  <2>2. CASE i \notin 1..Len(q)
    <3>1. i - Len(q) \in 1..Len(u) /\ nextTicks'[i] = u[i - Len(q)]
      BY <1>1, <1>2, <1>3, <1>4, <2>2
    <3> QED
      BY <1>3, <1>5, <3>1
  <2> QED
    BY <2>1, <2>2
<1>6. Keeps(server, server')
  BY <1>1 DEF CountInv, Keeps
<1> QED
  BY <1>1, <1>4, <1>5, <1>6, KeepsStep DEF TicksAreTaken

LEMMA EmitConnectionOK ==
  ASSUME CountInv, NEW s \in Streams, EmitConnection(s) PROVE CountInv'
<1>1. Len(nextTicks) > 0 /\ nextTicks[1] = <<"connection", s>>
  BY DEF EmitConnection, CountInv
<1>2. accepted[s] \in TakenStates
  BY <1>1 DEF CountInv, TicksAreTaken
<1> QED
  BY <1>1, <1>2, StreamMoves DEF EmitConnection, TakenStates

LEMMA SocketGoneOK ==
  ASSUME CountInv, NEW s \in Streams, SocketGone(s) PROVE CountInv'
BY StreamMoves DEF SocketGone, TakenStates

\* Nothing is claimed of the count of Node's own server.
LEMMA NativeConnectionOK ==
  ASSUME CountInv, NEW s \in Streams, NativeConnection(s) PROVE CountInv'
<1>1. /\ server' = server /\ server.transport = "native" /\ nextTicks' = nextTicks
      /\ accepted' = [accepted EXCEPT ![s] = "announced"]
  BY DEF NativeConnection
<1>2. accepted' \in AcceptedType /\ TicksAreTaken'
  BY <1>1 DEF CountInv, AcceptedType, TicksAreTaken, TakenStates
<1> QED
  BY <1>1, <1>2 DEF CountInv, AcceptedCounted, ListenCallbackOnce

LEMMA SessionTicksOK ==
  ASSUME CountInv, NEW s \in Streams, DestroySession(s) \/ SessionCloses(s) PROVE CountInv'
<1>0. Keeps(server, server') /\ UNCHANGED accepted
  BY DEF CountInv, Keeps, DestroySession, SessionCloses
<1>1. CASE DestroySession(s)
  <2> DEFINE u == <<<<"tlsClose", s>>>>
  <2>1. u \in Seq(ServerTick) /\ \A i \in 1..Len(u), t \in Streams : u[i] # <<"connection", t>>
    BY DEF ServerTick
  <2>2. nextTicks' = nextTicks \o u
    <3>1. nextTicks' = Append(nextTicks, <<"tlsClose", s>>) /\ nextTicks \in Seq(ServerTick)
      BY <1>1 DEF DestroySession, CountInv
    <3>2. <<"tlsClose", s>> \in ServerTick
      BY DEF ServerTick
    <3> QED
      BY <3>1, <3>2, AppendIsConcat
  <2> QED
    BY <1>0, <2>1, <2>2, OtherTicks, KeepsStep
<1>2. CASE SessionCloses(s)
  <2>1. Len(nextTicks) > 0 /\ nextTicks' = Tail(nextTicks)
    BY <1>2 DEF SessionCloses, CountInv
  <2> QED
    BY <1>0, <2>1, TailTicks, KeepsStep
<1> QED
  BY <1>1, <1>2

LEMMA CountNext ==
  CountInv /\ [TlsServerNext]_tlsServerVars => CountInv'
<1> SUFFICES ASSUME CountInv, [TlsServerNext]_tlsServerVars PROVE CountInv'
  OBVIOUS
<1>1. CASE UNCHANGED netServerVars
  BY <1>1 DEF netServerVars, CountInv, TicksAreTaken, AcceptedCounted, Taken, ListenCallbackOnce
<1>2. CASE NetSteps
  BY <1>2, ListenOK, AddConnectionOK, CloseOK, AbortOK, RunAbortOK, EmitServerCloseOK DEF NetSteps
<1>3. ASSUME NEW s \in Streams,
             \/ TlsConnection(s) \/ NativeConnection(s) \/ HandshakeDone(s) \/ HandshakeFails(s)
             \/ TlsSocketGone(s) \/ DestroySession(s) \/ SessionCloses(s)
      PROVE  CountInv'
  <2>1. CASE HandshakeDone(s) \/ HandshakeFails(s)
    BY <1>1, <2>1 DEF HandshakeDone, HandshakeFails
  <2>2. CASE TlsConnection(s)
    BY <2>2, EmitConnectionOK DEF TlsConnection
  <2>3. CASE TlsSocketGone(s)
    BY <2>3, SocketGoneOK DEF TlsSocketGone
  <2> QED
    BY <1>3, <2>1, <2>2, <2>3, NativeConnectionOK, SessionTicksOK
<1>4. CASE UNCHANGED tlsServerVars
  BY <1>1, <1>4 DEF tlsServerVars, netServerVars
<1> QED
  BY <1>2, <1>3, <1>4 DEF TlsServerNext

LEMMA CountInit ==
  TlsServerInit => CountInv
<1> SUFFICES ASSUME TlsServerInit PROVE CountInv
  OBVIOUS
<1>1. PICK t \in Transports, g \in {"none", "live", "aborted"} : server = NewServer(t, g)
  BY DEF TlsServerInit, NetServerInit
<1>2. server \in ServerType
  BY <1>1 DEF NewServer, ServerType
<1>3. /\ server.connections = 0 /\ server.called = 0 /\ server.waiting = 0 /\ server.listens = 0
  BY <1>1 DEF NewServer
<1>4. accepted = [s \in Streams |-> "unborn"] /\ nextTicks = <<>>
  BY DEF TlsServerInit, NetServerInit
<1>5. Taken = {}
  BY <1>4 DEF Taken
<1>6. AcceptedCounted
  BY <1>3, <1>5, FS_EmptySet, NetServerAssumption DEF AcceptedCounted, NetServerAssumption
<1> QED
  BY <1>2, <1>3, <1>4, <1>6 DEF CountInv, AcceptedType, TicksAreTaken, ListenCallbackOnce

\* Which part runs: the others stutter.
LEMMA StackParts ==
  ASSUME [StackNext]_stackVars
  PROVE  /\ [ClientNext]_clientVars /\ [TlsServerNext]_tlsServerVars
         /\ [CacheNext]_cacheVars
BY DEF StackNext, stackVars, clientVars, socketVars, tlsServerVars, netServerVars, cacheVars,
       identityVars

LEMMA CountAlways ==
  StackSpec => []CountInv
<1>1. StackInit => CountInv
  BY CountInit DEF StackInit
<1>2. CountInv /\ [StackNext]_stackVars => CountInv'
  BY StackParts, CountNext
<1> QED
  BY <1>1, <1>2, PTL DEF StackSpec

\* The count of a generic or libp2p server is the number of sockets that the
\* program got or is about to get, and stays within maxConnections: for every
\* set of streams and every limit.
THEOREM CountsExact == StackSpec => []AcceptedCounted
<1>1. CountInv => AcceptedCounted
  BY DEF CountInv
<1> QED
  BY <1>1, CountAlways, PTL

\* A callback of listen() runs at most once, for every number of calls.
THEOREM ListensOnce == StackSpec => []ListenCallbackOnce
<1>1. CountInv => ListenCallbackOnce
  BY DEF CountInv
<1> QED
  BY <1>1, CountAlways, PTL

-----------------------------------------------------------------------------
(* The dial *)

ClientTick == {"connect", "close", "error", "written", "tlsClose"}

\* What internalConnect has made of the path, wherever it waits.
Path(d) ==
    /\ d \in DialType
    /\ d.awaiting \notin {"nothing", "failed"} => d.valid
    /\ d.awaiting \in {"relayStream", "upgrade", "stream", "emitting", "done"} =>
          /\ Len(d.relays) <= d.hops
          /\ \A i \in 1..Len(d.relays) : d.relays[i] = "carrying"
    /\ d.awaiting = "relayStream" => Len(d.relays) < d.hops
    /\ d.awaiting = "relayAnswer" =>
          /\ Len(d.relays) > 0 /\ Len(d.relays) <= d.hops
          /\ \A i \in 1..(Len(d.relays) - 1) : d.relays[i] = "carrying"
    /\ d.awaiting \in {"stream", "emitting", "done"} => Len(d.relays) = d.hops

Arrived == {"emitting", "done"}

DialInv == /\ Path(dial)
           /\ stream \in StreamType /\ tls \in TlsType
           /\ ticks \in Seq(ClientTick)
           /\ stream.state # "none" => dial.awaiting \in Arrived
           /\ \A i \in 1..Len(ticks) : ticks[i] = "connect" => dial.awaiting \in Arrived

\* Ticks of u beside those of t are not 'connect'.
NoNewConnect(t, u) ==
    /\ u \in Seq(ClientTick)
    /\ \A i \in 1..Len(u) : u[i] = "connect" => \E j \in 1..Len(t) : t[j] = "connect"

LEMMA TickAdded ==
  ASSUME NEW t \in Seq(ClientTick), NEW u \in ClientTick, u # "connect"
  PROVE  NoNewConnect(t, Append(t, u))
BY DEF NoNewConnect

LEMMA TickTaken ==
  ASSUME NEW t \in Seq(ClientTick), Len(t) > 0
  PROVE  NoNewConnect(t, Tail(t))
<1>1. /\ Tail(t) \in Seq(ClientTick) /\ Len(Tail(t)) = Len(t) - 1
      /\ \A i \in 1..Len(Tail(t)) : i + 1 \in 1..Len(t) /\ Tail(t)[i] = t[i + 1]
  OBVIOUS
<1> QED
  BY <1>1 DEF NoNewConnect

LEMMA TickReplaced ==
  ASSUME NEW t \in Seq(ClientTick), Len(t) > 0
  PROVE  NoNewConnect(t, Append(Tail(t), "written"))
<1> DEFINE q == Tail(t)
<1>1. q \in Seq(ClientTick) /\ NoNewConnect(t, q)
  BY TickTaken DEF NoNewConnect
<1> HIDE DEF q
<1>2. "written" \in ClientTick /\ "written" # "connect"
  BY DEF ClientTick
<1>3. NoNewConnect(q, Append(q, "written"))
  BY ONLY <1>1, <1>2, TickAdded
<1>4. NoNewConnect(t, Append(q, "written"))
  BY ONLY <1>1, <1>3 DEF NoNewConnect
<1> QED
  BY <1>4 DEF q

LEMMA TicksWritten ==
  ASSUME NEW t \in Seq(ClientTick), NEW n \in Nat
  PROVE  NoNewConnect(t, t \o [i \in 1..n |-> "written"])
<1> DEFINE u == [i \in 1..n |-> "written"]
<1>1. u \in Seq(ClientTick) /\ Len(u) = n /\ \A i \in 1..n : u[i] = "written"
  BY DEF ClientTick
<1> HIDE DEF u
<1>2. t \o u \in Seq(ClientTick) /\ Len(t \o u) = Len(t) + n
  BY <1>1
<1>3. ASSUME NEW i \in 1..Len(t \o u), (t \o u)[i] = "connect"
      PROVE  i \in 1..Len(t)
  <2> SUFFICES ASSUME i \notin 1..Len(t) PROVE FALSE
    OBVIOUS
  <2>1. i - Len(t) \in 1..n /\ (t \o u)[i] = u[i - Len(t)]
    BY <1>1, <1>2
  <2> QED
    BY <1>1, <1>3, <2>1
<1>4. \A i \in 1..Len(t) : (t \o u)[i] = t[i]
  BY <1>1
<1>5. NoNewConnect(t, t \o u)
  BY <1>2, <1>3, <1>4 DEF NoNewConnect
<1> QED
  BY <1>5 DEF u

\* The stream neither comes nor goes.
SameStream(v, w) == w \in StreamType /\ (w.state = "none" <=> v.state = "none")

\* A step that leaves the dial alone.
LEMMA QuietStep ==
  ASSUME DialInv, UNCHANGED dial, SameStream(stream, stream'), NoNewConnect(ticks, ticks'),
         tls' \in TlsType
  PROVE  DialInv'
BY DEF DialInv, SameStream, NoNewConnect

\* A step of the dial before it has arrived.
LEMMA DialStep ==
  ASSUME DialInv, dial.awaiting \notin Arrived, Path(dial'), SameStream(stream, stream'),
         NoNewConnect(ticks, ticks'), UNCHANGED tls
  PROVE  DialInv'
BY DEF DialInv, SameStream, NoNewConnect

LEMMA SameTicks ==
  ASSUME DialInv PROVE NoNewConnect(ticks, ticks) /\ SameStream(stream, stream)
BY DEF DialInv, NoNewConnect, SameStream

LEMMA DestroyWithOK ==
  ASSUME DialInv, NEW failed \in BOOLEAN, DestroyWith(failed)
  PROVE  SameStream(stream, stream') /\ NoNewConnect(ticks, ticks')
<1>1. CASE sock.destroyed
  <2>1. UNCHANGED stream /\ (ticks' = ticks \/ ticks' = Append(ticks, "error"))
    BY <1>1 DEF DestroyWith
  <2>2. ticks \in Seq(ClientTick) /\ "error" \in ClientTick /\ "error" # "connect"
    BY DEF DialInv, ClientTick
  <2> QED
    BY <2>1, <2>2, SameTicks, TickAdded
<1>2. CASE ~sock.destroyed
  <2>1. SameStream(stream, stream')
    BY <1>2 DEF DestroyWith, DialInv, StreamType, SameStream
  <2>2. ticks \in Seq(ClientTick) /\ "close" \in ClientTick /\ "close" # "connect"
    BY DEF DialInv, ClientTick
  <2>3. ticks' = Append(ticks, "close")
    BY <1>2 DEF DestroyWith
  <2> QED
    BY <2>1, <2>2, <2>3, TickAdded
<1> QED
  BY <1>1, <1>2

RelayStates == {"open", "carrying", "closed"}

LEMMA FailedPath ==
  ASSUME Path(dial), NEW relays \in Seq(RelayStates)
  PROVE  Path([dial EXCEPT !.awaiting = "failed", !.relays = relays])
BY DEF Path, DialType, RelayStates

\* Every failure ends the dial, whatever became of the relays.
LEMMA ConnectFailsOK ==
  ASSUME DialInv, UNCHANGED tls, dial.awaiting \notin Arrived, NEW relays \in Seq(RelayStates),
         ConnectFails(relays)
  PROVE  DialInv'
<1>1. dial' = [dial EXCEPT !.awaiting = "failed", !.relays = relays] /\ DestroyWith(TRUE)
  BY DEF ConnectFails
<1>2. Path(dial')
  BY <1>1, FailedPath DEF DialInv
<1> QED
  BY <1>1, <1>2, DestroyWithOK, DialStep

AllCarry(relays) == \A i \in 1..Len(relays) : relays[i] = "carrying"

LEMMA HopFromOK ==
  ASSUME DialInv, UNCHANGED tls, dial.awaiting \notin Arrived \cup {"nothing", "failed"},
         NEW relays \in Seq(RelayStates), AllCarry(relays), Len(relays) <= dial.hops,
         HopFrom(relays)
  PROVE  DialInv'
<1>1. Path(dial')
  <2>1. Len(relays) \in Nat /\ dial.hops \in Nat
    BY SocketAssumption DEF DialInv, Path, DialType, SocketAssumption
  <2>2. CASE Len(relays) < dial.hops
    <3>1. dial' = [dial EXCEPT !.relays = relays, !.awaiting = "relayStream"]
      BY <2>2 DEF HopFrom
    <3> QED
      BY <2>1, <2>2, <3>1 DEF DialInv, Path, DialType, RelayStates, AllCarry, Arrived
  <2>3. CASE ~(Len(relays) < dial.hops)
    <3>1. dial' = [dial EXCEPT !.relays = relays, !.awaiting = "stream"]
      BY <2>3 DEF HopFrom
    <3>2. Len(relays) = dial.hops
      BY <2>1, <2>3
    <3> QED
      BY <2>1, <3>1, <3>2 DEF DialInv, Path, DialType, RelayStates, AllCarry, Arrived
  <2> QED
    BY <2>2, <2>3
<1>2. UNCHANGED <<stream, ticks>>
  BY DEF HopFrom
<1> QED
  BY <1>1, <1>2, SameTicks, DialStep

LEMMA ConnectOK ==
  ASSUME DialInv, UNCHANGED tls, Connect PROVE DialInv'
<1>0. <<>> \in Seq(RelayStates) /\ dial.awaiting = "nothing" /\ dial.awaiting \notin Arrived
  BY DEF Connect, Awaits, Arrived
<1>1. CASE dial.valid /\ Await("dial", <<>>)
  <2>1. dial' = [dial EXCEPT !.awaiting = "dial", !.relays = <<>>] /\ UNCHANGED <<stream, ticks>>
    BY <1>1 DEF Await
  <2>2. dial' \in DialType /\ dial'.awaiting = "dial" /\ dial'.valid
    <3>1. PICK r : r = <<>> /\ r \in Seq(RelayStates)
      BY <1>0
    <3>2. dial' = [dial EXCEPT !.awaiting = "dial", !.relays = r]
      BY <2>1, <3>1
    <3> QED
      BY <1>1, <3>1, <3>2 DEF DialInv, Path, DialType, RelayStates
  <2>3. Path(dial')
    BY <2>2 DEF Path
  <2> QED
    BY <1>0, <2>1, <2>3, SameTicks, DialStep
<1>2. CASE ConnectFails(<<>>)
  BY <1>0, <1>2, ConnectFailsOK
<1> QED
  BY <1>1, <1>2 DEF Connect

LEMMA DialResolvesOK ==
  ASSUME DialInv, UNCHANGED tls, DialResolves PROVE DialInv'
<1>1. <<>> \in Seq(RelayStates) /\ AllCarry(<<>>) /\ Len(<<>>) = 0
  BY DEF AllCarry
<1>2. dial.hops \in Nat
  BY SocketAssumption DEF DialInv, Path, DialType, SocketAssumption
<1>3. PICK r : r = <<>> /\ r \in Seq(RelayStates) /\ AllCarry(r) /\ Len(r) = 0
  BY <1>1
<1>4. HopFrom(r) /\ dial.awaiting = "dial" /\ dial.awaiting \notin Arrived \cup {"nothing", "failed"}
  BY <1>3 DEF DialResolves, Awaits, Arrived
<1>5. Len(r) <= dial.hops
  BY <1>2, <1>3
<1> QED
  BY <1>3, <1>4, <1>5, HopFromOK

LEMMA RelayStreamOpensOK ==
  ASSUME DialInv, UNCHANGED tls, RelayStreamOpens PROVE DialInv'
<1> DEFINE r == Append(dial.relays, "open")
<1>0. /\ dial.awaiting = "relayStream" /\ dial.awaiting \notin Arrived
      /\ dial.relays \in Seq(RelayStates) /\ dial.hops \in Nat
  BY SocketAssumption
     DEF RelayStreamOpens, Awaits, Arrived, DialInv, Path, DialType, RelayStates, SocketAssumption
<1>1. /\ r \in Seq(RelayStates) /\ Len(r) = Len(dial.relays) + 1
      /\ \A i \in 1..Len(dial.relays) : r[i] = dial.relays[i]
  BY <1>0 DEF RelayStates
<1>2. CASE Await("relayAnswer", r)
  <2>1. dial' = [dial EXCEPT !.awaiting = "relayAnswer", !.relays = r] /\ UNCHANGED <<stream, ticks>>
    BY <1>2 DEF Await
  <2>2. AllCarry(dial.relays) /\ Len(dial.relays) < dial.hops /\ dial.valid
    BY <1>0 DEF DialInv, Path, AllCarry
  <2>3. dial' \in DialType /\ dial'.awaiting = "relayAnswer" /\ dial'.relays = r
        /\ dial'.hops = dial.hops /\ dial'.valid = dial.valid
    BY <1>1, <2>1 DEF DialInv, Path, DialType, RelayStates
  <2> HIDE DEF r
  <2>4. Len(r) > 0 /\ Len(r) <= dial.hops /\ \A i \in 1..(Len(r) - 1) : r[i] = "carrying"
    BY <1>0, <1>1, <2>2 DEF AllCarry
  <2>5. Path(dial')
    BY <2>2, <2>3, <2>4 DEF Path
  <2> QED
    BY <1>0, <2>1, <2>5, SameTicks, DialStep
<1>3. CASE ConnectFails(r)
  <2> HIDE DEF r
  <2> QED
    BY <1>0, <1>1, <1>3, ConnectFailsOK
<1> QED
  BY <1>2, <1>3 DEF RelayStreamOpens

LEMMA LastMarked ==
  ASSUME NEW relays \in Seq(RelayStates), NEW state \in RelayStates, Len(relays) > 0
  PROVE  /\ WithLast(relays, state) \in Seq(RelayStates)
         /\ Len(WithLast(relays, state)) = Len(relays)
         /\ WithLast(relays, state)[Len(relays)] = state
         /\ \A i \in 1..(Len(relays) - 1) : WithLast(relays, state)[i] = relays[i]
BY DEF WithLast

LEMMA RelayAnswersOK ==
  ASSUME DialInv, UNCHANGED tls, RelayAnswers PROVE DialInv'
<1>0. /\ dial.awaiting = "relayAnswer" /\ dial.awaiting \notin Arrived
      /\ dial.relays \in Seq(RelayStates) /\ dial.hops \in Nat
      /\ Len(dial.relays) > 0 /\ Len(dial.relays) <= dial.hops
      /\ \A i \in 1..(Len(dial.relays) - 1) : dial.relays[i] = "carrying"
      /\ dial.valid
  BY SocketAssumption
     DEF RelayAnswers, Awaits, Arrived, DialInv, Path, DialType, RelayStates, SocketAssumption
<1>1. CASE Await("upgrade", WithLast(dial.relays, "carrying"))
  <2>1. PICK r : r = WithLast(dial.relays, "carrying")
    OBVIOUS
  <2>2. dial' = [dial EXCEPT !.awaiting = "upgrade", !.relays = r] /\ UNCHANGED <<stream, ticks>>
    BY <1>1, <2>1 DEF Await
  <2>3. "carrying" \in RelayStates
    BY DEF RelayStates
  <2>4. r \in Seq(RelayStates) /\ Len(r) = Len(dial.relays)
    BY <1>0, <2>1, <2>3, LastMarked
  <2>5. \A i \in 1..Len(r) : r[i] = "carrying"
    <3>1. r[Len(dial.relays)] = "carrying"
          /\ \A i \in 1..(Len(dial.relays) - 1) : r[i] = dial.relays[i]
      BY <1>0, <2>1, <2>3, LastMarked
    <3> QED
      BY <1>0, <2>4, <3>1
  <2>6. dial' \in DialType /\ dial'.awaiting = "upgrade" /\ dial'.relays = r
        /\ dial'.hops = dial.hops /\ dial'.valid = dial.valid
    BY <2>2, <2>4 DEF DialInv, Path, DialType, RelayStates
  <2>7. Path(dial')
    BY <1>0, <2>4, <2>5, <2>6 DEF Path
  <2> QED
    BY <1>0, <2>2, <2>7, SameTicks, DialStep
<1>2. CASE ConnectFails(dial.relays)
  BY <1>0, <1>2, ConnectFailsOK
<1>3. CASE ConnectFails(WithLast(dial.relays, "closed"))
  <2>1. "closed" \in RelayStates
    BY DEF RelayStates
  <2>2. WithLast(dial.relays, "closed") \in Seq(RelayStates)
    BY <1>0, <2>1, LastMarked
  <2> QED
    BY <1>0, <1>3, <2>2, ConnectFailsOK
<1> QED
  BY <1>1, <1>2, <1>3 DEF RelayAnswers

LEMMA UpgradeResolvesOK ==
  ASSUME DialInv, UNCHANGED tls, UpgradeResolves PROVE DialInv'
<1>1. /\ dial.relays \in Seq(RelayStates) /\ AllCarry(dial.relays)
      /\ Len(dial.relays) <= dial.hops
      /\ dial.awaiting \notin Arrived \cup {"nothing", "failed"}
  BY DEF UpgradeResolves, Awaits, DialInv, Path, DialType, RelayStates, AllCarry, Arrived
<1> QED
  BY <1>1, HopFromOK DEF UpgradeResolves

\* The one step that makes a stream: the path is complete there.
LEMMA StreamOpensOK ==
  ASSUME DialInv, UNCHANGED tls, StreamOpens PROVE DialInv'
<1>0. dial.awaiting = "stream" /\ dial.awaiting \notin Arrived /\ dial.relays \in Seq(RelayStates)
  BY DEF StreamOpens, Awaits, Arrived, DialInv, Path, DialType, RelayStates
<1>1. CASE /\ dial' = [dial EXCEPT !.awaiting = "emitting"]
           /\ stream' = [stream EXCEPT !.state = "open", !.sink = TRUE]
           /\ ticks' = Append(ticks, "connect")
  <2>1. Path(dial') /\ dial'.awaiting \in Arrived
    BY <1>0, <1>1 DEF DialInv, Path, DialType, Arrived
  <2>2. stream' \in StreamType
    BY <1>1 DEF DialInv, StreamType
  <2>3. ticks' \in Seq(ClientTick)
    BY <1>1 DEF DialInv, ClientTick
  <2> QED
    BY <2>1, <2>2, <2>3 DEF DialInv
<1>2. CASE ConnectFails(dial.relays)
  BY <1>0, <1>2, ConnectFailsOK
<1> QED
  BY <1>1, <1>2 DEF StreamOpens

LEMMA AwaitRejectsOK ==
  ASSUME DialInv, UNCHANGED tls, AwaitRejects PROVE DialInv'
<1>1. dial.awaiting \notin Arrived /\ dial.relays \in Seq(RelayStates)
  BY DEF AwaitRejects, Arrived, DialInv, Path, DialType, RelayStates
<1> QED
  BY <1>1, ConnectFailsOK DEF AwaitRejects

\* The tick was queued when the stream came, so there is one.
LEMMA EmitConnectOK ==
  ASSUME DialInv, tls' \in TlsType, NEW reply, EmitConnect(reply) PROVE DialInv'
<1>1. Len(ticks) > 0 /\ ticks[1] = "connect" /\ ticks' = Tail(ticks) /\ UNCHANGED stream
      /\ dial' = [dial EXCEPT !.awaiting = "done"]
  BY DEF EmitConnect, DialInv
<1>2. dial.awaiting \in Arrived
  BY <1>1 DEF DialInv
<1>3. Path(dial') /\ dial'.awaiting \in Arrived
  BY <1>1, <1>2 DEF DialInv, Path, DialType, Arrived
<1>4. ticks' \in Seq(ClientTick)
  BY <1>1 DEF DialInv
<1> QED
  BY <1>1, <1>3, <1>4 DEF DialInv

LEMMA EmitCloseOK ==
  ASSUME DialInv, tls' \in TlsType, EmitClose PROVE DialInv'
<1>1. Len(ticks) > 0 /\ ticks' = Tail(ticks) /\ UNCHANGED <<dial, stream>>
  BY DEF EmitClose, DialInv
<1> QED
  BY <1>1, TickTaken, SameTicks, QuietStep DEF DialInv

LEMMA EmitErrorOK ==
  ASSUME DialInv, UNCHANGED tls, EmitError PROVE DialInv'
<1>1. Len(ticks) > 0 /\ ticks' = Tail(ticks) /\ UNCHANGED <<dial, stream>> /\ tls' \in TlsType
  BY DEF EmitError, DialInv
<1> QED
  BY <1>1, TickTaken, SameTicks, QuietStep DEF DialInv

LEMMA PeerResetsOK ==
  ASSUME DialInv, UNCHANGED tls, PeerResets PROVE DialInv'
<1>1. SameStream(stream, stream')
  BY DEF PeerResets, DialInv, StreamType, SameStream
<1> QED
  BY <1>1, SameTicks, QuietStep DEF PeerResets, DialInv

LEMMA SocketStepsOK ==
  ASSUME DialInv, UNCHANGED tls, SocketSteps PROVE DialInv'
<1>0. tls' \in TlsType
  BY DEF DialInv
<1>1. CASE SinkTakes \/ WriteDone
  BY <1>0, <1>1, SameTicks, QuietStep DEF SinkTakes, WriteDone
<1>2. CASE DestroySocket \/ AutoDestroy
  BY <1>0, <1>2, DestroyWithOK, QuietStep DEF DestroySocket, AutoDestroy
<1> QED
  BY <1>1, <1>2, ConnectOK, DialResolvesOK, RelayStreamOpensOK, RelayAnswersOK, UpgradeResolvesOK,
     StreamOpensOK, AwaitRejectsOK, EmitErrorOK, PeerResetsOK DEF SocketSteps

\* What reads and what the peer sends leave the dial, the stream and the ticks.
LEMMA PeerSendsOK ==
  ASSUME DialInv, UNCHANGED tls, NEW signal, PeerSends(signal) PROVE DialInv'
BY SameTicks, QuietStep DEF PeerSends, DialInv

LEMMA PlainOK ==
  ASSUME DialInv, UNCHANGED tls, Plain PROVE DialInv'
<1>0. tls' \in TlsType
  BY DEF DialInv
<1>1. CASE Pull(<<>>) /\ UNCHANGED ticks
  BY <1>0, <1>1, SameTicks, QuietStep DEF Pull
<1>2. CASE PullEnd \/ EndSocket
  BY <1>0, <1>2, SameTicks, QuietStep DEF PullEnd, EndSocket
<1>3. ASSUME NEW item, ProgramWrites(item) PROVE DialInv'
  BY <1>0, <1>3, SameTicks, QuietStep DEF ProgramWrites
<1>4. ASSUME NEW signal, PeerSays(signal, "data") \/ PeerSays(signal, "over") PROVE DialInv'
  BY <1>4, PeerSendsOK DEF PeerSays
<1> QED
  BY <1>0, <1>1, <1>2, <1>3, <1>4, EmitConnectOK, EmitCloseOK DEF Plain

LEMMA ShutType ==
  ASSUME NEW t \in TlsType PROVE Shut(t) \in TlsType /\ [Shut(t) EXCEPT !.errors = 1] \in TlsType
<1>1. PICK u : u = Shut(t)
  OBVIOUS
<1>2. u \in TlsType
  BY <1>1 DEF Shut, TlsType
<1>3. [u EXCEPT !.errors = 1] \in TlsType
  BY <1>2 DEF TlsType
<1> QED
  BY <1>1, <1>2, <1>3

LEMMA ClosedType ==
  ASSUME NEW t \in TlsType PROVE Closed(t) \in TlsType
BY DEF Closed, TlsType

LEMMA FlushType ==
  ASSUME NEW t \in TlsType PROVE Flush(t) \in TlsType
<1>1. t.sent \o t.pending \in Seq(1..Chunks) /\ <<>> \in Seq(1..Chunks)
  BY DEF TlsType
<1> QED
  BY <1>1 DEF Flush, TlsType

LEMMA TlsWriteOK ==
  ASSUME DialInv, TlsWrite PROVE DialInv'
<1> USE TlsAssumption DEF TlsAssumption
<1> DEFINE n == tls.written + 1
           w == [tls EXCEPT !.written = n, !.writing = TRUE]
<1>1. n \in 1..Chunks /\ n \in 0..Chunks
  BY DEF TlsWrite, DialInv, TlsType
<1>2. w \in TlsType /\ w.pending = tls.pending /\ w.buffer = tls.buffer
  BY <1>1 DEF DialInv, TlsType
<1>3. UNCHANGED <<dial, stream>>
  BY DEF TlsWrite
<1>4. /\ tls' \in {[w EXCEPT !.buffer = Append(@, n)], [w EXCEPT !.pending = Append(@, n)],
                   [Flush(w) EXCEPT !.sent = Append(@, n)]}
      /\ ticks' \in {ticks, ticks \o [i \in 1..Len(tls.pending) + 1 |-> "written"]}
  BY DEF TlsWrite
<1> HIDE DEF n, w
<1>5. tls' \in TlsType
  <2>1. [w EXCEPT !.buffer = Append(@, n)] \in TlsType
    <3>1. Append(w.buffer, n) \in Seq(1..Chunks)
      BY <1>1, <1>2 DEF TlsType
    <3> QED
      BY <1>2, <3>1 DEF TlsType
  <2>2. [w EXCEPT !.pending = Append(@, n)] \in TlsType
    <3>1. Append(w.pending, n) \in Seq(1..Chunks)
      BY <1>1, <1>2 DEF TlsType
    <3> QED
      BY <1>2, <3>1 DEF TlsType
  <2>3. [Flush(w) EXCEPT !.sent = Append(@, n)] \in TlsType
    <3>1. Flush(w) \in TlsType
      BY <1>2, FlushType
    <3>2. Append(Flush(w).sent, n) \in Seq(1..Chunks)
      BY <1>1, <3>1 DEF TlsType
    <3> QED
      BY <3>1, <3>2 DEF TlsType
  <2> QED
    BY <1>4, <2>1, <2>2, <2>3
<1>6. NoNewConnect(ticks, ticks')
  <2>1. Len(tls.pending) + 1 \in Nat /\ ticks \in Seq(ClientTick)
    BY DEF DialInv, TlsType
  <2> QED
    BY <1>4, <2>1, SameTicks, TicksWritten
<1> QED
  BY <1>3, <1>5, <1>6, SameTicks, QuietStep

LEMMA ChunkMoves ==
  ASSUME NEW S, NEW b \in Seq(S), NEW s \in Seq(S), b # <<>>
  PROVE  Tail(b) \in Seq(S) /\ Append(s, Head(b)) \in Seq(S)
OBVIOUS

LEMMA TlsWrittenOK ==
  ASSUME DialInv, TlsWritten PROVE DialInv'
<1>1. Len(ticks) > 0 /\ ticks \in Seq(ClientTick) /\ UNCHANGED <<dial, stream>>
  BY DEF TlsWritten, DialInv
<1>2. CASE tls' = [tls EXCEPT !.writing = FALSE] /\ ticks' = Tail(ticks)
  <2>1. tls' \in TlsType
    BY <1>2 DEF DialInv, TlsType
  <2> QED
    BY <1>1, <1>2, <2>1, TickTaken, SameTicks, QuietStep
<1>3. CASE /\ tls.buffer # <<>>
           /\ tls' = [tls EXCEPT !.buffer = Tail(@), !.sent = Append(@, Head(tls.buffer))]
           /\ ticks' = Append(Tail(ticks), "written")
  <2>1. Tail(tls.buffer) \in Seq(1..Chunks) /\ Append(tls.sent, Head(tls.buffer)) \in Seq(1..Chunks)
    <3>1. tls.buffer \in Seq(1..Chunks) /\ tls.sent \in Seq(1..Chunks)
      BY DEF DialInv, TlsType
    <3> QED
      BY <1>3, <3>1, ChunkMoves
  <2>2. tls' \in TlsType
    BY <1>3, <2>1 DEF DialInv, TlsType
  <2> QED
    BY <1>1, <1>3, <2>2, TickReplaced, SameTicks, QuietStep
<1> QED
  BY <1>2, <1>3 DEF TlsWritten

LEMMA TlsClosesOK ==
  ASSUME DialInv, TlsDestroy \/ TlsEmitClose \/ TlsSocketCloses PROVE DialInv'
<1>1. CASE TlsDestroy
  <2>1. tls' \in TlsType
    <3>1. PICK b : b = <<>> /\ b \in Seq(1..Chunks)
      <4>1. <<>> \in Seq(1..Chunks)
        OBVIOUS
      <4> QED
        BY <4>1
    <3>2. tls' = [tls EXCEPT !.destroyed = TRUE, !.buffer = b]
      BY <1>1, <3>1 DEF TlsDestroy
    <3> QED
      BY <3>1, <3>2 DEF DialInv, TlsType
  <2>2. ticks \in Seq(ClientTick) /\ "tlsClose" \in ClientTick /\ "tlsClose" # "connect"
    BY DEF DialInv, ClientTick
  <2> QED
    BY <1>1, <2>1, <2>2, TickAdded, SameTicks, QuietStep DEF TlsDestroy
<1>2. CASE TlsEmitClose
  <2>1. tls' \in TlsType
    BY <1>2, ClosedType DEF TlsEmitClose, DialInv
  <2>2. Len(ticks) > 0 /\ ticks \in Seq(ClientTick)
    BY <1>2 DEF TlsEmitClose, DialInv
  <2> QED
    BY <1>2, <2>1, <2>2, TickTaken, SameTicks, QuietStep DEF TlsEmitClose
<1>3. CASE TlsSocketCloses
  <2>1. tls' \in TlsType
    BY <1>3, ClosedType DEF TlsSocketCloses, DialInv
  <2> QED
    BY <1>3, <2>1, EmitCloseOK DEF TlsSocketCloses
<1> QED
  BY <1>1, <1>2, <1>3

LEMMA TlsConnectOK ==
  ASSUME DialInv, TlsConnect PROVE DialInv'
<1>1. tls \in TlsType
  BY DEF DialInv
<1>2. tls' = [tls EXCEPT !.phase = "handshaking"] \/ tls' = [tls EXCEPT !.phase = "broken"]
      \/ tls' = tls
  BY DEF TlsConnect
<1>3. [tls EXCEPT !.phase = "handshaking"] \in TlsType
  BY ONLY <1>1 DEF TlsType
<1>4. [tls EXCEPT !.phase = "broken"] \in TlsType
  BY ONLY <1>1 DEF TlsType
<1>5. tls' \in TlsType
  BY ONLY <1>1, <1>2, <1>3, <1>4
<1> QED
  BY <1>5, EmitConnectOK DEF TlsConnect

\* What arrives: the dial, the stream and, but for the flush, the ticks stay.
LEMMA ArrivesOK ==
  ASSUME DialInv,
         \/ CertificateArrives \/ FinishedArrives \/ DataArrives \/ AlertArrives
         \/ CloseNotifyArrives \/ IgnoredArrives \/ EndArrives
  PROVE  DialInv'
<1>1. UNCHANGED <<dial, stream>>
  BY DEF CertificateArrives, FinishedArrives, DataArrives, AlertArrives, CloseNotifyArrives,
         IgnoredArrives, EndArrives, Pull, PullEnd
<1>2. tls' \in TlsType
  <2>1. tls \in TlsType
    BY DEF DialInv
  <2>2. CASE CertificateArrives
    <3>1. [tls EXCEPT !.phase = "verified"] \in TlsType
      BY <2>1 DEF TlsType
    <3> QED
      BY <2>1, <2>2, <3>1, ShutType DEF CertificateArrives
  <2>3. CASE FinishedArrives
    <3>1. Flush(tls) \in TlsType
      BY <2>1, FlushType
    <3>2. [Flush(tls) EXCEPT !.phase = "connected", !.secure = TRUE, !.secures = 1] \in TlsType
      <4>1. PICK f : f = Flush(tls) /\ f \in TlsType
        BY <3>1
      <4>2. PICK g : g = [f EXCEPT !.phase = "connected", !.secure = TRUE] /\ g \in TlsType
        <5>1. [f EXCEPT !.phase = "connected", !.secure = TRUE] \in TlsType
          BY ONLY <4>1 DEF TlsType
        <5> QED
          BY <5>1
      <4>3. [g EXCEPT !.secures = 1] \in TlsType
        <5>1. PICK n : n = 1 /\ n \in 0..1
          OBVIOUS
        <5>2. [g EXCEPT !.secures = n] \in TlsType
          BY ONLY <4>2, <5>1 DEF TlsType
        <5> QED
          BY <5>1, <5>2
      <4>4. [f EXCEPT !.phase = "connected", !.secure = TRUE, !.secures = 1] = [g EXCEPT !.secures = 1]
        BY ONLY <4>1, <4>2 DEF TlsType
      <4> QED
        BY <4>1, <4>3, <4>4
    <3> QED
      BY <2>3, <3>2 DEF FinishedArrives
  <2> QED
    BY <2>1, <2>2, <2>3, ShutType
       DEF DataArrives, AlertArrives, CloseNotifyArrives, IgnoredArrives, EndArrives
<1>3. NoNewConnect(ticks, ticks')
  <2>1. CASE FinishedArrives
    <3>1. Len(tls.pending) \in Nat /\ DOMAIN tls.pending = 1..Len(tls.pending)
      BY DEF DialInv, TlsType
    <3>2. ticks' = ticks \o [i \in 1..Len(tls.pending) |-> "written"]
      BY <2>1, <3>1 DEF FinishedArrives
    <3>3. ticks \in Seq(ClientTick)
      BY DEF DialInv
    <3> QED
      BY <3>1, <3>2, <3>3, TicksWritten
  <2>2. CASE ~FinishedArrives
    <3>1. UNCHANGED ticks
      BY <2>2 DEF CertificateArrives, DataArrives, AlertArrives, CloseNotifyArrives,
                  IgnoredArrives, EndArrives, PullEnd
    <3> QED
      BY <3>1, SameTicks
  <2> QED
    BY <2>1, <2>2
<1> QED
  BY <1>1, <1>2, <1>3, SameTicks, QuietStep

LEMMA SecuredOK ==
  ASSUME DialInv, Secured PROVE DialInv'
<1>1. CASE Wrap
  <2>1. tls' \in TlsType /\ UNCHANGED <<dial, stream, ticks>>
    BY <1>1 DEF Wrap, DialInv, TlsType, socketVars
  <2> QED
    BY <2>1, SameTicks, QuietStep
<1>2. CASE PeerAnswers \/ PeerTalks
  <2>1. UNCHANGED tls /\ \E signal : PeerSends(signal)
    BY <1>2 DEF PeerAnswers, PeerTalks, PeerSays
  <2> QED
    BY <2>1, PeerSendsOK
<1> QED
  BY <1>1, <1>2, TlsWriteOK, TlsWrittenOK, TlsClosesOK, TlsConnectOK, ArrivesOK DEF Secured

LEMMA DialNext ==
  DialInv /\ [ClientNext]_clientVars => DialInv'
<1> SUFFICES ASSUME DialInv, [ClientNext]_clientVars PROVE DialInv'
  OBVIOUS
<1>1. CASE UNCHANGED clientVars
  BY <1>1 DEF clientVars, socketVars, DialInv
<1>2. CASE SocketSteps /\ UNCHANGED <<tls, peer>>
  BY <1>2, SocketStepsOK
<1>3. CASE Plain
  <2>1. UNCHANGED tls
    BY <1>3 DEF Plain, PeerSays
  <2> QED
    BY <1>3, <2>1, PlainOK
<1>4. CASE Secured
  BY <1>4, SecuredOK
<1> QED
  BY <1>1, <1>2, <1>3, <1>4 DEF ClientNext

LEMMA DialInit ==
  ClientInit => DialInv
<1> SUFFICES ASSUME ClientInit PROVE DialInv
  OBVIOUS
<1>1. dial \in DialType /\ dial.awaiting = "nothing"
  <2>1. PICK r : r = <<>> /\ r \in Seq({"open", "carrying", "closed"})
    <3>1. <<>> \in Seq({"open", "carrying", "closed"})
      OBVIOUS
    <3> QED
      BY <3>1
  <2>2. dial \in [awaiting : {"nothing"}, valid : BOOLEAN, hops : 0..MaxHops, relays : {r}]
    BY <2>1 DEF ClientInit, SocketInit
  <2> QED
    BY <2>1, <2>2 DEF DialType
<1>2. stream \in StreamType /\ stream.state = "none" /\ ticks = <<>>
  BY DEF ClientInit, SocketInit, StreamType
<1>3. tls \in TlsType
  <2>1. NoOptions \in AllTlsOptions /\ TlsOptions \subseteq AllTlsOptions
    BY TlsAssumption DEF TlsAssumption, NoOptions, AllTlsOptions
  <2>2. PICK used \in BOOLEAN, o \in AllTlsOptions : tls = NewTls(used, o)
    BY <2>1 DEF ClientInit
  <2>3. 0 \in 0..Chunks /\ <<>> \in Seq(1..Chunks)
    BY TlsAssumption DEF TlsAssumption
  <2> QED
    BY <2>2, <2>3 DEF NewTls, TlsType
<1> QED
  BY <1>1, <1>2, <1>3 DEF DialInv, Path

\* For every number of relays, whatever they answer and whenever the program
\* destroys the socket: a stream is one to the node the program named.
THEOREM StreamsAtExit == StackSpec => []StreamAtExit
<1>1. StackInit => DialInv
  BY DialInit DEF StackInit
<1>2. DialInv /\ [StackNext]_stackVars => DialInv'
  BY StackParts, DialNext
<1>3. DialInv => StreamAtExit
  BY DEF DialInv, Path, DialType, StreamAtExit, Arrived
<1> QED
  BY <1>1, <1>2, <1>3, PTL DEF StackSpec

-----------------------------------------------------------------------------
(* The TLS sessions of the server *)

\* One session: what was reported of it agrees with what happened to it.
Reported(t) ==
    /\ t \in SessionType
    /\ t.errorEmitted <=> t.hangups > 0
    /\ t.clientErrors = (IF t.hangups > 0 THEN 1 ELSE 0)
    /\ t.phase \in {"none", "waiting", "broken", "handshaking"} => t.secures = 0
    /\ t.secures <= 1

ReportInv == /\ sessions = [s \in Streams |-> sessions[s]]
             /\ \A s \in Streams : Reported(sessions[s])

LEMMA MoreSmall ==
  More(0) = 1 /\ More(1) = 2 /\ More(2) = 2
BY DEF More

LEMMA NewReported ==
  ASSUME NEW phase \in {"none", "waiting", "broken", "handshaking"}
  PROVE  Reported(NewSession(phase))
<1>1. 0 \in 0..2
  OBVIOUS
<1> QED
  BY <1>1 DEF NewSession, Reported, SessionType

\* The first hangup is told, and no other.
LEMMA HangupReported ==
  ASSUME NEW t, Reported(t) PROVE Reported(Hangup(t))
<1>1. /\ t.hangups \in 0..2 /\ t.clientErrors \in 0..2 /\ t.secures \in 0..2
      /\ t.errorEmitted \in BOOLEAN
  BY DEF Reported, SessionType
<1>2. PICK h \in 1..2 : h = More(t.hangups)
  BY <1>1 DEF More
<1>3. (IF t.errorEmitted THEN t.clientErrors ELSE More(t.clientErrors)) = 1
  BY <1>1, MoreSmall DEF Reported
<1>4. Hangup(t) = [t EXCEPT !.hangups = h, !.clientErrors = 1, !.errorEmitted = TRUE]
  BY <1>2, <1>3 DEF Hangup
<1>5. PICK u : u = [t EXCEPT !.hangups = h, !.clientErrors = 1, !.errorEmitted = TRUE]
  OBVIOUS
<1>6. u \in SessionType /\ u.hangups = h /\ u.clientErrors = 1 /\ u.errorEmitted = TRUE
      /\ u.phase = t.phase /\ u.secures = t.secures
  <2>1. h \in 0..2 /\ 1 \in 0..2
    OBVIOUS
  <2> QED
    BY <2>1, <1>5 DEF Reported, SessionType
<1>7. h > 0
  OBVIOUS
<1> QED
  BY <1>4, <1>5, <1>6, <1>7 DEF Reported

LEMMA DoneReported ==
  ASSUME NEW t, Reported(t), t.phase = "handshaking", NEW n \in 0..1
  PROVE  Reported([t EXCEPT !.phase = "secure", !.secures = n])
<1>1. n \in 0..2 /\ n <= 1
  OBVIOUS
<1> QED
  BY <1>1 DEF Reported, SessionType

LEMMA FieldReported ==
  ASSUME NEW t, Reported(t)
  PROVE  Reported([t EXCEPT !.destroyed = TRUE]) /\ Reported([t EXCEPT !.phase = "failed"])
BY DEF Reported, SessionType

\* One session changes.
LEMMA OneReported ==
  ASSUME ReportInv, NEW s \in Streams, NEW u, Reported(u), sessions' = [sessions EXCEPT ![s] = u]
  PROVE  ReportInv'
BY DEF ReportInv

LEMMA ReportNext ==
  ReportInv /\ [TlsServerNext]_tlsServerVars => ReportInv'
<1> SUFFICES ASSUME ReportInv, [TlsServerNext]_tlsServerVars PROVE ReportInv'
  OBVIOUS
<1>1. CASE UNCHANGED sessions
  BY <1>1 DEF ReportInv
<1>2. ASSUME NEW s \in Streams,
             \/ TlsConnection(s) \/ NativeConnection(s) \/ HandshakeDone(s) \/ HandshakeFails(s)
             \/ TlsSocketGone(s) \/ DestroySession(s) \/ SessionCloses(s)
      PROVE  ReportInv'
  <2>0. Reported(sessions[s])
    BY DEF ReportInv
  <2>1. CASE TlsConnection(s) \/ NativeConnection(s)
    <3>1. PICK p \in {"waiting", "broken", "handshaking"} :
              sessions' = [sessions EXCEPT ![s] = NewSession(p)]
      BY <2>1 DEF TlsConnection, NativeConnection
    <3> QED
      BY <3>1, NewReported, OneReported
  <2>2. CASE HandshakeDone(s)
    <3>1. sessions[s].phase = "handshaking" /\ sessions[s].secures = 0
      BY <2>0, <2>2 DEF HandshakeDone, Reported
    <3>2. PICK n \in 0..1 : sessions' = [sessions EXCEPT
                               ![s] = [sessions[s] EXCEPT !.phase = "secure", !.secures = n]]
      <4>1. CASE sessions[s].destroyed
        <5>1. sessions' = [sessions EXCEPT
                               ![s] = [sessions[s] EXCEPT !.phase = "secure", !.secures = 0]]
          BY <2>0, <2>2, <3>1, <4>1 DEF HandshakeDone, Reported, SessionType, ReportInv
        <5> QED
          BY <5>1
      <4>2. CASE ~sessions[s].destroyed
        <5>1. sessions' = [sessions EXCEPT
                               ![s] = [sessions[s] EXCEPT !.phase = "secure", !.secures = 1]]
          BY <2>0, <2>2, <3>1, <4>2, MoreSmall DEF HandshakeDone, Reported, SessionType, ReportInv
        <5> QED
          BY <5>1
      <4> QED
        BY <4>1, <4>2
    <3> QED
      BY <2>0, <3>1, <3>2, DoneReported, OneReported
  <2>3. CASE HandshakeFails(s)
    <3>1. sessions' = [sessions EXCEPT ![s] = [sessions[s] EXCEPT !.phase = "failed"]]
      BY <2>3 DEF HandshakeFails, ReportInv
    <3> QED
      BY <2>0, <3>1, FieldReported, OneReported
  <2>4. CASE TlsSocketGone(s) \/ SessionCloses(s)
    <3>1. UNCHANGED sessions \/ sessions' = [sessions EXCEPT ![s] = Hangup(sessions[s])]
      BY <2>4 DEF TlsSocketGone, SessionCloses, ReportInv
    <3> QED
      BY <1>1, <2>0, <3>1, HangupReported, OneReported
  <2>5. CASE DestroySession(s)
    <3>1. sessions' = [sessions EXCEPT ![s] = [sessions[s] EXCEPT !.destroyed = TRUE]]
      BY <2>5 DEF DestroySession, ReportInv
    <3> QED
      BY <2>0, <3>1, FieldReported, OneReported
  <2> QED
    BY <1>2, <2>1, <2>2, <2>3, <2>4, <2>5
<1> QED
  BY <1>1, <1>2 DEF TlsServerNext, tlsServerVars

LEMMA ReportInit ==
  TlsServerInit => ReportInv
BY NewReported DEF TlsServerInit, ReportInv

\* For every set of streams: a hangup is told once, and a session is announced
\* as secure once at most.
THEOREM HangupsToldOnce == StackSpec => []OneTlsClientError
<1>1. StackInit => ReportInv
  BY ReportInit DEF StackInit
<1>2. ReportInv /\ [StackNext]_stackVars => ReportInv'
  BY StackParts, ReportNext
<1>3. ReportInv => OneTlsClientError
  BY DEF ReportInv, Reported, OneTlsClientError
<1> QED
  BY <1>1, <1>2, <1>3, PTL DEF StackSpec

-----------------------------------------------------------------------------
(* The session cache *)

Listed(c, k) == \E i \in 1..Len(c.list) : c.list[i] = k

Consistent(c) ==
    /\ c \in CacheType
    /\ \A k \in Keys : Listed(c, k) <=> c.map[k] # NoTicket
    /\ \A i, j \in 1..Len(c.list) : c.list[i] = c.list[j] => i = j
    /\ Len(c.list) <= c.max

CacheInv == /\ Consistent(cache)
            /\ connections \in [Connections -> {<<>>} \cup {<<c>> : c \in ConnectionType}]

\* In a list without repetitions RemoveFirst takes out the one place.
LEMMA RemoveFirstAt ==
  ASSUME NEW S, NEW s \in Seq(S), NEW k \in 1..Len(s),
         \A i, j \in 1..Len(s) : s[i] = s[j] => i = j
  PROVE  LET r == RemoveFirst(s, s[k]) IN
         /\ r \in Seq(S) /\ Len(r) = Len(s) - 1
         /\ \A i \in 1..(k - 1) : r[i] = s[i]
         /\ \A i \in k..(Len(s) - 1) : r[i] = s[i + 1]
<1> DEFINE at == SelectInSeq(s, LAMBDA v : v = s[k])
           front == SubSeq(s, 1, k - 1)
           back == SubSeq(s, k + 1, Len(s))
<1>1. at = k
  <2>1. {i \in 1..Len(s) : s[i] = s[k]} = {k}
    OBVIOUS
  <2>2. Min({k}) = k
    BY DEF Min
  <2> QED
    BY <2>1, <2>2 DEF SelectInSeq
<1>2. RemoveFirst(s, s[k]) = front \o back
  BY <1>1 DEF RemoveFirst, RemoveAt
<1>3. /\ front \in Seq(S) /\ Len(front) = k - 1
      /\ \A i \in 1..(k - 1) : front[i] = s[i]
  OBVIOUS
<1>4. /\ back \in Seq(S) /\ Len(back) = Len(s) - k
      /\ \A i \in 1..(Len(s) - k) : back[i] = s[i + k]
  OBVIOUS
<1> HIDE DEF front, back
<1>5. front \o back \in Seq(S) /\ Len(front \o back) = Len(s) - 1
  <2>1. front \in Seq(S) /\ back \in Seq(S) /\ Len(front) = k - 1 /\ Len(back) = Len(s) - k
    BY <1>3, <1>4
  <2>2. front \o back \in Seq(S) /\ Len(front \o back) = Len(front) + Len(back)
    BY ONLY <2>1, ConcatProperties
  <2> QED
    BY <2>1, <2>2
<1>6. \A i \in 1..(k - 1) : (front \o back)[i] = s[i]
  BY <1>3, <1>4
<1>7. ASSUME NEW i \in k..(Len(s) - 1) PROVE (front \o back)[i] = s[i + 1]
  <2>1. i - (k - 1) \in 1..Len(back) /\ (front \o back)[i] = back[i - (k - 1)]
    BY <1>3, <1>4
  <2> QED
    BY <1>4, <2>1
<1> QED
  BY <1>2, <1>5, <1>6, <1>7

Without(c, key, l) == [c EXCEPT !.map[key] = NoTicket, !.list = l]

\* Taking one key out of the list and of the map.
LEMMA Removed ==
  ASSUME NEW c, Consistent(c), NEW k \in 1..Len(c.list), NEW l \in Seq(Keys),
         Len(l) = Len(c.list) - 1,
         \A i \in 1..(k - 1) : l[i] = c.list[i],
         \A i \in k..(Len(c.list) - 1) : l[i] = c.list[i + 1],
         NEW d, d = Without(c, c.list[k], l)
  PROVE  Consistent(d) /\ Len(d.list) = Len(c.list) - 1 /\ d.max = c.max
<1> DEFINE key == c.list[k]
<1>1. /\ c.list \in Seq(Keys) /\ c.map \in [Keys -> Tickets \cup {NoTicket}] /\ key \in Keys
      /\ c.max \in 0..MaxCachedSessions
  BY DEF Consistent, CacheType
<1>2. /\ d.list = l /\ d.map = [c.map EXCEPT ![key] = NoTicket] /\ d.max = c.max
      /\ d \in CacheType
  BY <1>1 DEF Consistent, CacheType, Without
<1> DEFINE from(i) == IF i < k THEN i ELSE i + 1
<1>3. \A i \in 1..Len(l) : l[i] = c.list[from(i)] /\ from(i) \in 1..Len(c.list) /\ from(i) # k
  <2> SUFFICES ASSUME NEW i \in 1..Len(l)
               PROVE  l[i] = c.list[from(i)] /\ from(i) \in 1..Len(c.list) /\ from(i) # k
    OBVIOUS
  <2>1. Len(c.list) \in Nat /\ Len(l) = Len(c.list) - 1
    BY <1>1
  <2>2. CASE i < k
    <3>1. i \in 1..(k - 1) /\ i \in 1..Len(c.list)
      BY <2>1, <2>2
    <3> QED
      BY <2>2, <3>1
  <2>3. CASE ~(i < k)
    <3>1. i \in k..(Len(c.list) - 1) /\ i + 1 \in 1..Len(c.list) /\ i + 1 # k
      BY <2>1, <2>3
    <3> QED
      BY <2>3, <3>1
  <2> QED
    BY <2>2, <2>3
<1>4. \A i, j \in 1..Len(l) : from(i) = from(j) => i = j
  OBVIOUS
<1>5. \A j \in 1..Len(c.list) : j # k => \E i \in 1..Len(l) : l[i] = c.list[j]
  <2> SUFFICES ASSUME NEW j \in 1..Len(c.list), j # k PROVE \E i \in 1..Len(l) : l[i] = c.list[j]
    OBVIOUS
  <2>0. Len(c.list) \in Nat /\ Len(l) = Len(c.list) - 1
    BY <1>1
  <2>1. CASE j < k
    <3>1. j \in 1..(k - 1) /\ j \in 1..Len(l)
      BY <2>0, <2>1
    <3>2. l[j] = c.list[j]
      BY <3>1
    <3> QED
      BY ONLY <3>1, <3>2
  <2>2. CASE j > k
    <3>1. PICK i : i = j - 1
      OBVIOUS
    <3>2. i \in k..(Len(c.list) - 1) /\ i \in 1..Len(l) /\ i + 1 = j
      BY <2>0, <2>2, <3>1
    <3>3. l[i] = c.list[j]
      BY <3>2
    <3> QED
      BY ONLY <3>2, <3>3
  <2> QED
    BY <1>1, <2>1, <2>2
<1>6. \A i, j \in 1..Len(c.list) : c.list[i] = c.list[j] => i = j
  BY DEF Consistent
<1> HIDE DEF from
<1>7. \A i, j \in 1..Len(l) : l[i] = l[j] => i = j
  BY <1>3, <1>4, <1>6
<1>8. \A i \in 1..Len(l) : l[i] # key
  BY <1>3, <1>6
<1>9. ASSUME NEW x \in Keys PROVE Listed(d, x) <=> d.map[x] # NoTicket
  <2>1. CASE x = key
    BY <1>1, <1>2, <1>8, <2>1 DEF Listed
  <2>2. CASE x # key
    <3>1. Listed(c, x) <=> c.map[x] # NoTicket
      BY DEF Consistent
    <3>2. d.map[x] = c.map[x]
      BY <1>1, <1>2, <2>2
    <3>3. ASSUME Listed(c, x) PROVE Listed(d, x)
      <4>1. PICK j \in 1..Len(c.list) : c.list[j] = x
        BY <3>3 DEF Listed
      <4>2. j # k
        BY <2>2, <4>1
      <4>3. PICK i \in 1..Len(l) : l[i] = c.list[j]
        BY ONLY <1>5, <4>2
      <4> QED
        BY ONLY <1>2, <4>1, <4>3 DEF Listed
    <3>4. ASSUME Listed(d, x) PROVE Listed(c, x)
      <4>1. PICK i \in 1..Len(l) : l[i] = x
        BY ONLY <1>2, <3>4 DEF Listed
      <4> QED
        BY ONLY <1>3, <4>1 DEF Listed
    <3> QED
      BY <3>1, <3>2, <3>3, <3>4
  <2> QED
    BY <2>1, <2>2
<1>10. Len(l) <= c.max
  BY <1>1 DEF Consistent
<1> QED
  <2> HIDE DEF key
  <2>1. /\ \A i, j \in 1..Len(d.list) : d.list[i] = d.list[j] => i = j
        /\ Len(d.list) <= d.max /\ Len(d.list) = Len(c.list) - 1
    BY <1>2, <1>7, <1>10
  <2>2. Consistent(d)
    BY ONLY <1>2, <1>9, <2>1 DEF Consistent
  <2> QED
    BY ONLY <1>2, <2>1, <2>2

\* Adding a key that is not there, below the limit.
LEMMA Added ==
  ASSUME NEW c, Consistent(c), NEW k \in Keys, ~Listed(c, k), Len(c.list) < c.max,
         NEW ticket \in Tickets,
         NEW d, d = [c EXCEPT !.map[k] = ticket, !.list = Append(@, k)]
  PROVE  Consistent(d)
<1>1. /\ c.list \in Seq(Keys) /\ c.map \in [Keys -> Tickets \cup {NoTicket}]
      /\ c.max \in 0..MaxCachedSessions
  BY DEF Consistent, CacheType
<1>2. PICK l : l = Append(c.list, k)
  OBVIOUS
<1>3. /\ l \in Seq(Keys) /\ Len(l) = Len(c.list) + 1
      /\ \A i \in 1..Len(c.list) : l[i] = c.list[i]
      /\ l[Len(c.list) + 1] = k
  BY <1>1, <1>2
<1>4. /\ d.list = l /\ d.map = [c.map EXCEPT ![k] = ticket] /\ d.max = c.max
      /\ d \in CacheType
  BY <1>1, <1>2, <1>3 DEF Consistent, CacheType
<1>5. \A i \in 1..Len(c.list) : c.list[i] # k
  BY DEF Listed
<1>6. \A i, j \in 1..Len(c.list) : c.list[i] = c.list[j] => i = j
  BY DEF Consistent
<1>7. \A i, j \in 1..Len(l) : l[i] = l[j] => i = j
  BY <1>1, <1>3, <1>5, <1>6
<1>8. ASSUME NEW x \in Keys PROVE Listed(d, x) <=> d.map[x] # NoTicket
  <2>1. CASE x = k
    <3>1. d.map[x] = ticket /\ ticket # NoTicket
      BY <1>1, <1>4, <2>1, CacheAssumption DEF CacheAssumption
    <3>2. Listed(d, x)
      BY <1>1, <1>3, <1>4, <2>1 DEF Listed
    <3> QED
      BY <3>1, <3>2
  <2>2. CASE x # k
    <3>1. Listed(c, x) <=> c.map[x] # NoTicket
      BY DEF Consistent
    <3>2. d.map[x] = c.map[x]
      BY <1>1, <1>4, <2>2
    <3>3. Listed(c, x) <=> Listed(d, x)
      BY <1>1, <1>3, <1>4, <2>2 DEF Listed
    <3> QED
      BY <3>1, <3>2, <3>3
  <2> QED
    BY <2>1, <2>2
<1>9. Len(l) <= c.max
  BY <1>1, <1>3
<1> QED
  BY <1>4, <1>7, <1>8, <1>9 DEF Consistent

LEMMA Renewed ==
  ASSUME NEW c, Consistent(c), NEW k \in Keys, c.map[k] # NoTicket, NEW ticket \in Tickets,
         NEW d, d = [c EXCEPT !.map[k] = ticket]
  PROVE  Consistent(d)
<1>1. c.map \in [Keys -> Tickets \cup {NoTicket}] /\ ticket # NoTicket
  BY CacheAssumption DEF Consistent, CacheType, CacheAssumption
<1>2. /\ d.list = c.list /\ d.map = [c.map EXCEPT ![k] = ticket] /\ d.max = c.max
      /\ d \in CacheType
  BY <1>1 DEF Consistent, CacheType
<1>3. \A x \in Keys : d.map[x] # NoTicket <=> c.map[x] # NoTicket
  BY <1>1, <1>2
<1>4. \A x \in Keys : Listed(d, x) <=> Listed(c, x)
  BY <1>2 DEF Listed
<1> QED
  BY <1>2, <1>3, <1>4 DEF Consistent

LEMMA CacheSessionOK ==
  ASSUME NEW c, Consistent(c), NEW k \in Keys, NEW ticket \in Tickets
  PROVE  Consistent(CacheSession(c, k, ticket))
<1>1. CASE c.max = 0
  BY <1>1 DEF CacheSession
<1>2. CASE c.max # 0 /\ c.map[k] # NoTicket
  BY <1>2, Renewed DEF CacheSession
<1>3. CASE c.max # 0 /\ c.map[k] = NoTicket
  <2>1. /\ c.list \in Seq(Keys) /\ c.max \in Nat /\ ~Listed(c, k) /\ Len(c.list) <= c.max
    BY <1>3, CacheAssumption DEF Consistent, CacheType, CacheAssumption
  <2>2. PICK d : d = DropOldest(c)
    OBVIOUS
  <2>3. Consistent(d) /\ ~Listed(d, k) /\ Len(d.list) < d.max
    <3>1. CASE Len(c.list) >= c.max
      <4>1. 1 \in 1..Len(c.list) /\ Head(c.list) = c.list[1]
        BY <1>3, <2>1, <3>1
      <4>2. PICK l : l = Tail(c.list)
        OBVIOUS
      <4>3. /\ l \in Seq(Keys) /\ Len(l) = Len(c.list) - 1
            /\ \A i \in 1..(Len(c.list) - 1) : l[i] = c.list[i + 1]
        BY <2>1, <4>1, <4>2
      <4>4. d = [c EXCEPT !.map[c.list[1]] = NoTicket, !.list = l]
        BY <2>2, <3>1, <4>1, <4>2 DEF DropOldest, Consistent, CacheType
      <4>5. PICK n : n = 1
        OBVIOUS
      <4>6. Consistent(d) /\ Len(d.list) = Len(c.list) - 1 /\ d.max = c.max
        <5>1. /\ n \in 1..Len(c.list)
              /\ \A i \in 1..(n - 1) : l[i] = c.list[i]
              /\ \A i \in n..(Len(c.list) - 1) : l[i] = c.list[i + 1]
          BY <4>1, <4>3, <4>5
        <5>2. l \in Seq(Keys) /\ Len(l) = Len(c.list) - 1 /\ Consistent(c)
          BY <4>3
        <5>3. d = Without(c, c.list[n], l)
          BY <4>4, <4>5 DEF Without
        <5> QED
          BY ONLY <5>1, <5>2, <5>3, Removed
      <4>7. d.map[k] = NoTicket
        BY <1>3, <4>4 DEF Consistent, CacheType
      <4> QED
        BY <2>1, <3>1, <4>6, <4>7 DEF Consistent
    <3>2. CASE ~(Len(c.list) >= c.max)
      BY <2>1, <2>2, <3>2 DEF DropOldest
    <3> QED
      BY <3>1, <3>2
  <2>4. CacheSession(c, k, ticket) = [d EXCEPT !.map[k] = ticket, !.list = Append(@, k)]
    BY <1>3, <2>2 DEF CacheSession
  <2> QED
    BY <2>3, <2>4, Added
<1> QED
  BY <1>1, <1>2, <1>3

LEMMA EvictSessionOK ==
  ASSUME NEW c, Consistent(c), NEW key \in Keys
  PROVE  Consistent(EvictSession(c, key))
<1>1. CASE Contains(c.list, key)
  <2>1. PICK k \in 1..Len(c.list) : c.list[k] = key
    BY <1>1 DEF Contains
  <2>2. PICK l : l = RemoveFirst(c.list, c.list[k])
    OBVIOUS
  <2>3. c.list \in Seq(Keys) /\ \A i, j \in 1..Len(c.list) : c.list[i] = c.list[j] => i = j
    BY DEF Consistent, CacheType
  <2>4. /\ l \in Seq(Keys) /\ Len(l) = Len(c.list) - 1
        /\ \A i \in 1..(k - 1) : l[i] = c.list[i]
        /\ \A i \in k..(Len(c.list) - 1) : l[i] = c.list[i + 1]
    BY <2>2, <2>3, RemoveFirstAt
  <2>5. PICK d : d = EvictSession(c, key)
    OBVIOUS
  <2>6. d = Without(c, c.list[k], l)
    BY <1>1, <2>1, <2>2, <2>5 DEF EvictSession, Consistent, CacheType, Without
  <2>7. Consistent(c)
    OBVIOUS
  <2>8. Consistent(d)
    BY ONLY <2>4, <2>6, <2>7, Removed
  <2> QED
    BY <2>5, <2>8
<1>2. CASE ~Contains(c.list, key)
  BY <1>2 DEF EvictSession
<1> QED
  BY <1>1, <1>2

LEMMA CacheNextOK ==
  CacheInv /\ [CacheNext]_cacheVars => CacheInv'
<1> SUFFICES ASSUME CacheInv, [CacheNext]_cacheVars PROVE CacheInv'
  OBVIOUS
<1>1. CASE UNCHANGED cacheVars
  BY <1>1 DEF CacheInv, cacheVars
<1>2. ASSUME NEW c \in Connections, Open(c)
      PROVE  /\ connections[c][1] \in ConnectionType /\ connections[c] = <<connections[c][1]>>
             /\ connections[c][1].key \in Keys
  <2>1. connections[c] \in {<<>>} \cup {<<x>> : x \in ConnectionType} /\ connections[c] # <<>>
    BY <1>2 DEF CacheInv, Open
  <2>2. PICK x \in ConnectionType : connections[c] = <<x>>
    BY <2>1
  <2> QED
    BY <2>2 DEF ConnectionType
<1>3. ASSUME NEW c \in Connections, NEW key \in Keys, CreateConnection(c, key) PROVE CacheInv'
  <2>1. [open |-> TRUE, key |-> key, session |-> cache.map[key]] \in ConnectionType
    BY DEF CacheInv, Consistent, CacheType, ConnectionType
  <2> QED
    BY <1>3, <2>1 DEF CreateConnection, CacheInv
<1>4. ASSUME NEW c \in Connections, NEW ticket \in Tickets, SessionIssued(c, ticket) PROVE CacheInv'
  <2>1. connections[c][1].key \in Keys
    BY <1>2, <1>4 DEF SessionIssued
  <2> QED
    BY <1>4, <2>1, CacheSessionOK DEF SessionIssued, CacheInv
<1>5. ASSUME NEW c \in Connections, NEW hadError \in BOOLEAN, ConnectionCloses(c, hadError)
      PROVE  CacheInv'
  <2>1. Open(c)
    BY <1>5 DEF ConnectionCloses
  <2>2. Consistent(cache')
    BY <1>2, <1>5, <2>1, EvictSessionOK DEF ConnectionCloses, CacheInv
  <2>3. PICK x \in ConnectionType : connections[c] = <<x>>
    BY <1>2, <2>1
  <2>4. [x EXCEPT !.open = FALSE] \in ConnectionType
    BY DEF ConnectionType
  <2>5. connections' = [connections EXCEPT ![c] = <<[x EXCEPT !.open = FALSE]>>]
    <3>1. PICK y : y = [x EXCEPT !.open = FALSE]
      OBVIOUS
    <3>2. [<<x>> EXCEPT ![1] = y] = <<y>>
      OBVIOUS
    <3>3. connections' = [connections EXCEPT ![c] = [<<x>> EXCEPT ![1] = y]]
      BY <1>5, <2>3, <3>1 DEF ConnectionCloses
    <3> QED
      BY <3>1, <3>2, <3>3
  <2> QED
    BY <2>2, <2>4, <2>5 DEF CacheInv
<1> QED
  BY <1>1, <1>3, <1>4, <1>5 DEF CacheNext

LEMMA CacheInitOK ==
  CacheInit => CacheInv
<1> SUFFICES ASSUME CacheInit PROVE CacheInv
  OBVIOUS
<1>1. PICK l : l = <<>> /\ l \in Seq(Keys) /\ Len(l) = 0
  <2>1. <<>> \in Seq(Keys) /\ Len(<<>>) = 0
    OBVIOUS
  <2> QED
    BY <2>1
<1>2. cache \in [max : 0..MaxCachedSessions, map : {[k \in Keys |-> NoTicket]}, list : {l}]
  BY <1>1 DEF CacheInit
<1>3. cache \in CacheType /\ cache.list = l /\ cache.map = [k \in Keys |-> NoTicket]
      /\ cache.max \in Nat
  <2>1. PICK m : m = [k \in Keys |-> NoTicket] /\ m \in [Keys -> Tickets \cup {NoTicket}]
    <3>1. [k \in Keys |-> NoTicket] \in [Keys -> Tickets \cup {NoTicket}]
      OBVIOUS
    <3> QED
      BY <3>1
  <2>2. cache \in [max : 0..MaxCachedSessions, map : {m}, list : {l}]
    BY <1>2, <2>1
  <2>3. PICK x \in 0..MaxCachedSessions : cache = [max |-> x, map |-> m, list |-> l]
    BY ONLY <2>2
  <2>4. x \in Nat
    BY CacheAssumption DEF CacheAssumption
  <2>5. cache \in CacheType
    BY ONLY <1>1, <2>1, <2>3 DEF CacheType
  <2> QED
    BY ONLY <2>1, <2>3, <2>4, <2>5
<1>4. Consistent(cache)
  BY <1>1, <1>3 DEF Consistent, Listed
<1> QED
  BY <1>4 DEF CacheInit, CacheInv

\* For every set of keys and every maxCachedSessions the map and the list of
\* the cache agree.
THEOREM CacheIsOne == StackSpec => []SessionsConsistent
<1>1. StackInit => CacheInv
  BY CacheInitOK DEF StackInit
<1>2. CacheInv /\ [StackNext]_stackVars => CacheInv'
  BY StackParts, CacheNextOK
<1>3. CacheInv => SessionsConsistent
  <2> SUFFICES ASSUME CacheInv PROVE SessionsConsistent
    OBVIOUS
  <2>1. cache.list \in Seq(Keys) /\ DOMAIN cache.list = 1..Len(cache.list)
    BY DEF CacheInv, Consistent, CacheType
  <2>2. ToSet(cache.list) = {k \in Keys : cache.map[k] # NoTicket}
    BY <2>1 DEF ToSet, CacheInv, Consistent, Listed
  <2>3. IsInjective(cache.list)
    BY <2>1 DEF IsInjective, CacheInv, Consistent
  <2> QED
    BY <2>2, <2>3 DEF SessionsConsistent, CacheInv, Consistent
<1> QED
  BY <1>1, <1>2, <1>3, PTL DEF StackSpec

-----------------------------------------------------------------------------
(* The way of a write *)

\* The first n elements of s stand in h, after the place k.
At(h, k, s, n) == \A i \in 1..n : h[k + i] = s[i]

\* What was handed over and not dropped is, in this order, what the muxer took,
\* what is in the fifo, and what waits in the Writable; a destroyed socket has
\* let go of the last.
InPlace(t) ==
    /\ At(t.handed, t.dropped, t.remote, Len(t.remote))
    /\ At(t.handed, t.dropped + Len(t.remote), t.fifo, Len(t.fifo))
    /\ At(t.handed, t.dropped + Len(t.remote) + Len(t.fifo), t.buffer, Len(t.buffer))

Account(t) == t.dropped + Len(t.remote) + Len(t.fifo) + Len(t.buffer)

Accounted(t, dead) == /\ Account(t) <= Len(t.handed)
                      /\ ~dead => Account(t) = Len(t.handed)
                      /\ dead => t.buffer = <<>>

OneAtATime(t) == /\ Len(t.fifo) <= 1
                 /\ t.taken => t.fifo = <<>>
                 /\ ~Writing(t) => t.buffer = <<>>

\* Every write but the one that is under way is acknowledged.
UnderWay(t) == IF t.taken THEN 1 ELSE 0
Acked(t) == t.acked + UnderWay(t) = t.dropped + Len(t.remote)

Flow(t, open, dead) ==
    /\ t \in TxType
    /\ InPlace(t) /\ Accounted(t, dead) /\ OneAtATime(t) /\ Acked(t)
    /\ ~open => t.remote = <<>> /\ ~Writing(t)

HasStream == stream.state # "none"
FlowInv == Flow(tx, HasStream, sock.destroyed)

OneClose(u) == \A i, j \in 1..Len(u) : u[i] = "close" /\ u[j] = "close" => i = j
Queued(u, k) == \E i \in 1..Len(u) : u[i] = k

\* 'close' comes once, after the socket is destroyed.
CloseInv ==
    /\ sock \in SockType
    /\ OneClose(ticks)
    /\ Queued(ticks, "close") => sock.destroyed
    /\ Queued(ticks, "close") \/ ~sock.destroyed => sock.closes = 0

-----------------------------------------------------------------------------
(* The handshake *)

Unstarted == {"none", "waiting", "broken"}

AppsIn(h, i) == Cardinality({j \in 1..i : IsApp(h[j])})

Opened(h) == Len(h) >= 2 /\ h[1] = Flight(1) /\ h[2] = Flight(2)

\* The first n elements of q are the numbers after k.
Runs(q, n, k) == \A i \in 1..n : q[i] = k + i

\* What was written is what was encrypted, what _chunks holds and what waits in
\* the Writable, in this order.
NumbersOK(t) ==
    /\ Runs(t.sent, Len(t.sent), 0)
    /\ Runs(t.pending, Len(t.pending), Len(t.sent))
    /\ Runs(t.buffer, Len(t.buffer), Len(t.sent) + Len(t.pending))
    /\ ~t.destroyed => t.written = Len(t.sent) + Len(t.pending) + Len(t.buffer)
    /\ t.destroyed \/ ~t.writing => t.buffer = <<>>
    /\ t.secure => t.pending = <<>>
    /\ ~t.secure => t.sent = <<>>

\* The n-th chunk that was handed over is the n-th that was encrypted.
AppsOK(h, n, dead) ==
    /\ \A i \in 1..Len(h) : IsApp(h[i]) =>
          i > 2 /\ Opened(h) /\ AppsIn(h, i) <= n /\ h[i] = App(AppsIn(h, i))
    /\ ~dead => AppsIn(h, Len(h)) = n

\* How far the handshake has come, and what was handed over for it.
PhaseOK(t, h, dead) ==
    /\ t.phase \in Unstarted => h = <<>>
    /\ t.phase = "handshaking" => h = <<Flight(1)>> \/ (dead /\ h = <<>>)
    /\ t.phase = "verified" \/ t.secure => dead \/ Opened(h)
    /\ t.secure => t.phase \in {"connected", "closed"}
    /\ t.phase = "connected" => t.secure

TlsInv ==
    /\ rx \in RxType /\ peer \in PeerType
    /\ tls.used =>
          /\ tx.dropped = 0
          /\ tls.phase \notin Unstarted => HasStream
          /\ NumbersOK(tls)
          /\ AppsOK(tx.handed, Len(tls.sent), sock.destroyed)
          /\ PhaseOK(tls, tx.handed, sock.destroyed)
          /\ Queued(ticks, "written") => tls.secure

\* The dial arrives with its stream.
ArrivedOpen == dial.awaiting \in Arrived => HasStream

\* What socket.write() makes of t: w.
Hands(t, items, w) ==
    /\ w \in TxType
    /\ w.handed = t.handed \o items /\ w.remote = t.remote /\ w.taken = t.taken
    /\ Writing(t) => /\ w.dropped = t.dropped /\ w.acked = t.acked
                     /\ w.fifo = t.fifo /\ w.buffer = t.buffer \o items
    /\ ~Writing(t) /\ HasStream => /\ w.dropped = t.dropped /\ w.acked = t.acked
                                   /\ w.fifo = <<items[1]>> /\ w.buffer = Tail(items)
    /\ ~Writing(t) /\ ~HasStream => /\ w.dropped = t.dropped + Len(items)
                                    /\ w.acked = t.acked + Len(items)
                                    /\ w.fifo = t.fifo /\ w.buffer = <<>>

LEMMA JoinedSeq ==
  ASSUME NEW S, NEW a \in Seq(S), NEW b \in Seq(S), NEW c, c = a \o b
  PROVE  /\ c \in Seq(S) /\ Len(c) = Len(a) + Len(b) /\ Len(a) \in Nat /\ Len(b) \in Nat
         /\ \A i \in 1..Len(a) : c[i] = a[i]
         /\ \A i \in 1..Len(b) : c[Len(a) + i] = b[i]
  OBVIOUS

LEMMA HeadTail ==
  ASSUME NEW S, NEW a \in Seq(S), a # <<>>
  PROVE  /\ Head(a) = a[1] /\ <<a[1]>> \in Seq(S) /\ Tail(a) \in Seq(S)
         /\ <<>> \o Tail(a) = Tail(a) /\ Len(Tail(a)) = Len(a) - 1
         /\ \A i \in 1..Len(Tail(a)) : Tail(a)[i] = a[i + 1]
         /\ Len(a) \in Nat /\ Len(a) > 0 /\ a[1] \in S
  OBVIOUS

LEMMA WrittenHands ==
  ASSUME NEW t \in TxType, NEW items \in Seq(Items), items # <<>>,
         ~Writing(t) => t.buffer = <<>>
  PROVE  Hands(t, items, Written(t, items))
<1>1. PICK hs : hs = t.handed \o items
  OBVIOUS
<1>2. t.handed \in Seq(Items) /\ t.buffer \in Seq(Items)
  BY DEF TxType
<1>3. hs \in Seq(Items)
  BY <1>1, <1>2, JoinedSeq
<1>4. PICK h : h = [t EXCEPT !.handed = hs]
  OBVIOUS
<1>5. /\ h \in TxType /\ h.handed = hs /\ h.remote = t.remote /\ h.taken = t.taken
      /\ h.dropped = t.dropped /\ h.acked = t.acked /\ h.fifo = t.fifo /\ h.buffer = t.buffer
  BY <1>3, <1>4 DEF TxType
<1>6. PICK w : w = Written(t, items)
  OBVIOUS
<1>7. CASE Writing(t)
  <2>1. PICK b : b = t.buffer \o items
    OBVIOUS
  <2>2. b \in Seq(Items)
    BY <1>2, <2>1, JoinedSeq
  <2>3. w = [h EXCEPT !.buffer = b]
    BY <1>1, <1>4, <1>5, <1>6, <1>7, <2>1 DEF Written
  <2>4. /\ w \in TxType /\ w.handed = hs /\ w.remote = t.remote /\ w.taken = t.taken
        /\ w.dropped = t.dropped /\ w.acked = t.acked /\ w.fifo = t.fifo /\ w.buffer = b
    BY <1>5, <2>2, <2>3 DEF TxType
  <2> QED
    BY <1>1, <1>6, <1>7, <2>1, <2>4 DEF Hands
<1>8. CASE ~Writing(t) /\ HasStream
  <2>1. PICK b : b = Tail(items)
    OBVIOUS
  <2>2. PICK f : f = <<items[1]>>
    OBVIOUS
  <2>3. b \in Seq(Items) /\ f \in Seq(Items) /\ Head(items) = items[1] /\ <<>> \o Tail(items) = b
    BY <2>1, <2>2, HeadTail
  <2>4. w = [[h EXCEPT !.fifo = f] EXCEPT !.buffer = b]
    BY <1>1, <1>4, <1>5, <1>6, <1>8, <2>1, <2>2, <2>3 DEF Written, StartWrite, HasStream
  <2>5. PICK g : g = [h EXCEPT !.fifo = f]
    OBVIOUS
  <2>6. /\ g \in TxType /\ g.handed = hs /\ g.remote = t.remote /\ g.taken = t.taken
        /\ g.dropped = t.dropped /\ g.acked = t.acked /\ g.fifo = f
    BY <1>5, <2>3, <2>5 DEF TxType
  <2>7. /\ w \in TxType /\ w.handed = hs /\ w.remote = t.remote /\ w.taken = t.taken
        /\ w.dropped = t.dropped /\ w.acked = t.acked /\ w.fifo = f /\ w.buffer = b
    BY <2>3, <2>4, <2>5, <2>6 DEF TxType
  <2> QED
    BY <1>1, <1>6, <1>8, <2>1, <2>2, <2>7 DEF Hands
<1>9. CASE ~Writing(t) /\ ~HasStream
  <2>1. PICK n : n = Len(items)
    OBVIOUS
  <2>2. n \in Nat /\ t.acked + n \in Nat /\ t.dropped + n \in Nat
    BY <2>1, HeadTail DEF TxType
  <2>3. PICK g : g = [h EXCEPT !.acked = t.acked + n]
    OBVIOUS
  <2>4. w = [g EXCEPT !.dropped = t.dropped + n]
    <3>1. w = [[h EXCEPT !.acked = h.acked + n] EXCEPT !.dropped = h.dropped + n]
      BY <1>1, <1>4, <1>6, <1>9, <2>1 DEF Written, StartWrite, HasStream
    <3> QED
      BY <3>1, <1>5, <2>3
  <2>5. /\ g \in TxType /\ g.handed = hs /\ g.remote = t.remote /\ g.taken = t.taken
        /\ g.acked = t.acked + n /\ g.fifo = t.fifo /\ g.buffer = t.buffer
    BY <1>5, <2>2, <2>3 DEF TxType
  <2>6. /\ w \in TxType /\ w.handed = hs /\ w.remote = t.remote /\ w.taken = t.taken
        /\ w.dropped = t.dropped + n /\ w.acked = t.acked + n
        /\ w.fifo = t.fifo /\ w.buffer = t.buffer
    BY <2>2, <2>4, <2>5 DEF TxType
  <2> QED
    BY <1>1, <1>6, <1>9, <2>1, <2>6 DEF Hands
<1> QED
  BY <1>6, <1>7, <1>8, <1>9

LEMMA TxFields ==
  ASSUME NEW t \in TxType
  PROVE  /\ t.handed \in Seq(Items) /\ t.remote \in Seq(Items) /\ t.fifo \in Seq(Items)
         /\ t.buffer \in Seq(Items) /\ t.dropped \in Nat /\ t.acked \in Nat /\ t.taken \in BOOLEAN
         /\ Len(t.handed) \in Nat /\ Len(t.remote) \in Nat /\ Len(t.fifo) \in Nat
         /\ Len(t.buffer) \in Nat /\ UnderWay(t) \in Nat
<1>1. /\ t.handed \in Seq(Items) /\ t.remote \in Seq(Items) /\ t.fifo \in Seq(Items)
      /\ t.buffer \in Seq(Items) /\ t.dropped \in Nat /\ t.acked \in Nat /\ t.taken \in BOOLEAN
  BY DEF TxType
<1> QED
  BY <1>1 DEF UnderWay

Alike(g, h, l) == \A i \in 1..l : g[i] = h[i]

\* What stands in a sequence stands in a longer one.
LEMMA AtLonger ==
  ASSUME NEW h, NEW g, NEW l \in Nat, NEW k \in Nat, NEW n \in Nat, NEW s,
         At(h, k, s, n), k + n <= l, Alike(g, h, l)
  PROVE  At(g, k, s, n)
BY DEF At, Alike

LEMMA AtJoin ==
  ASSUME NEW h, NEW k \in Nat, NEW n \in Nat, NEW m \in Nat, NEW a, NEW b, NEW c,
         At(h, k, a, n), At(h, k + n, b, m),
         Alike(c, a, n), At(c, n, b, m)
  PROVE  At(h, k, c, n + m)
<1> SUFFICES ASSUME NEW i \in 1..(n + m) PROVE h[k + i] = c[i]
  BY DEF At
<1>1. CASE i \in 1..n
  BY <1>1 DEF At, Alike
<1>2. CASE i \notin 1..n
  <2>1. PICK j : j = i - n
    OBVIOUS
  <2>2. j \in 1..m /\ i = n + j /\ k + i = (k + n) + j
    BY <1>2, <2>1
  <2> QED
    BY <2>2 DEF At
<1> QED
  BY <1>1, <1>2

LEMMA AtSplit ==
  ASSUME NEW h, NEW k \in Nat, NEW n \in Nat, n > 0, NEW a, NEW b, At(h, k, a, n),
         \A i \in 1..(n - 1) : b[i] = a[i + 1]
  PROVE  h[k + 1] = a[1] /\ At(h, k + 1, b, n - 1)
<1>1. h[k + 1] = a[1]
  BY DEF At
<1>2. ASSUME NEW i \in 1..(n - 1) PROVE h[k + 1 + i] = b[i]
  <2>1. i + 1 \in 1..n /\ k + (i + 1) = k + 1 + i
    OBVIOUS
  <2> QED
    BY <2>1 DEF At
<1> QED
  BY <1>1, <1>2 DEF At

LEMMA AtEmpty ==
  ASSUME NEW h, NEW k, NEW s PROVE At(h, k, s, 0)
BY DEF At

\* Names for the numbers of t, which arithmetic is about.
Counts(t, d, m, f, b, h) ==
    /\ d = t.dropped /\ m = Len(t.remote) /\ f = Len(t.fifo) /\ b = Len(t.buffer)
    /\ h = Len(t.handed)

\* Flow, in these numbers.
FlowOf(t, d, m, f, b, h, open, dead) ==
    /\ At(t.handed, d, t.remote, m) /\ At(t.handed, d + m, t.fifo, f)
    /\ At(t.handed, d + m + f, t.buffer, b)
    /\ d + m + f + b <= h
    /\ ~dead => d + m + f + b = h
    /\ dead => b = 0
    /\ f <= 1
    /\ t.taken => f = 0
    /\ ~t.taken /\ f = 0 => b = 0
    /\ t.acked + UnderWay(t) = d + m
    /\ ~open => m = 0 /\ f = 0 /\ ~t.taken

LEMMA NoneLeft ==
  ASSUME NEW S, NEW s \in Seq(S) PROVE s = <<>> <=> Len(s) = 0
OBVIOUS

LEMMA FlowNumbers ==
  ASSUME NEW t \in TxType, NEW d, NEW m, NEW f, NEW b, NEW h, Counts(t, d, m, f, b, h),
         NEW open \in BOOLEAN, NEW dead \in BOOLEAN
  PROVE  /\ d \in Nat /\ m \in Nat /\ f \in Nat /\ b \in Nat /\ h \in Nat
         /\ t.acked \in Nat /\ UnderWay(t) \in Nat /\ t.taken \in BOOLEAN
         /\ Flow(t, open, dead) <=> FlowOf(t, d, m, f, b, h, open, dead)
<1>1. /\ d \in Nat /\ m \in Nat /\ f \in Nat /\ b \in Nat /\ h \in Nat
      /\ t.acked \in Nat /\ UnderWay(t) \in Nat /\ t.taken \in BOOLEAN
  BY TxFields DEF Counts
<1>2. /\ t.fifo = <<>> <=> f = 0
      /\ t.buffer = <<>> <=> b = 0
      /\ t.remote = <<>> <=> m = 0
  BY TxFields, NoneLeft DEF Counts
<1>3. Counts(t, d, m, f, b, h) /\ t \in TxType
  OBVIOUS
<1>4. InPlace(t) <=> /\ At(t.handed, d, t.remote, m) /\ At(t.handed, d + m, t.fifo, f)
                     /\ At(t.handed, d + m + f, t.buffer, b)
  BY ONLY <1>3 DEF InPlace, Counts
<1>5. Accounted(t, dead) <=> /\ d + m + f + b <= h
                             /\ ~dead => d + m + f + b = h
                             /\ dead => b = 0
  BY ONLY <1>2, <1>3 DEF Accounted, Account, Counts
<1>6. OneAtATime(t) <=> /\ f <= 1
                        /\ t.taken => f = 0
                        /\ ~t.taken /\ f = 0 => b = 0
  BY ONLY <1>1, <1>2, <1>3 DEF OneAtATime, Writing, Counts
<1>7. Acked(t) <=> t.acked + UnderWay(t) = d + m
  BY ONLY <1>3 DEF Acked, Counts
<1>8. (~open => t.remote = <<>> /\ ~Writing(t)) <=> (~open => m = 0 /\ f = 0 /\ ~t.taken)
  BY ONLY <1>1, <1>2 DEF Writing
<1> QED
  BY ONLY <1>1, <1>3, <1>4, <1>5, <1>6, <1>7, <1>8 DEF Flow, FlowOf

\* A write to a socket that is not destroyed.
LEMMA HandsFlow ==
  ASSUME NEW t, Flow(t, HasStream, FALSE), NEW items \in Seq(Items), items # <<>>,
         NEW w, Hands(t, items, w)
  PROVE  Flow(w, HasStream, FALSE)
<1>1. t \in TxType /\ w \in TxType
  BY DEF Flow, Hands
<1>2. PICK d, m, f, b, h : Counts(t, d, m, f, b, h)
  BY DEF Counts
<1>3. PICK e, k, g, c, l : Counts(w, e, k, g, c, l)
  BY DEF Counts
<1>4. HasStream \in BOOLEAN /\ FALSE \in BOOLEAN
  BY DEF HasStream
<1>5. /\ d \in Nat /\ m \in Nat /\ f \in Nat /\ b \in Nat /\ h \in Nat
      /\ t.acked \in Nat /\ UnderWay(t) \in Nat /\ t.taken \in BOOLEAN
      /\ FlowOf(t, d, m, f, b, h, HasStream, FALSE)
  BY <1>1, <1>2, <1>4, FlowNumbers
<1>6. /\ e \in Nat /\ k \in Nat /\ g \in Nat /\ c \in Nat /\ l \in Nat
      /\ Flow(w, HasStream, FALSE) <=> FlowOf(w, e, k, g, c, l, HasStream, FALSE)
  BY <1>1, <1>3, <1>4, FlowNumbers
<1>7. PICK n : n = Len(items)
  OBVIOUS
<1>8. n \in Nat /\ n > 0
  BY <1>7, HeadTail
<1>9. /\ l = h + n
      /\ Alike(w.handed, t.handed, h)
      /\ At(w.handed, h, items, n)
  <2>1. w.handed = t.handed \o items /\ t.handed \in Seq(Items)
    BY <1>1 DEF Hands, TxType
  <2> QED
    BY <2>1, <1>2, <1>3, <1>7, JoinedSeq DEF Counts, Alike, At
<1>10. w.remote = t.remote /\ w.taken = t.taken /\ k = m /\ UnderWay(w) = UnderWay(t)
  BY <1>2, <1>3 DEF Hands, Counts, UnderWay
<1>11. At(w.handed, h, items, n)
  BY ONLY <1>9
<1>12. /\ d + m + f + b = h
       /\ At(t.handed, d, t.remote, m) /\ At(t.handed, d + m, t.fifo, f)
       /\ At(t.handed, d + m + f, t.buffer, b)
       /\ f <= 1 /\ (t.taken => f = 0) /\ (~t.taken /\ f = 0 => b = 0)
       /\ t.acked + UnderWay(t) = d + m
       /\ ~HasStream => m = 0 /\ f = 0 /\ ~t.taken
  BY ONLY <1>5 DEF FlowOf
<1>13. At(w.handed, d, w.remote, m) /\ At(w.handed, d + m, t.fifo, f)
       /\ At(w.handed, d + m + f, t.buffer, b)
  <2>1. d + m <= h /\ d + m + f <= h /\ (d + m + f) + b <= h /\ d + m \in Nat /\ d + m + f \in Nat
    BY ONLY <1>5, <1>12
  <2>2. At(w.handed, d, t.remote, m)
    BY ONLY <1>5, <1>9, <1>12, <2>1, AtLonger
  <2>3. At(w.handed, d + m, t.fifo, f)
    BY ONLY <1>5, <1>9, <1>12, <2>1, AtLonger
  <2>4. At(w.handed, d + m + f, t.buffer, b)
    BY ONLY <1>5, <1>9, <1>12, <2>1, AtLonger
  <2> QED
    BY ONLY <1>10, <2>2, <2>3, <2>4
<1>14. Writing(t) <=> t.taken \/ f # 0
  <2>1. t.fifo = <<>> <=> f = 0
    BY <1>1, <1>2, TxFields, NoneLeft DEF Counts
  <2> QED
    BY <2>1 DEF Writing
<1>15. CASE Writing(t)
  <2>1. /\ w.buffer = t.buffer \o items /\ w.dropped = t.dropped /\ w.acked = t.acked
        /\ w.fifo = t.fifo /\ t.buffer \in Seq(Items)
    BY <1>1, <1>15 DEF Hands, TxType
  <2>2. /\ c = b + n /\ e = d /\ g = f
        /\ Alike(w.buffer, t.buffer, b) /\ At(w.buffer, b, items, n)
    BY <1>2, <1>3, <1>7, <2>1, JoinedSeq DEF Counts, Alike, At
  <2>3. d + m + f \in Nat /\ At(w.handed, (d + m + f) + b, items, n)
    BY ONLY <1>5, <1>11, <1>12
  <2>4. At(w.handed, d + m + f, w.buffer, b + n)
    BY ONLY <1>5, <1>8, <1>13, <2>2, <2>3, AtJoin
  <2>5. /\ d + m + f + (b + n) <= l /\ d + m + f + (b + n) = l
        /\ w.taken => f = 0
        /\ ~w.taken /\ f = 0 => b + n = 0
    BY ONLY <1>5, <1>8, <1>9, <1>10, <1>12, <1>14, <1>15
  <2>6. FlowOf(w, d, m, f, b + n, l, HasStream, FALSE)
    BY ONLY <1>10, <1>12, <1>13, <2>1, <2>4, <2>5 DEF FlowOf
  <2> QED
    BY ONLY <1>6, <1>10, <2>2, <2>6
<1>16. CASE ~Writing(t) /\ HasStream
  <2>1. /\ w.fifo = <<items[1]>> /\ w.buffer = Tail(items)
        /\ w.dropped = t.dropped /\ w.acked = t.acked
    BY <1>16 DEF Hands
  <2>2. /\ g = 1 /\ w.fifo[1] = items[1] /\ c = n - 1 /\ e = d
        /\ \A i \in 1..(n - 1) : w.buffer[i] = items[i + 1]
    BY <1>2, <1>3, <1>7, <2>1, HeadTail DEF Counts
  <2>3. f = 0 /\ b = 0 /\ ~t.taken /\ d + m = h
    BY ONLY <1>5, <1>12, <1>14, <1>16
  <2>4. w.handed[h + 1] = items[1] /\ At(w.handed, h + 1, w.buffer, n - 1)
    BY ONLY <1>5, <1>8, <1>11, <2>2, AtSplit
  <2>5. At(w.handed, d + m, w.fifo, 1)
    BY ONLY <2>2, <2>3, <2>4 DEF At
  <2>6. /\ At(w.handed, d + m + 1, w.buffer, n - 1)
        /\ d + m + 1 + (n - 1) <= l /\ d + m + 1 + (n - 1) = l /\ 1 # 0 /\ 1 <= 1
    BY ONLY <1>5, <1>8, <1>9, <2>3, <2>4
  <2>7. FlowOf(w, d, m, 1, n - 1, l, HasStream, FALSE)
    BY ONLY <1>10, <1>12, <1>13, <1>16, <2>1, <2>3, <2>5, <2>6 DEF FlowOf
  <2> QED
    BY ONLY <1>6, <1>10, <2>2, <2>7
<1>17. CASE ~Writing(t) /\ ~HasStream
  <2>1. /\ w.fifo = t.fifo /\ w.buffer = <<>>
        /\ w.dropped = t.dropped + Len(items) /\ w.acked = t.acked + Len(items)
    BY <1>17 DEF Hands
  <2>2. g = f /\ c = 0 /\ e = d + n /\ w.acked = t.acked + n
    BY <1>2, <1>3, <1>7, <2>1 DEF Counts
  <2>3. f = 0 /\ b = 0 /\ ~t.taken /\ m = 0 /\ d = h
    BY ONLY <1>5, <1>12, <1>17
  <2>4. /\ At(w.handed, d + n, w.remote, 0) /\ At(w.handed, d + n + 0, w.fifo, 0)
        /\ At(w.handed, d + n + 0 + 0, w.buffer, 0)
    BY ONLY AtEmpty
  <2>5. /\ d + n + 0 + 0 + 0 <= l /\ d + n + 0 + 0 + 0 = l /\ 0 <= 1
        /\ w.acked + UnderWay(w) = d + n + 0
    <3>1. PICK a, u : a = t.acked /\ u = UnderWay(t)
      OBVIOUS
    <3>2. a \in Nat /\ u \in Nat /\ a + u = d + 0 /\ w.acked = a + n /\ UnderWay(w) = u
      BY ONLY <1>5, <1>10, <1>12, <2>2, <2>3, <3>1
    <3>3. (a + n) + u = d + n + 0 /\ d + n + 0 + 0 + 0 = h + n /\ h + n \in Nat
      BY ONLY <1>5, <1>8, <2>3, <3>2
    <3> QED
      BY ONLY <1>9, <3>2, <3>3
  <2>6. FlowOf(w, d + n, 0, 0, 0, l, HasStream, FALSE)
    BY ONLY <1>10, <2>3, <2>4, <2>5 DEF FlowOf
  <2> QED
    BY ONLY <1>6, <1>10, <2>2, <2>3, <2>6
<1> QED
  BY <1>15, <1>16, <1>17

LEMMA WrittenAllFlow ==
  ASSUME FlowInv, NEW reply \in Seq(Items)
  PROVE  Flow(WrittenAll(tx, reply), HasStream, sock.destroyed)
<1>1. CASE sock.destroyed \/ reply = <<>>
  BY <1>1 DEF WrittenAll, FlowInv
<1>2. CASE ~(sock.destroyed \/ reply = <<>>)
  <2>1. Flow(tx, HasStream, FALSE)
    <3>1. sock.destroyed = FALSE \/ (sock.destroyed # FALSE /\ ~sock.destroyed)
      BY <1>2
    <3> QED
      BY <1>2, <3>1 DEF FlowInv, Flow, Accounted
  <2>2. tx \in TxType /\ (~Writing(tx) => tx.buffer = <<>>)
    BY <2>1 DEF Flow, OneAtATime
  <2>3. PICK w : w = Written(tx, reply)
    OBVIOUS
  <2>4. Hands(tx, reply, w)
    BY <1>2, <2>2, <2>3, WrittenHands
  <2>5. Flow(w, HasStream, FALSE)
    BY <1>2, <2>1, <2>4, HandsFlow
  <2>6. WrittenAll(tx, reply) = w
    BY <1>2, <2>3 DEF WrittenAll
  <2> QED
    BY <1>2, <2>5, <2>6 DEF Flow, Accounted
<1> QED
  BY <1>1, <1>2

\* The muxer takes the one item of the fifo.
LEMMA SinkTakesFlow ==
  ASSUME NEW t, NEW open \in BOOLEAN, NEW dead \in BOOLEAN, Flow(t, open, dead), t.fifo # <<>>,
         NEW w, w = [t EXCEPT !.remote = Append(@, Head(t.fifo)), !.fifo = Tail(@), !.taken = TRUE]
  PROVE  Flow(w, open, dead)
<1>1. t \in TxType /\ t.remote \in Seq(Items) /\ t.fifo \in Seq(Items)
  BY DEF Flow, TxType
<1>2. PICK r : r = Append(t.remote, t.fifo[1])
  OBVIOUS
<1>3. PICK q : q = Tail(t.fifo)
  OBVIOUS
<1>4. Len(t.fifo) = 1 /\ ~t.taken
  <2>1. Len(t.fifo) # 0 /\ Len(t.fifo) \in Nat
    BY <1>1, NoneLeft
  <2>2. Len(t.fifo) <= 1 /\ (t.taken => t.fifo = <<>>)
    BY DEF Flow, OneAtATime
  <2> QED
    <3>1. ~t.taken
      BY ONLY <2>2, t.fifo # <<>>
    <3>2. PICK n : n = Len(t.fifo)
      OBVIOUS
    <3>3. n \in Nat /\ n # 0 /\ n <= 1
      BY ONLY <2>1, <2>2, <3>2
    <3>4. n = 1
      BY ONLY <3>3
    <3> QED
      BY ONLY <3>1, <3>2, <3>4
<1>5. q \in Seq(Items) /\ q = <<>> /\ t.fifo[1] \in Items /\ Head(t.fifo) = t.fifo[1]
  BY <1>1, <1>3, <1>4
<1>6. /\ r \in Seq(Items) /\ Len(r) = Len(t.remote) + 1 /\ r[Len(t.remote) + 1] = t.fifo[1]
      /\ \A i \in 1..Len(t.remote) : r[i] = t.remote[i]
  BY <1>1, <1>2, <1>5
<1>7. w = [t EXCEPT !.remote = r, !.fifo = q, !.taken = TRUE]
  BY <1>1, <1>2, <1>3, <1>5 DEF TxType
<1>8. /\ w \in TxType /\ w.remote = r /\ w.fifo = q /\ w.taken = TRUE /\ w.handed = t.handed
      /\ w.dropped = t.dropped /\ w.buffer = t.buffer /\ w.acked = t.acked
  BY <1>1, <1>5, <1>6, <1>7 DEF TxType
<1>9. PICK d, m, f, b, h : Counts(t, d, m, f, b, h)
  BY DEF Counts
<1>10. /\ d \in Nat /\ m \in Nat /\ f \in Nat /\ b \in Nat /\ h \in Nat
       /\ t.acked \in Nat /\ FlowOf(t, d, m, f, b, h, open, dead) /\ f = 1
  BY <1>1, <1>4, <1>9, FlowNumbers DEF Counts
<1>11. Counts(w, d, m + 1, 0, b, h)
  <2>1. Len(q) = 0
    BY <1>5
  <2> QED
    BY ONLY <1>6, <1>8, <1>9, <2>1 DEF Counts
<1>12. /\ Alike(r, t.remote, m) /\ At(r, m, t.fifo, 1)
  <2>1. m = Len(t.remote)
    BY <1>9 DEF Counts
  <2> QED
    BY <1>6, <2>1 DEF Alike, At
<1>13. At(t.handed, d, r, m + 1)
  BY ONLY <1>10, <1>12, AtJoin DEF FlowOf
<1>14. UnderWay(t) = 0 /\ UnderWay(w) = 1
  BY <1>4, <1>8 DEF UnderWay
<1>15. /\ At(w.handed, d, w.remote, m + 1) /\ At(w.handed, d + (m + 1), w.fifo, 0)
       /\ At(w.handed, d + (m + 1) + 0, w.buffer, b)
  <2>1. d + (m + 1) + 0 = d + m + f
    BY ONLY <1>10
  <2> QED
    BY ONLY <1>8, <1>10, <1>13, <2>1, AtEmpty DEF FlowOf
<1>16. /\ d + (m + 1) + 0 + b <= h
       /\ ~dead => d + (m + 1) + 0 + b = h
       /\ dead => b = 0
       /\ w.acked + UnderWay(w) = d + (m + 1)
       /\ open
  BY ONLY <1>8, <1>10, <1>14, open \in BOOLEAN DEF FlowOf
<1>17. FlowOf(w, d, m + 1, 0, b, h, open, dead)
  BY ONLY <1>8, <1>15, <1>16 DEF FlowOf
<1> QED
  BY <1>8, <1>11, <1>17, FlowNumbers

\* The write is acknowledged, and nothing waits for its turn.
LEMMA AcknowledgedFlow ==
  ASSUME NEW t, NEW open \in BOOLEAN, NEW dead \in BOOLEAN, Flow(t, open, dead), t.taken,
         t.buffer = <<>>, NEW w, w = [t EXCEPT !.taken = FALSE, !.acked = @ + 1]
  PROVE  Flow(w, open, dead)
<1>1. t \in TxType /\ t.acked \in Nat
  BY DEF Flow, TxType
<1>2. /\ w \in TxType /\ w.remote = t.remote /\ w.fifo = t.fifo /\ w.taken = FALSE
      /\ w.handed = t.handed /\ w.dropped = t.dropped /\ w.buffer = t.buffer
      /\ w.acked = t.acked + 1
  <2>1. PICK a : a = t.acked + 1
    OBVIOUS
  <2>2. a \in Nat /\ w = [t EXCEPT !.taken = FALSE, !.acked = a]
    BY <1>1, <2>1 DEF TxType
  <2> QED
    BY <1>1, <2>1, <2>2 DEF TxType
<1>3. PICK d, m, f, b, h : Counts(t, d, m, f, b, h)
  BY DEF Counts
<1>4. /\ d \in Nat /\ m \in Nat /\ f \in Nat /\ b \in Nat /\ h \in Nat
      /\ FlowOf(t, d, m, f, b, h, open, dead) /\ b = 0
  BY <1>1, <1>3, FlowNumbers DEF Counts
<1>5. Counts(w, d, m, f, b, h)
  BY <1>2, <1>3 DEF Counts
<1>6. UnderWay(t) = 1 /\ UnderWay(w) = 0
  BY <1>2 DEF UnderWay
<1>7. FlowOf(w, d, m, f, b, h, open, dead)
  <2>1. w.acked + UnderWay(w) = d + m
    BY ONLY <1>1, <1>2, <1>4, <1>6 DEF FlowOf
  <2> QED
    BY ONLY <1>2, <1>4, <2>1 DEF FlowOf
<1> QED
  BY <1>2, <1>5, <1>7, FlowNumbers

\* ... and the next item of the Writable goes to the fifo.
LEMMA NextWriteFlow ==
  ASSUME NEW t, Flow(t, HasStream, FALSE), t.taken, t.buffer # <<>>,
         NEW w, w = StartWrite([[t EXCEPT !.taken = FALSE, !.acked = @ + 1] EXCEPT !.buffer = Tail(@)],
                               <<Head(t.buffer)>>)
  PROVE  Flow(w, HasStream, FALSE)
<1>1. t \in TxType /\ t.acked \in Nat /\ t.buffer \in Seq(Items) /\ HasStream
  BY DEF Flow, TxType, Writing
<1>2. PICK q : q = Tail(t.buffer)
  OBVIOUS
<1>3. PICK p : p = <<t.buffer[1]>>
  OBVIOUS
<1>4. PICK a : a = t.acked + 1
  OBVIOUS
<1>5. /\ q \in Seq(Items) /\ p \in Seq(Items) /\ Len(p) = 1 /\ p[1] = t.buffer[1]
      /\ <<Head(t.buffer)>> = p /\ Len(q) = Len(t.buffer) - 1 /\ Len(t.buffer) > 0
      /\ \A i \in 1..Len(q) : q[i] = t.buffer[i + 1]
  BY <1>1, <1>2, <1>3, HeadTail
<1>6. /\ Head(p) = t.buffer[1] /\ Tail(p) = <<>> /\ q \o <<>> = q
  <2>1. t.buffer[1] \in Items
    BY <1>1, HeadTail
  <2>2. Head(p) = t.buffer[1] /\ Tail(p) = <<>>
    BY <1>3, <2>1
  <2>3. q \o <<>> = q
    BY <1>5
  <2> QED
    BY <2>2, <2>3
<1>7. PICK v : v = [[t EXCEPT !.taken = FALSE, !.acked = @ + 1] EXCEPT !.buffer = Tail(@)]
  OBVIOUS
<1>8. /\ v \in TxType /\ v.remote = t.remote /\ v.fifo = t.fifo /\ v.taken = FALSE
      /\ v.handed = t.handed /\ v.dropped = t.dropped /\ v.buffer = q /\ v.acked = a
  <2>1. v = [t EXCEPT !.taken = FALSE, !.acked = a, !.buffer = q]
    BY <1>1, <1>2, <1>4, <1>7 DEF TxType
  <2>2. a \in Nat
    BY <1>1, <1>4
  <2> QED
    BY <1>1, <1>5, <2>1, <2>2 DEF TxType
<1>9. w = [v EXCEPT !.fifo = p, !.buffer = q]
  <2>1. w = StartWrite(v, p)
    BY <1>5, <1>7
  <2>2. w = [v EXCEPT !.fifo = <<Head(p)>>, !.buffer = @ \o Tail(p)]
    BY <1>1, <2>1 DEF StartWrite, HasStream
  <2>3. <<Head(p)>> = p
    BY <1>3, <1>6
  <2> QED
    BY <1>6, <1>8, <2>2, <2>3 DEF TxType
<1>10. /\ w \in TxType /\ w.remote = t.remote /\ w.fifo = p /\ w.taken = FALSE
       /\ w.handed = t.handed /\ w.dropped = t.dropped /\ w.buffer = q /\ w.acked = a
  BY <1>5, <1>8, <1>9 DEF TxType
<1>11. PICK d, m, f, b, h : Counts(t, d, m, f, b, h)
  BY DEF Counts
<1>12. /\ d \in Nat /\ m \in Nat /\ f \in Nat /\ b \in Nat /\ h \in Nat
       /\ FlowOf(t, d, m, f, b, h, HasStream, FALSE) /\ b > 0
  BY <1>1, <1>5, <1>11, FlowNumbers DEF Counts, HasStream
<1>13. Counts(w, d, m, 1, b - 1, h)
  BY <1>5, <1>10, <1>11 DEF Counts
<1>14. UnderWay(t) = 1 /\ UnderWay(w) = 0
  BY <1>10 DEF UnderWay
<1>15. f = 0 /\ d + m + b = h
  BY ONLY <1>12, t.taken DEF FlowOf
<1>16. At(t.handed, d + m, t.buffer, b)
  <2>1. d + m + f = d + m
    BY ONLY <1>12, <1>15
  <2> QED
    BY ONLY <1>12, <2>1 DEF FlowOf
<1>17. t.handed[d + m + 1] = t.buffer[1] /\ At(t.handed, d + m + 1, q, b - 1)
  <2>1. \A i \in 1..(b - 1) : q[i] = t.buffer[i + 1]
    BY <1>5, <1>11 DEF Counts
  <2>2. d + m \in Nat /\ b \in Nat /\ b > 0
    BY ONLY <1>12
  <2> QED
    BY ONLY <1>16, <2>1, <2>2, AtSplit
<1>18. At(t.handed, d + m, p, 1)
  BY ONLY <1>5, <1>17 DEF At
<1>19. FlowOf(w, d, m, 1, b - 1, h, HasStream, FALSE)
  <2>1. w.acked + UnderWay(w) = d + m
    BY ONLY <1>1, <1>4, <1>10, <1>12, <1>14 DEF FlowOf
  <2>2. d + m + 1 + (b - 1) <= h /\ d + m + 1 + (b - 1) = h /\ 1 <= 1 /\ 1 # 0
    BY ONLY <1>12, <1>15
  <2>3. At(t.handed, d, t.remote, m)
    BY ONLY <1>12 DEF FlowOf
  <2> QED
    BY ONLY <1>1, <1>10, <1>17, <1>18, <2>1, <2>2, <2>3 DEF FlowOf
<1>20. HasStream \in BOOLEAN /\ FALSE \in BOOLEAN
  BY DEF HasStream
<1>21. PICK g, c : g = 1 /\ c = b - 1
  OBVIOUS
<1>22. Counts(w, d, m, g, c, h) /\ FlowOf(w, d, m, g, c, h, HasStream, FALSE) /\ w \in TxType
  BY ONLY <1>10, <1>13, <1>19, <1>21
<1> QED
  BY ONLY <1>20, <1>22, FlowNumbers

\* A destroyed socket lets go of what waits.
LEMMA ReleasedFlow ==
  ASSUME NEW t, NEW open \in BOOLEAN, Flow(t, open, FALSE), NEW w, w = [t EXCEPT !.buffer = <<>>]
  PROVE  Flow(w, open, TRUE)
<1>1. t \in TxType
  BY DEF Flow
<1>2. PICK e : e = <<>> /\ e \in Seq(Items) /\ Len(e) = 0
  <2>1. <<>> \in Seq(Items) /\ Len(<<>>) = 0
    OBVIOUS
  <2> QED
    BY <2>1
<1>3. /\ w \in TxType /\ w.remote = t.remote /\ w.fifo = t.fifo /\ w.taken = t.taken
      /\ w.handed = t.handed /\ w.dropped = t.dropped /\ w.buffer = e /\ w.acked = t.acked
  BY <1>1, <1>2 DEF TxType
<1>4. PICK d, m, f, b, h : Counts(t, d, m, f, b, h)
  BY DEF Counts
<1>5. /\ d \in Nat /\ m \in Nat /\ f \in Nat /\ b \in Nat /\ h \in Nat
      /\ FlowOf(t, d, m, f, b, h, open, FALSE)
  BY <1>1, <1>4, FlowNumbers
<1>6. Counts(w, d, m, f, 0, h)
  BY <1>2, <1>3, <1>4 DEF Counts
<1>7. UnderWay(w) = UnderWay(t)
  BY <1>3 DEF UnderWay
<1>8. FlowOf(w, d, m, f, 0, h, open, TRUE)
  <2>1. d + m + f + 0 <= h
    BY ONLY <1>5 DEF FlowOf
  <2> QED
    BY ONLY <1>3, <1>5, <1>7, <2>1, AtEmpty DEF FlowOf
<1> QED
  BY <1>3, <1>6, <1>8, FlowNumbers

LEMMA EndedFlow ==
  ASSUME NEW t, NEW open, NEW dead, Flow(t, open, dead),
         NEW w, w = [t EXCEPT !.ended = TRUE]
  PROVE  Flow(w, open, dead)
<1>1. t \in TxType
  BY DEF Flow
<1>2. /\ w \in TxType /\ w.remote = t.remote /\ w.fifo = t.fifo /\ w.taken = t.taken
      /\ w.handed = t.handed /\ w.dropped = t.dropped /\ w.buffer = t.buffer
      /\ w.acked = t.acked
  BY <1>1 DEF TxType
<1> QED
  BY <1>2 DEF Flow, InPlace, Accounted, Account, OneAtATime, Acked, UnderWay, Writing

-----------------------------------------------------------------------------
(* 'close', and what becomes of the ticks *)

\* u holds no more 'close' than t, and is not the first to hold a 'written'.
Follows(t, u) ==
    /\ OneClose(t) => OneClose(u)
    /\ Queued(u, "close") => Queued(t, "close")

LEMMA FollowsAdded ==
  ASSUME NEW t \in Seq(ClientTick), NEW k \in ClientTick
  PROVE  /\ k # "close" => Follows(t, Append(t, k))
         /\ \A x \in ClientTick : x # k /\ Queued(Append(t, k), x) => Queued(t, x)
         /\ ~Queued(t, "close") => OneClose(Append(t, k))
<1>1. PICK u : u = Append(t, k)
  OBVIOUS
<1>2. /\ Len(u) = Len(t) + 1 /\ u[Len(t) + 1] = k /\ \A i \in 1..Len(t) : u[i] = t[i]
      /\ Len(t) \in Nat
  BY <1>1
<1>3. ASSUME NEW i \in 1..Len(u), u[i] # k PROVE i \in 1..Len(t)
  BY <1>2, <1>3
<1>4. ASSUME NEW i \in 1..Len(u), i \notin 1..Len(t) PROVE i = Len(t) + 1
  BY <1>2, <1>4
<1>5. k # "close" => Follows(t, u)
  BY <1>2, <1>3 DEF Follows, OneClose, Queued
<1>6. \A x \in ClientTick : x # k /\ Queued(u, x) => Queued(t, x)
  BY <1>2, <1>3 DEF Queued
<1>7. ~Queued(t, "close") => OneClose(u)
  BY <1>2, <1>4 DEF OneClose, Queued
<1> QED
  BY <1>1, <1>5, <1>6, <1>7

LEMMA FollowsTaken ==
  ASSUME NEW t \in Seq(ClientTick), t # <<>>
  PROVE  /\ Follows(t, Tail(t)) /\ Tail(t) \in Seq(ClientTick)
         /\ \A x \in ClientTick : Queued(Tail(t), x) => Queued(t, x)
         /\ \A x \in ClientTick : Head(t) = x => Queued(t, x)
         /\ OneClose(t) /\ Head(t) = "close" => ~Queued(Tail(t), "close")
<1>1. PICK u : u = Tail(t)
  OBVIOUS
<1>2. /\ u \in Seq(ClientTick) /\ Len(u) = Len(t) - 1 /\ Len(t) \in Nat /\ Len(t) > 0
      /\ \A i \in 1..Len(u) : u[i] = t[i + 1] /\ i + 1 \in 1..Len(t) /\ i + 1 # 1
      /\ \A i, j \in 1..Len(u) : i + 1 = j + 1 => i = j
      /\ Head(t) = t[1] /\ 1 \in 1..Len(t)
  BY <1>1
<1>3. OneClose(t) => OneClose(u)
  BY <1>2 DEF OneClose
<1>4. \A x \in ClientTick : Queued(u, x) => Queued(t, x)
  BY <1>2 DEF Queued
<1>5. \A x \in ClientTick : Head(t) = x => Queued(t, x)
  BY <1>2 DEF Queued
<1>6. OneClose(t) /\ Head(t) = "close" => ~Queued(u, "close")
  BY <1>2 DEF OneClose, Queued
<1>7. "close" \in ClientTick
  BY DEF ClientTick
<1> QED
  BY <1>1, <1>2, <1>3, <1>4, <1>5, <1>6, <1>7 DEF Follows

LEMMA FollowsWritten ==
  ASSUME NEW t \in Seq(ClientTick), NEW n \in Nat
  PROVE  Follows(t, t \o [i \in 1..n |-> "written"])
<1>1. PICK v : v = [i \in 1..n |-> "written"]
  OBVIOUS
<1>2. v \in Seq(ClientTick) /\ Len(v) = n /\ \A i \in 1..n : v[i] = "written"
  BY <1>1 DEF ClientTick
<1>3. PICK u : u = t \o v
  OBVIOUS
<1>4. /\ Len(u) = Len(t) + n /\ Len(t) \in Nat
      /\ \A i \in 1..Len(t) : u[i] = t[i]
      /\ \A i \in 1..n : u[Len(t) + i] = v[i]
  <2>0. Len(v) = n
    BY <1>2
  <2>1. t \in Seq(ClientTick) /\ v \in Seq(ClientTick)
    BY <1>2
  <2>2. /\ Len(u) = Len(t) + Len(v) /\ Len(t) \in Nat
        /\ \A i \in 1..Len(t) : u[i] = t[i]
        /\ \A i \in 1..Len(v) : u[Len(t) + i] = v[i]
    BY ONLY <1>3, <2>1, JoinedSeq
  <2> QED
    BY ONLY <2>0, <2>2
<1>5. ASSUME NEW i \in 1..Len(u), u[i] = "close" PROVE i \in 1..Len(t)
  <2> SUFFICES ASSUME i \notin 1..Len(t) PROVE FALSE
    OBVIOUS
  <2>1. PICK k : k = i - Len(t)
    OBVIOUS
  <2>2. k \in 1..n /\ i = Len(t) + k
    BY <1>4, <2>1
  <2> QED
    BY <1>2, <1>4, <1>5, <2>2
<1> QED
  BY <1>1, <1>3, <1>4, <1>5 DEF Follows, OneClose, Queued

SockKept(s, r) == r \in SockType /\ r.destroyed = s.destroyed /\ r.closes = s.closes

LEMMA CloseKept ==
  ASSUME CloseInv, SockKept(sock, sock'), Follows(ticks, ticks') PROVE CloseInv'
BY DEF CloseInv, SockKept, Follows

LEMMA SameKept ==
  ASSUME CloseInv PROVE SockKept(sock, sock) /\ Follows(ticks, ticks)
BY DEF CloseInv, SockKept, Follows

LEMMA MoreErrors ==
  ASSUME NEW n \in 0..2 PROVE (IF n = 2 THEN 2 ELSE n + 1) \in 0..2
OBVIOUS

LEMMA AfterErrorKept ==
  ASSUME NEW s \in SockType PROVE SockKept(s, AfterError(s))
<1>1. PICK n : n = (IF s.errors = 2 THEN 2 ELSE s.errors + 1)
  OBVIOUS
<1>2. n \in 0..2
  BY <1>1, MoreErrors DEF SockType
<1>3. AfterError(s) \in {[s EXCEPT !.errors = n], [s EXCEPT !.uncaught = TRUE]}
  BY <1>1 DEF AfterError, SockType
<1> QED
  BY <1>2, <1>3 DEF SockKept, SockType

LEMMA AfterReplyKept ==
  ASSUME NEW s \in SockType, NEW reply PROVE SockKept(s, AfterReply(s, reply))
<1>1. AfterReply(s, reply) \in {s, AfterError(s)}
  BY DEF AfterReply
<1>2. SockKept(s, s)
  BY DEF SockKept
<1> QED
  BY <1>1, <1>2, AfterErrorKept

\* A second destroy() adds an 'error' tick at most.
LEMMA SecondDestroy ==
  ASSUME CloseInv, ticks \in Seq(ClientTick), NEW failed \in BOOLEAN, DestroyWith(failed),
         sock.destroyed
  PROVE  /\ UNCHANGED <<sock, stream, tx>> /\ SockKept(sock, sock') /\ Follows(ticks, ticks')
         /\ Queued(ticks', "written") => Queued(ticks, "written")
<1>1. UNCHANGED <<sock, stream, tx>> /\ (ticks' = ticks \/ ticks' = Append(ticks, "error"))
  BY DEF DestroyWith
<1>2. SockKept(sock, sock') /\ Follows(ticks, ticks)
  BY <1>1, SameKept DEF SockKept
<1>3. /\ "error" \in ClientTick /\ "written" \in ClientTick /\ "written" # "error"
      /\ "error" # "close"
  BY DEF ClientTick
<1>4. /\ Follows(ticks, Append(ticks, "error"))
      /\ Queued(Append(ticks, "error"), "written") => Queued(ticks, "written")
  BY ONLY <1>3, ticks \in Seq(ClientTick), FollowsAdded
<1> QED
  BY <1>1, <1>2, <1>4

LEMMA DestroyWithClose ==
  ASSUME CloseInv, ticks \in Seq(ClientTick), NEW failed \in BOOLEAN, DestroyWith(failed)
  PROVE  CloseInv'
<1>1. CASE sock.destroyed
  BY <1>1, SecondDestroy, CloseKept
<1>2. CASE ~sock.destroyed
  <2>1. ~Queued(ticks, "close") /\ sock.closes = 0
    BY <1>2 DEF CloseInv
  <2>2. sock' \in SockType /\ sock'.destroyed = TRUE /\ sock'.closes = sock.closes
    BY <1>2 DEF CloseInv, SockType, DestroyWith
  <2>3. ticks' = Append(ticks, "close") /\ "close" \in ClientTick
    BY <1>2 DEF DestroyWith, ClientTick
  <2>4. OneClose(ticks')
    BY <2>1, <2>3, FollowsAdded
  <2> QED
    BY <2>1, <2>2, <2>4 DEF CloseInv
<1> QED
  BY <1>1, <1>2

LEMMA EmitCloseClose ==
  ASSUME CloseInv, ticks \in Seq(ClientTick), EmitClose
  PROVE  CloseInv' /\ sock'.destroyed = sock.destroyed
<1>1. ticks # <<>> /\ Head(ticks) = "close" /\ ticks' = Tail(ticks)
  BY DEF EmitClose
<1>2. Queued(ticks, "close") /\ ~Queued(ticks', "close") /\ OneClose(ticks')
  <2>1. "close" \in ClientTick
    BY DEF ClientTick
  <2> QED
    BY <1>1, <2>1, FollowsTaken DEF CloseInv, Follows
<1>3. sock.destroyed /\ sock.closes = 0 /\ sock \in SockType
  BY <1>2 DEF CloseInv
<1>4. sock' \in SockType /\ sock'.destroyed = sock.destroyed
  <2>1. PICK n : n = (IF sock.errors = 2 THEN 2 ELSE sock.errors + 1)
    OBVIOUS
  <2>2. PICK c : c = sock.closes + 1
    OBVIOUS
  <2>3. n \in 0..2 /\ c \in 0..1
    BY <1>3, <2>1, <2>2, MoreErrors DEF SockType
  <2>4. sock' \in {[[sock EXCEPT !.errors = n] EXCEPT !.closes = c], [sock EXCEPT !.uncaught = TRUE],
                   [sock EXCEPT !.closes = c]}
    BY <1>3, <2>1, <2>2 DEF EmitClose, AfterCloseTick, SockType
  <2>5. PICK e : e = [sock EXCEPT !.errors = n]
    OBVIOUS
  <2>6. e \in SockType /\ e.destroyed = sock.destroyed
    BY <1>3, <2>3, <2>5 DEF SockType
  <2>7. [e EXCEPT !.closes = c] \in SockType /\ [e EXCEPT !.closes = c].destroyed = sock.destroyed
    BY <2>3, <2>6 DEF SockType
  <2>8. /\ [sock EXCEPT !.uncaught = TRUE] \in SockType
        /\ [sock EXCEPT !.uncaught = TRUE].destroyed = sock.destroyed
    BY ONLY <1>3 DEF SockType
  <2>9. /\ [sock EXCEPT !.closes = c] \in SockType
        /\ [sock EXCEPT !.closes = c].destroyed = sock.destroyed
    BY ONLY <1>3, <2>3 DEF SockType
  <2> QED
    BY ONLY <2>4, <2>5, <2>7, <2>8, <2>9
<1> QED
  BY <1>2, <1>3, <1>4 DEF CloseInv

-----------------------------------------------------------------------------
(* The ways of the writes, of 'close' and of the dial together *)

SocketInv == FlowInv /\ CloseInv /\ ArrivedOpen

\* What becomes of a socket in the steps that neither write to it nor read.
Calm == /\ tx'.handed = tx.handed /\ tx'.dropped = tx.dropped
        /\ sock.destroyed => sock'.destroyed
        /\ HasStream => HasStream'
        /\ \A k \in {"written"} : Queued(ticks', k) => Queued(ticks, k)

\* Only the socket's counts, the ticks or the dial change.
LEMMA IdleInv ==
  ASSUME SocketInv, UNCHANGED <<stream, tx>>, SockKept(sock, sock'), Follows(ticks, ticks'),
         dial'.awaiting \in Arrived => dial.awaiting \in Arrived
  PROVE  SocketInv'
<1>1. CloseInv'
  BY CloseKept DEF SocketInv
<1>2. FlowInv' /\ ArrivedOpen'
  BY DEF SocketInv, FlowInv, ArrivedOpen, HasStream, SockKept, Flow, InPlace, Accounted, Account,
         OneAtATime, Acked, UnderWay, Writing
<1> QED
  BY <1>1, <1>2 DEF SocketInv

\* The listeners write.
LEMMA ReplyInv ==
  ASSUME SocketInv, UNCHANGED stream, NEW reply \in Seq(Items), tx' = WrittenAll(tx, reply),
         SockKept(sock, sock'), Follows(ticks, ticks'),
         dial'.awaiting \in Arrived => dial.awaiting \in Arrived
  PROVE  SocketInv'
<1>1. CloseInv'
  BY CloseKept DEF SocketInv
<1>2. Flow(tx', HasStream, sock.destroyed)
  BY WrittenAllFlow DEF SocketInv
<1>3. HasStream' = HasStream /\ sock'.destroyed = sock.destroyed
  BY DEF HasStream, SockKept
<1>4. FlowInv' = Flow(tx', HasStream', sock'.destroyed)
  BY DEF FlowInv, Flow, InPlace, Accounted, Account, OneAtATime, Acked, UnderWay, Writing
<1>5. ArrivedOpen'
  BY <1>3 DEF SocketInv, ArrivedOpen
<1> QED
  BY <1>1, <1>2, <1>3, <1>4, <1>5 DEF SocketInv

LEMMA DestroyInv ==
  ASSUME SocketInv, ticks \in Seq(ClientTick), NEW failed \in BOOLEAN, DestroyWith(failed),
         stream \in StreamType,
         dial'.awaiting \in Arrived => dial.awaiting \in Arrived
  PROVE  SocketInv' /\ Calm
<1>1. CloseInv'
  BY DestroyWithClose DEF SocketInv
<1>2. CASE sock.destroyed
  <2>1. /\ UNCHANGED <<sock, stream, tx>> /\ SockKept(sock, sock') /\ Follows(ticks, ticks')
        /\ Queued(ticks', "written") => Queued(ticks, "written")
    BY <1>2, SecondDestroy DEF SocketInv
  <2>3. Calm
    BY <2>1 DEF Calm, HasStream
  <2> QED
    BY <2>1, <2>3, IdleInv
<1>3. CASE ~sock.destroyed
  <2>1. tx' = [tx EXCEPT !.buffer = <<>>] /\ ticks' = Append(ticks, "close")
    BY <1>3 DEF DestroyWith
  <2>2. sock'.destroyed = TRUE
    BY <1>3 DEF DestroyWith, SocketInv, CloseInv, SockType
  <2>3. HasStream' = HasStream /\ HasStream \in BOOLEAN
    BY <1>3 DEF DestroyWith, HasStream, StreamType
  <2>4. Flow(tx, HasStream, FALSE)
    BY <1>3 DEF SocketInv, FlowInv, Flow, Accounted
  <2>5. Flow(tx', HasStream, TRUE)
    BY <2>1, <2>3, <2>4, ReleasedFlow
  <2>6. FlowInv'
    BY <2>2, <2>3, <2>5 DEF FlowInv, Flow, InPlace, Accounted, Account, OneAtATime, Acked, UnderWay,
                            Writing
  <2>7. tx'.handed = tx.handed /\ tx'.dropped = tx.dropped
    BY <2>1, <2>4 DEF Flow, TxType
  <2>8. Queued(ticks', "written") => Queued(ticks, "written")
    <3>1. "close" \in ClientTick /\ "written" \in ClientTick /\ "written" # "close"
      BY DEF ClientTick
    <3> QED
      BY ONLY <2>1, <3>1, ticks \in Seq(ClientTick), FollowsAdded
  <2> QED
    BY <1>1, <2>2, <2>3, <2>6, <2>7, <2>8 DEF Calm, SocketInv, ArrivedOpen
<1> QED
  BY <1>2, <1>3

LEMMA SinkTakesInv ==
  ASSUME SocketInv, SinkTakes PROVE SocketInv' /\ Calm
<1>1. Flow(tx, HasStream, sock.destroyed) /\ HasStream \in BOOLEAN /\ sock.destroyed \in BOOLEAN
  BY DEF SocketInv, FlowInv, HasStream, CloseInv, SockType
<1>2. Flow(tx', HasStream, sock.destroyed)
  BY <1>1, SinkTakesFlow DEF SinkTakes
<1>3. UNCHANGED <<sock, dial, stream, ticks>>
  BY DEF SinkTakes
<1>4. FlowInv'
  BY <1>2, <1>3 DEF FlowInv, Flow, InPlace, Accounted, Account, OneAtATime, Acked, UnderWay, Writing,
                    HasStream
<1>5. CloseInv' /\ ArrivedOpen'
  BY <1>3 DEF SocketInv, CloseInv, OneClose, Queued, ArrivedOpen, HasStream
<1>6. tx'.handed = tx.handed /\ tx'.dropped = tx.dropped
  BY <1>1 DEF SinkTakes, Flow, TxType
<1> QED
  BY <1>3, <1>4, <1>5, <1>6 DEF Calm, SocketInv, HasStream, Queued

LEMMA WriteDoneInv ==
  ASSUME SocketInv, WriteDone PROVE SocketInv' /\ Calm
<1>1. Flow(tx, HasStream, sock.destroyed) /\ HasStream \in BOOLEAN /\ sock.destroyed \in BOOLEAN
      /\ HasStream /\ tx \in TxType /\ tx.taken
  BY DEF SocketInv, FlowInv, HasStream, CloseInv, SockType, WriteDone, Flow, Writing
<1>2. PICK t : t = [tx EXCEPT !.taken = FALSE, !.acked = @ + 1]
  OBVIOUS
<1>3. UNCHANGED <<sock, dial, stream, ticks>>
  BY DEF WriteDone
<1>4. t.handed = tx.handed /\ t.dropped = tx.dropped
  BY <1>1, <1>2 DEF TxType
<1>5. Flow(tx', HasStream, sock.destroyed) /\ tx'.handed = tx.handed /\ tx'.dropped = tx.dropped
  <2>1. CASE sock.destroyed \/ tx.buffer = <<>>
    <3>1. tx' = t
      BY <1>2, <2>1 DEF WriteDone
    <3>2. tx.buffer = <<>>
      BY <1>1, <2>1 DEF Flow, Accounted
    <3> QED
      BY <1>1, <1>2, <1>4, <3>1, <3>2, AcknowledgedFlow
  <2>2. CASE ~(sock.destroyed \/ tx.buffer = <<>>)
    <3>1. tx' = StartWrite([t EXCEPT !.buffer = Tail(@)], <<Head(tx.buffer)>>)
      BY <1>2, <2>2 DEF WriteDone
    <3>2. Flow(tx, HasStream, FALSE)
      BY <1>1, <2>2 DEF Flow, Accounted
    <3>3. Flow(tx', HasStream, FALSE)
      BY <1>1, <1>2, <2>2, <3>1, <3>2, NextWriteFlow
    <3>4. tx'.handed = tx.handed /\ tx'.dropped = tx.dropped
      <4>1. PICK u : u = [t EXCEPT !.buffer = Tail(@)]
        OBVIOUS
      <4>2. u.handed = tx.handed /\ u.dropped = tx.dropped /\ DOMAIN u = DOMAIN tx
        BY <1>1, <1>2, <1>4, <4>1 DEF TxType
      <4>3. DOMAIN tx = {"handed", "dropped", "buffer", "fifo", "taken", "acked", "remote", "ended"}
        BY <1>1 DEF TxType
      <4>4. tx' = [u EXCEPT !.fifo = <<Head(<<Head(tx.buffer)>>)>>, !.buffer = @ \o Tail(<<Head(tx.buffer)>>)]
        BY <1>1, <3>1, <4>1 DEF StartWrite, HasStream
      <4> QED
        BY <4>2, <4>3, <4>4
    <3> QED
      BY <2>2, <3>3, <3>4 DEF Flow, Accounted
  <2> QED
    BY <2>1, <2>2
<1>6. FlowInv'
  BY <1>3, <1>5 DEF FlowInv, Flow, InPlace, Accounted, Account, OneAtATime, Acked, UnderWay, Writing,
                    HasStream
<1>7. CloseInv' /\ ArrivedOpen'
  BY <1>3 DEF SocketInv, CloseInv, OneClose, Queued, ArrivedOpen, HasStream
<1> QED
  BY <1>3, <1>5, <1>6, <1>7 DEF Calm, SocketInv, HasStream, Queued

LEMMA EndSocketInv ==
  ASSUME SocketInv, EndSocket PROVE SocketInv' /\ Calm
<1>1. Flow(tx', HasStream, sock.destroyed)
  BY EndedFlow DEF SocketInv, FlowInv, EndSocket
<1>2. UNCHANGED <<sock, dial, stream, ticks>>
  BY DEF EndSocket
<1>3. FlowInv'
  BY <1>1, <1>2 DEF FlowInv, Flow, InPlace, Accounted, Account, OneAtATime, Acked, UnderWay, Writing,
                    HasStream
<1>4. CloseInv' /\ ArrivedOpen'
  BY <1>2 DEF SocketInv, CloseInv, OneClose, Queued, ArrivedOpen, HasStream
<1>5. tx'.handed = tx.handed /\ tx'.dropped = tx.dropped
  BY DEF EndSocket, SocketInv, FlowInv, Flow, TxType
<1> QED
  BY <1>2, <1>3, <1>4, <1>5 DEF Calm, SocketInv, HasStream, Queued

\* The dial arrives: the stream is there from now on.
LEMMA StreamOpensInv ==
  ASSUME DialInv, SocketInv, StreamOpens PROVE SocketInv' /\ Calm
<1>0. ticks \in Seq(ClientTick) /\ stream \in StreamType /\ Path(dial) /\ dial.awaiting = "stream"
  BY DEF DialInv, StreamOpens, Awaits
<1>1. CASE /\ dial' = [dial EXCEPT !.awaiting = "emitting"]
           /\ stream' = [stream EXCEPT !.state = "open", !.sink = TRUE]
           /\ ticks' = Append(ticks, "connect")
           /\ UNCHANGED <<sock, tx, rx>>
  <2>1. HasStream'
    BY <1>0, <1>1 DEF HasStream, StreamType
  <2>2. FlowInv' /\ ArrivedOpen'
    BY <1>1, <2>1 DEF SocketInv, FlowInv, ArrivedOpen, Flow, InPlace, Accounted, Account, OneAtATime,
                      Acked, UnderWay, Writing
  <2>3. "connect" \in ClientTick /\ "written" \in ClientTick /\ "connect" # "close"
        /\ "written" # "connect"
    BY DEF ClientTick
  <2>4. Follows(ticks, ticks') /\ (Queued(ticks', "written") => Queued(ticks, "written"))
    BY <1>0, <1>1, <2>3, FollowsAdded
  <2>5. CloseInv'
    BY <1>1, <2>4, SameKept, CloseKept DEF SocketInv
  <2> QED
    BY <1>1, <2>1, <2>2, <2>4, <2>5 DEF SocketInv, Calm
<1>2. CASE ConnectFails(dial.relays)
  <2>1. dial'.awaiting = "failed" /\ DestroyWith(TRUE)
    BY <1>0, <1>2 DEF ConnectFails, Path, DialType
  <2> QED
    BY <1>0, <2>1, DestroyInv DEF Arrived
<1> QED
  BY <1>1, <1>2 DEF StreamOpens

\* The other steps of the dial: it goes on, or it fails.
LEMMA DialMovesInv ==
  ASSUME DialInv, SocketInv,
         \/ Connect \/ DialResolves \/ RelayStreamOpens \/ RelayAnswers \/ UpgradeResolves
         \/ AwaitRejects
  PROVE  SocketInv' /\ Calm
<1>0. ticks \in Seq(ClientTick) /\ stream \in StreamType /\ dial \in DialType
  BY DEF DialInv, Path
<1>1. CASE \E relays : ConnectFails(relays)
  <2>1. dial'.awaiting = "failed" /\ DestroyWith(TRUE)
    BY <1>0, <1>1 DEF ConnectFails, DialType
  <2> QED
    BY <1>0, <2>1, DestroyInv DEF Arrived
<1>2. CASE \E relays : HopFrom(relays) \/ \E p \in {"dial", "relayAnswer", "upgrade"} : Await(p, relays)
  <2>1. dial'.awaiting \notin Arrived
    BY <1>0, <1>2 DEF HopFrom, Await, DialType, Arrived
  <2>2. UNCHANGED <<sock, stream, tx, ticks>>
    BY <1>2 DEF HopFrom, Await
  <2>3. SockKept(sock, sock') /\ Follows(ticks, ticks')
    BY <2>2, SameKept DEF SocketInv
  <2>4. SocketInv'
    BY <2>1, <2>2, <2>3, IdleInv
  <2> QED
    BY <2>2, <2>4 DEF Calm, HasStream, Queued
<1> QED
  BY <1>1, <1>2 DEF Connect, DialResolves, RelayStreamOpens, RelayAnswers, UpgradeResolves, AwaitRejects

\* The error of a second destroy().
LEMMA EmitErrorInv ==
  ASSUME SocketInv, ticks \in Seq(ClientTick), EmitError PROVE SocketInv' /\ Calm
<1>1. /\ ticks # <<>> /\ ticks' = Tail(ticks) /\ sock' = AfterError(sock)
      /\ UNCHANGED <<dial, stream, tx>>
  BY DEF EmitError
<1>2. "written" \in ClientTick
  BY DEF ClientTick
<1>3. Follows(ticks, ticks') /\ (Queued(ticks', "written") => Queued(ticks, "written"))
  BY <1>1, <1>2, FollowsTaken
<1>4. SockKept(sock, sock')
  BY <1>1, AfterErrorKept DEF SocketInv, CloseInv
<1>5. SocketInv'
  BY <1>1, <1>3, <1>4, IdleInv
<1>6. Calm
  BY <1>1, <1>3, <1>4 DEF Calm, HasStream, SockKept
<1> QED
  BY <1>5, <1>6

LEMMA SocketStepsInv ==
  ASSUME DialInv, SocketInv, SocketSteps PROVE SocketInv' /\ Calm /\ UNCHANGED rx
<1>0. ticks \in Seq(ClientTick) /\ stream \in StreamType
  BY DEF DialInv
<1>1. CASE DestroySocket \/ AutoDestroy
  <2>1. DestroyWith(FALSE) /\ UNCHANGED <<dial, rx>>
    BY <1>1 DEF DestroySocket, AutoDestroy
  <2> QED
    BY <1>0, <2>1, DestroyInv
<1>2. CASE PeerResets
  <2>1. UNCHANGED <<sock, dial, tx, rx, ticks>> /\ HasStream' /\ HasStream
    BY <1>0, <1>2 DEF PeerResets, HasStream, StreamType
  <2>2. FlowInv' /\ CloseInv' /\ ArrivedOpen'
    BY <2>1 DEF SocketInv, CloseInv, OneClose, Queued, ArrivedOpen, FlowInv, Flow, InPlace, Accounted,
                Account, OneAtATime, Acked, UnderWay, Writing
  <2> QED
    BY <2>1, <2>2 DEF Calm, SocketInv, Queued
<1>3. UNCHANGED rx
  BY DEF SocketSteps, Connect, DialResolves, RelayStreamOpens, RelayAnswers, UpgradeResolves,
         StreamOpens, AwaitRejects, SinkTakes, WriteDone, DestroySocket, AutoDestroy, EmitError,
         PeerResets, HopFrom, Await, ConnectFails
<1> QED
  BY <1>0, <1>1, <1>2, <1>3, EmitErrorInv, SinkTakesInv, WriteDoneInv, StreamOpensInv, DialMovesInv
     DEF SocketSteps

-----------------------------------------------------------------------------
(* The numbers of the chunks *)

LEMMA RunsLonger ==
  ASSUME NEW n \in Nat, NEW k \in Nat, NEW q, NEW r, Runs(q, n, k), Alike(r, q, n),
         r[n + 1] = k + n + 1
  PROVE  Runs(r, n + 1, k)
<1> SUFFICES ASSUME NEW i \in 1..(n + 1) PROVE r[i] = k + i
  BY DEF Runs
<1>1. CASE i \in 1..n
  BY <1>1 DEF Runs, Alike
<1>2. CASE i \notin 1..n
  <2>1. i = n + 1
    BY <1>2
  <2> QED
    BY <2>1
<1> QED
  BY <1>1, <1>2

LEMMA RunsJoin ==
  ASSUME NEW n \in Nat, NEW m \in Nat, NEW k \in Nat, NEW a, NEW b, NEW c,
         Runs(a, n, k), Runs(b, m, k + n), Alike(c, a, n), At(c, n, b, m)
  PROVE  Runs(c, n + m, k)
<1> SUFFICES ASSUME NEW i \in 1..(n + m) PROVE c[i] = k + i
  BY DEF Runs
<1>1. CASE i \in 1..n
  BY <1>1 DEF Runs, Alike
<1>2. CASE i \notin 1..n
  <2>1. PICK j : j = i - n
    OBVIOUS
  <2>2. j \in 1..m /\ i = n + j /\ (k + n) + j = k + i
    BY <1>2, <2>1
  <2> QED
    BY <2>2 DEF At, Runs
<1> QED
  BY <1>1, <1>2

LEMMA RunsTail ==
  ASSUME NEW n \in Nat, n > 0, NEW k \in Nat, NEW a, NEW b, Runs(a, n, k),
         \A i \in 1..(n - 1) : b[i] = a[i + 1]
  PROVE  a[1] = k + 1 /\ Runs(b, n - 1, k + 1)
<1>1. a[1] = k + 1
  BY DEF Runs
<1>2. ASSUME NEW i \in 1..(n - 1) PROVE b[i] = k + 1 + i
  <2>1. i + 1 \in 1..n /\ k + (i + 1) = k + 1 + i
    OBVIOUS
  <2> QED
    BY <2>1 DEF Runs
<1> QED
  BY <1>1, <1>2 DEF Runs

LEMMA RunsEmpty ==
  ASSUME NEW q, NEW k PROVE Runs(q, 0, k)
BY DEF Runs

\* NumbersOK, in the lengths s, p and b.
NumbersOf(t, s, p, b) ==
    /\ Runs(t.sent, s, 0) /\ Runs(t.pending, p, s) /\ Runs(t.buffer, b, s + p)
    /\ ~t.destroyed => t.written = s + p + b
    /\ t.destroyed \/ ~t.writing => b = 0
    /\ t.secure => p = 0
    /\ ~t.secure => s = 0

Lengths(t, s, p, b) == s = Len(t.sent) /\ p = Len(t.pending) /\ b = Len(t.buffer)

LEMMA NumbersLengths ==
  ASSUME NEW t \in TlsType, NEW s, NEW p, NEW b, Lengths(t, s, p, b)
  PROVE  /\ s \in Nat /\ p \in Nat /\ b \in Nat /\ t.written \in Nat
         /\ NumbersOK(t) <=> NumbersOf(t, s, p, b)
<1>1. /\ t.sent \in Seq(1..Chunks) /\ t.pending \in Seq(1..Chunks) /\ t.buffer \in Seq(1..Chunks)
      /\ t.written \in Nat
  BY TlsAssumption DEF TlsType, TlsAssumption
<1>2. /\ t.sent = <<>> <=> s = 0
      /\ t.pending = <<>> <=> p = 0
      /\ t.buffer = <<>> <=> b = 0
  BY <1>1, NoneLeft DEF Lengths
<1>3. s \in Nat /\ p \in Nat /\ b \in Nat
  BY <1>1 DEF Lengths
<1>4. Lengths(t, s, p, b)
  OBVIOUS
<1> QED
  BY ONLY <1>1, <1>2, <1>3, <1>4 DEF NumbersOK, NumbersOf, Lengths

\* _writePending: the chunks of _chunks are encrypted.
LEMMA FlushNumbers ==
  ASSUME NEW t \in TlsType, NumbersOK(t), NEW f, f = Flush(t)
  PROVE  /\ f \in TlsType /\ Len(f.sent) = Len(t.sent) + Len(t.pending) /\ f.pending = <<>>
         /\ Runs(f.sent, Len(f.sent), 0)
         /\ Runs(f.buffer, Len(f.buffer), Len(f.sent))
         /\ f.buffer = t.buffer /\ f.destroyed = t.destroyed /\ f.writing = t.writing
         /\ f.written = t.written /\ f.phase = t.phase /\ f.options = t.options /\ f.used = t.used
         /\ f.secure = t.secure
<1>1. t.sent \in Seq(1..Chunks) /\ t.pending \in Seq(1..Chunks) /\ t.buffer \in Seq(1..Chunks)
  BY DEF TlsType
<1>2. PICK q : q = t.sent \o t.pending
  OBVIOUS
<1>3. q \in Seq(1..Chunks)
  BY <1>1, <1>2, JoinedSeq
<1>4. PICK e : e = <<>> /\ e \in Seq(1..Chunks) /\ Len(e) = 0
  <2>1. <<>> \in Seq(1..Chunks) /\ Len(<<>>) = 0
    OBVIOUS
  <2> QED
    BY <2>1
<1>5. f = [t EXCEPT !.sent = q, !.pending = e]
  BY <1>2, <1>4 DEF Flush
<1>6. /\ f \in TlsType /\ f.sent = q /\ f.pending = e
      /\ f.buffer = t.buffer /\ f.destroyed = t.destroyed /\ f.writing = t.writing
      /\ f.written = t.written /\ f.phase = t.phase /\ f.options = t.options /\ f.used = t.used
      /\ f.secure = t.secure
  BY <1>3, <1>4, <1>5 DEF TlsType
<1>7. PICK s, p, b : Lengths(t, s, p, b)
  BY DEF Lengths
<1>8. s \in Nat /\ p \in Nat /\ b \in Nat /\ NumbersOf(t, s, p, b)
  BY <1>7, NumbersLengths
<1>9. Len(q) = s + p /\ Alike(q, t.sent, s) /\ At(q, s, t.pending, p)
  <2>1. /\ Len(q) = Len(t.sent) + Len(t.pending)
        /\ \A i \in 1..Len(t.sent) : q[i] = t.sent[i]
        /\ \A i \in 1..Len(t.pending) : q[Len(t.sent) + i] = t.pending[i]
    <3>1. PICK x, y : x = t.sent /\ y = t.pending
      OBVIOUS
    <3>2. x \in Seq(1..Chunks)
      BY <1>1, <3>1
    <3>3. y \in Seq(1..Chunks)
      BY <1>1, <3>1
    <3>4. q = x \o y
      BY <1>2, <3>1
    <3>5. /\ Len(q) = Len(x) + Len(y)
          /\ \A i \in 1..Len(x) : q[i] = x[i]
          /\ \A i \in 1..Len(y) : q[Len(x) + i] = y[i]
      BY ONLY <3>2, <3>3, <3>4, JoinedSeq
    <3> QED
      BY ONLY <3>1, <3>5
  <2> QED
    BY ONLY <1>7, <2>1 DEF Lengths, Alike, At
<1>10. Runs(q, s + p, 0)
  <2>1. 0 \in Nat /\ 0 + s = s
    BY <1>8
  <2> QED
    BY ONLY <1>8, <1>9, <2>1, RunsJoin DEF NumbersOf
<1>11. Runs(t.buffer, b, s + p)
  BY ONLY <1>8 DEF NumbersOf
<1> QED
  BY ONLY <1>4, <1>6, <1>7, <1>9, <1>10, <1>11 DEF Lengths

-----------------------------------------------------------------------------
(* The application data among what is handed over *)

LEMMA AppsSame ==
  ASSUME NEW h, NEW g, NEW n \in Nat, NEW i \in 1..n, Alike(g, h, n)
  PROVE  AppsIn(g, i) = AppsIn(h, i)
<1>1. {j \in 1..i : IsApp(g[j])} = {j \in 1..i : IsApp(h[j])}
  BY DEF Alike
<1> QED
  BY <1>1 DEF AppsIn

LEMMA AppsFinite ==
  ASSUME NEW h, NEW n \in Nat
  PROVE  IsFiniteSet({j \in 1..n : IsApp(h[j])}) /\ AppsIn(h, n) \in Nat
<1>1. IsFiniteSet(1..n) /\ {j \in 1..n : IsApp(h[j])} \subseteq 1..n
  BY FS_Interval
<1>2. IsFiniteSet({j \in 1..n : IsApp(h[j])})
  BY <1>1, FS_Subset
<1> QED
  BY <1>2, FS_CardinalityType DEF AppsIn

\* After n elements m more that are application data, or one that is not.
LEMMA AppsMore ==
  ASSUME NEW h, NEW n \in Nat, NEW m \in Nat, \A i \in 1..m : IsApp(h[n + i])
  PROVE  AppsIn(h, n + m) = AppsIn(h, n) + m
<1>1. PICK a : a = {j \in 1..n : IsApp(h[j])}
  OBVIOUS
<1>2. PICK c : c = (n + 1)..(n + m)
  OBVIOUS
<1>3. {j \in 1..(n + m) : IsApp(h[j])} = a \cup c
  <2>1. ASSUME NEW j \in c PROVE IsApp(h[j]) /\ j \in 1..(n + m)
    <3>1. PICK i : i = j - n
      OBVIOUS
    <3>2. i \in 1..m /\ j = n + i
      BY <1>2, <3>1
    <3> QED
      BY <1>2, <3>2
  <2> QED
    BY <1>1, <1>2, <2>1
<1>4. a \cap c = {}
  BY <1>1, <1>2
<1>5. IsFiniteSet(a) /\ IsFiniteSet(c) /\ Cardinality(c) = m
  <2>1. IsFiniteSet(a)
    BY <1>1, AppsFinite
  <2>2. PICK x, y : x = n + 1 /\ y = n + m
    OBVIOUS
  <2>3. x \in Int /\ y \in Int /\ (x > y => m = 0) /\ y - x + 1 = m
    BY <2>2
  <2>4. IsFiniteSet(x..y) /\ Cardinality(x..y) = (IF x > y THEN 0 ELSE y - x + 1)
    BY <2>3, FS_Interval
  <2>5. Cardinality(x..y) = m
    BY ONLY <2>3, <2>4
  <2> QED
    BY ONLY <1>2, <2>1, <2>2, <2>4, <2>5
<1>6. Cardinality(a \cup c) = Cardinality(a) + Cardinality(c) - Cardinality(a \cap c)
  BY <1>5, FS_Union
<1>7. Cardinality(a) \in Nat /\ Cardinality({}) = 0
  BY <1>5, FS_CardinalityType, FS_EmptySet
<1>8. Cardinality(a \cup c) = Cardinality(a) + m
  <2>1. PICK x : x = Cardinality(a)
    OBVIOUS
  <2>2. Cardinality(a \cap c) = 0
    BY ONLY <1>4, <1>7
  <2>3. Cardinality(a \cup c) = x + m - 0 /\ x \in Nat
    BY ONLY <1>5, <1>6, <1>7, <2>1, <2>2
  <2>4. x + m - 0 = x + m
    BY ONLY <2>3, m \in Nat
  <2> QED
    BY ONLY <2>1, <2>3, <2>4
<1> QED
  BY ONLY <1>1, <1>3, <1>8 DEF AppsIn

LEMMA AppsNoMore ==
  ASSUME NEW h, NEW n \in Nat, ~IsApp(h[n + 1])
  PROVE  AppsIn(h, n + 1) = AppsIn(h, n)
<1>1. {j \in 1..(n + 1) : IsApp(h[j])} = {j \in 1..n : IsApp(h[j])}
  <2>1. ASSUME NEW j \in 1..(n + 1), IsApp(h[j]) PROVE j \in 1..n
    <3>1. j # n + 1
      BY <2>1
    <3> QED
      BY <3>1
  <2> QED
    BY <2>1
<1> QED
  BY <1>1 DEF AppsIn

LEMMA OpenedLonger ==
  ASSUME NEW h, NEW g, Len(h) \in Nat, Len(g) \in Nat, Len(g) >= Len(h), Alike(g, h, Len(h)),
         Opened(h)
  PROVE  Opened(g)
BY DEF Opened, Alike

\* One message that is no application data.
LEMMA MessageApps ==
  ASSUME NEW h \in Seq(Items), NEW x \in Items, ~IsApp(x), NEW n, AppsOK(h, n, FALSE),
         NEW g, g = h \o <<x>>
  PROVE  AppsOK(g, n, FALSE)
<1>1. PICK l : l = Len(h)
  OBVIOUS
<1>2. l \in Nat /\ Len(g) = l + 1 /\ Alike(g, h, l) /\ g[l + 1] = x
  BY <1>1 DEF Alike
<1>3. AppsIn(g, l + 1) = AppsIn(h, l)
  <2>1. AppsIn(g, l) = AppsIn(h, l)
    <3>1. {j \in 1..l : IsApp(g[j])} = {j \in 1..l : IsApp(h[j])}
      BY <1>2 DEF Alike
    <3> QED
      BY <3>1 DEF AppsIn
  <2> QED
    BY <1>2, <2>1, AppsNoMore
<1>4. ASSUME NEW i \in 1..Len(g), IsApp(g[i])
      PROVE  i > 2 /\ Opened(g) /\ AppsIn(g, i) <= n /\ g[i] = App(AppsIn(g, i))
  <2>1. i \in 1..l
    BY <1>2, <1>4
  <2>2. g[i] = h[i] /\ AppsIn(g, i) = AppsIn(h, i)
    BY <1>2, <2>1, AppsSame DEF Alike
  <2>3. i > 2 /\ Opened(h) /\ AppsIn(h, i) <= n /\ h[i] = App(AppsIn(h, i))
    BY <1>1, <1>4, <2>1, <2>2 DEF AppsOK
  <2>4. Opened(g)
    <3>1. Len(g) >= Len(h) /\ Len(g) \in Nat /\ Len(h) \in Nat /\ Alike(g, h, Len(h))
      BY <1>1, <1>2
    <3> QED
      BY ONLY <2>3, <3>1, OpenedLonger
  <2> QED
    BY <2>2, <2>3, <2>4
<1> QED
  BY <1>1, <1>2, <1>3, <1>4 DEF AppsOK

\* The chunks after the n-th.
LEMMA ChunksApps ==
  ASSUME NEW h \in Seq(Items), NEW r \in Seq(Items), NEW n \in Nat, AppsOK(h, n, FALSE),
         Opened(h), \A i \in 1..Len(r) : r[i] = App(n + i),
         NEW g, g = h \o r
  PROVE  AppsOK(g, n + Len(r), FALSE)
<1>1. PICK l : l = Len(h)
  OBVIOUS
<1>2. PICK m : m = Len(r)
  OBVIOUS
<1>3. l \in Nat /\ m \in Nat /\ Len(g) = l + m /\ Alike(g, h, l) /\ At(g, l, r, m)
  BY <1>1, <1>2, JoinedSeq DEF Alike, At
<1>4. Opened(g) /\ l >= 2
  <2>1. Len(g) >= Len(h) /\ Len(g) \in Nat /\ Len(h) \in Nat /\ Alike(g, h, Len(h))
    BY <1>1, <1>3
  <2>2. Opened(g)
    BY ONLY <2>1, Opened(h), OpenedLonger
  <2> QED
    BY <1>1, <2>2 DEF Opened
<1>5. AppsIn(h, l) = n
  BY <1>1 DEF AppsOK
<1>6. AppsIn(g, l) = n
  <2>1. {j \in 1..l : IsApp(g[j])} = {j \in 1..l : IsApp(h[j])}
    BY <1>3 DEF Alike
  <2> QED
    BY <1>5, <2>1 DEF AppsIn
<1>7. \A i \in 1..m : g[l + i] = App(n + i) /\ IsApp(g[l + i])
  BY <1>2, <1>3 DEF At, App, IsApp
<1>8. ASSUME NEW i \in 0..m PROVE AppsIn(g, l + i) = n + i
  <2>1. i \in Nat /\ \A j \in 1..i : IsApp(g[l + j])
    <3>1. i \in Nat /\ \A j \in 1..i : j \in 1..m
      BY <1>3
    <3>2. \A j \in 1..m : IsApp(g[l + j])
      BY <1>7
    <3> QED
      BY ONLY <3>1, <3>2
  <2>2. AppsIn(g, l + i) = AppsIn(g, l) + i
    BY ONLY <1>3, <2>1, AppsMore
  <2> QED
    BY <1>6, <2>2
<1>9. ASSUME NEW i \in 1..Len(g), IsApp(g[i])
      PROVE  i > 2 /\ AppsIn(g, i) <= n + m /\ g[i] = App(AppsIn(g, i))
  <2>1. CASE i \in 1..l
    <3>1. g[i] = h[i] /\ AppsIn(g, i) = AppsIn(h, i)
      BY <1>3, <2>1, AppsSame DEF Alike
    <3>2. i > 2 /\ AppsIn(h, i) <= n /\ h[i] = App(AppsIn(h, i))
      BY <1>1, <1>9, <2>1, <3>1 DEF AppsOK
    <3>3. AppsIn(h, i) \in Nat
      <4>1. i \in Nat
        BY <2>1
      <4> QED
        BY <4>1, AppsFinite
    <3>4. AppsIn(h, i) <= n + m
      BY ONLY <1>3, <3>2, <3>3, n \in Nat
    <3> QED
      BY ONLY <3>1, <3>2, <3>4
  <2>2. CASE i \notin 1..l
    <3>1. PICK j : j = i - l
      OBVIOUS
    <3>2. j \in 1..m /\ i = l + j /\ j \in 0..m /\ n + j <= n + m /\ i > 2
      BY <1>3, <1>4, <2>2, <3>1
    <3> QED
      BY <1>7, <1>8, <3>2
  <2> QED
    BY <2>1, <2>2
<1>10. AppsIn(g, Len(g)) = n + m
  <2>1. m \in 0..m
    BY <1>3
  <2> QED
    BY <1>3, <1>8, <2>1
<1> QED
  BY <1>2, <1>4, <1>9, <1>10 DEF AppsOK

-----------------------------------------------------------------------------
(* The TLSSocket *)

\* What the listeners hand over: reply, unless the socket is destroyed.
HandsOver(reply) ==
    /\ tx'.dropped = tx.dropped /\ sock'.destroyed = sock.destroyed
    /\ HasStream => HasStream'
    /\ tx'.handed \in Seq(Items)
    /\ sock.destroyed => tx'.handed = tx.handed
    /\ ~sock.destroyed => tx'.handed = tx.handed \o reply

LEMMA ReplyHands ==
  ASSUME SocketInv, UNCHANGED stream, NEW reply \in Seq(Items), tx' = WrittenAll(tx, reply),
         SockKept(sock, sock'), reply = <<>> \/ HasStream
  PROVE  HandsOver(reply)
<1>0. sock'.destroyed = sock.destroyed /\ HasStream' = HasStream
  BY DEF SockKept, HasStream
<1>1. tx \in TxType /\ (~Writing(tx) => tx.buffer = <<>>) /\ tx.handed \in Seq(Items)
  BY DEF SocketInv, FlowInv, Flow, OneAtATime, TxType
<1>2. CASE sock.destroyed \/ reply = <<>>
  <2>1. tx' = tx
    BY <1>2 DEF WrittenAll
  <2>2. reply = <<>> => tx.handed = tx.handed \o reply
    <3>1. PICK h : h = tx.handed
      OBVIOUS
    <3>2. h \o <<>> = h
      BY <1>1, <3>1
    <3> QED
      BY <3>1, <3>2
  <2> QED
    BY <1>0, <1>1, <1>2, <2>1, <2>2 DEF HandsOver
<1>3. CASE ~(sock.destroyed \/ reply = <<>>)
  <2>1. tx' = Written(tx, reply) /\ HasStream
    BY <1>3 DEF WrittenAll
  <2>2. Hands(tx, reply, tx')
    BY <1>1, <1>3, <2>1, WrittenHands
  <2>3. tx'.dropped = tx.dropped /\ tx'.handed = tx.handed \o reply /\ tx'.handed \in Seq(Items)
    BY <2>1, <2>2 DEF Hands, TxType
  <2> QED
    BY <1>0, <1>3, <2>3 DEF HandsOver
<1> QED
  BY <1>2, <1>3

LEMMA TlsPrimed ==
  ASSUME rx' \in RxType, peer' \in PeerType,
         tls'.used =>
            /\ tx'.dropped = 0
            /\ tls'.phase \notin Unstarted => HasStream'
            /\ NumbersOK(tls')
            /\ AppsOK(tx'.handed, Len(tls'.sent), sock'.destroyed)
            /\ PhaseOK(tls', tx'.handed, sock'.destroyed)
            /\ Queued(ticks', "written") => tls'.secure
  PROVE  TlsInv'
BY DEF TlsInv

LEMMA AppsLess ==
  ASSUME NEW h, NEW n, NEW dead, NEW gone, dead => gone, AppsOK(h, n, dead)
  PROVE  AppsOK(h, n, gone)
BY DEF AppsOK

LEMMA PhaseLess ==
  ASSUME NEW t, NEW h, NEW dead, NEW gone, dead => gone, PhaseOK(t, h, dead)
  PROVE  PhaseOK(t, h, gone)
BY DEF PhaseOK

\* A step that hands nothing over and encrypts nothing.
LEMMA CalmTls ==
  ASSUME TlsInv, Calm, rx' \in RxType, peer' \in PeerType, tls'.used => tls.used,
         tls.used =>
            /\ tls'.phase \notin Unstarted => HasStream'
            /\ NumbersOK(tls') /\ tls'.sent = tls.sent
            /\ PhaseOK(tls', tx.handed, sock.destroyed)
            /\ tls.secure => tls'.secure
  PROVE  TlsInv'
<1>1. /\ tx'.handed = tx.handed /\ tx'.dropped = tx.dropped
      /\ sock.destroyed => sock'.destroyed
      /\ Queued(ticks', "written") => Queued(ticks, "written")
  BY DEF Calm
<1>2. CASE tls.used
  <2>1. /\ tx.dropped = 0 /\ AppsOK(tx.handed, Len(tls.sent), sock.destroyed)
        /\ Queued(ticks, "written") => tls.secure
    BY <1>2 DEF TlsInv
  <2>2. AppsOK(tx'.handed, Len(tls'.sent), sock'.destroyed)
    BY <1>1, <1>2, <2>1, AppsLess
  <2>3. PhaseOK(tls', tx'.handed, sock'.destroyed)
    BY <1>1, <1>2, PhaseLess
  <2> QED
    BY <1>1, <1>2, <2>1, <2>2, <2>3, TlsPrimed
<1>3. CASE ~tls.used
  BY <1>3, TlsPrimed
<1> QED
  BY <1>2, <1>3

\* The steps of the socket below.
LEMMA SocketStepsTls ==
  ASSUME TlsInv, Calm, UNCHANGED <<rx, tls, peer>> PROVE TlsInv'
<1>1. /\ rx' \in RxType /\ peer' \in PeerType
      /\ tls.used =>
            /\ tls'.phase \notin Unstarted => HasStream'
            /\ NumbersOK(tls') /\ tls'.sent = tls.sent
            /\ PhaseOK(tls', tx.handed, sock.destroyed)
            /\ tls.secure => tls'.secure
  BY DEF TlsInv, Calm
<1> QED
  BY <1>1, CalmTls

\* A step that hands something over.
LEMMA HandsTls ==
  ASSUME TlsInv, tls.used, NEW reply, HandsOver(reply), rx' \in RxType, peer' \in PeerType,
         tls'.phase \notin Unstarted => HasStream,
         NumbersOK(tls'),
         ~sock.destroyed => AppsOK(tx.handed \o reply, Len(tls'.sent), FALSE),
         Len(tls.sent) <= Len(tls'.sent), Len(tls.sent) \in Nat, Len(tls'.sent) \in Nat,
         PhaseOK(tls', tx'.handed, sock.destroyed),
         Queued(ticks', "written") => tls'.secure
  PROVE  TlsInv'
<1>1. /\ tx'.dropped = tx.dropped /\ sock'.destroyed = sock.destroyed
      /\ HasStream => HasStream'
      /\ sock.destroyed => tx'.handed = tx.handed
      /\ ~sock.destroyed => tx'.handed = tx.handed \o reply
  BY DEF HandsOver
<1>2. AppsOK(tx'.handed, Len(tls'.sent), sock'.destroyed)
  <2>1. CASE sock.destroyed
    <3>1. AppsOK(tx.handed, Len(tls.sent), TRUE)
      BY AppsLess DEF TlsInv
    <3>2. PICK m, n : m = Len(tls.sent) /\ n = Len(tls'.sent)
      OBVIOUS
    <3>3. PICK h : h = tx.handed
      OBVIOUS
    <3>4. AppsOK(h, n, TRUE)
      <4>1. m \in Nat /\ n \in Nat /\ m <= n /\ AppsOK(h, m, TRUE)
        BY <3>1, <3>2, <3>3
      <4>2. ASSUME NEW i \in 1..Len(h) PROVE AppsIn(h, i) <= m => AppsIn(h, i) <= n
        <5>0. i \in Nat
          OBVIOUS
        <5>1. AppsIn(h, i) \in Nat
          BY <5>0, AppsFinite
        <5> QED
          BY ONLY <4>1, <5>1
      <4> QED
        BY ONLY <4>1, <4>2 DEF AppsOK
    <3> QED
      BY <1>1, <2>1, <3>2, <3>3, <3>4, AppsLess
  <2>2. CASE ~sock.destroyed
    <3>1. AppsOK(tx'.handed, Len(tls'.sent), FALSE)
      BY <1>1, <2>2
    <3> QED
      BY <3>1, AppsLess
  <2> QED
    BY <2>1, <2>2
<1>3. PhaseOK(tls', tx'.handed, sock'.destroyed) /\ tx'.dropped = 0
  BY <1>1 DEF TlsInv
<1> QED
  BY <1>1, <1>2, <1>3, TlsPrimed

LEMMA TwoItems ==
  ASSUME NEW S, NEW x \in S, NEW y \in S
  PROVE  /\ Len(<<x>> \o <<y>>) = 2 /\ (<<x>> \o <<y>>)[1] = x /\ (<<x>> \o <<y>>)[2] = y
OBVIOUS

LEMMA ItemsKnown ==
  /\ Flight(1) \in Items /\ Flight(2) \in Items /\ Alert \in Items
  /\ ~IsApp(Flight(1)) /\ ~IsApp(Flight(2)) /\ ~IsApp(Alert)
  /\ \A n \in 1..Chunks : App(n) \in Items
  /\ <<Flight(1)>> \in Seq(Items) /\ <<Flight(2)>> \in Seq(Items) /\ <<Alert>> \in Seq(Items)
  /\ <<>> \in Seq(Items)
<1>1. /\ Flight(1) \in Items /\ Flight(2) \in Items /\ Alert \in Items
      /\ \A n \in 1..Chunks : App(n) \in Items
  BY TlsAssumption DEF TlsAssumption
<1>2. ~IsApp(Flight(1)) /\ ~IsApp(Flight(2)) /\ ~IsApp(Alert)
  BY DEF IsApp, Flight, Alert
<1> QED
  BY <1>1, <1>2

\* What the socket below does when data of the peer comes.
LEMMA PullInv ==
  ASSUME SocketInv, NEW reply \in Seq(Items), Pull(reply), Follows(ticks, ticks'), rx \in RxType
  PROVE  /\ SocketInv' /\ HandsOver(reply) /\ HasStream
         /\ rx' \in RxType
<1>1. SockKept(sock, sock')
  BY AfterReplyKept DEF Pull, SocketInv, CloseInv
<1>2. UNCHANGED <<dial, stream>> /\ tx' = WrittenAll(tx, reply) /\ HasStream
  BY DEF Pull, Pulls, HasStream
<1>3. SocketInv'
  BY <1>1, <1>2, ReplyInv
<1>4. HandsOver(reply)
  BY <1>1, <1>2, ReplyHands
<1>5. rx.queue \in Seq(Signals \cup {"eof"}) /\ rx.queue # <<>> /\ rx' = [rx EXCEPT !.queue = Tail(@)]
  BY DEF Pull, Pulls, RxType
<1>6. PICK q : q = Tail(rx.queue)
  OBVIOUS
<1>7. q \in Seq(Signals \cup {"eof"})
  BY <1>5, <1>6
<1>8. rx' \in RxType
  BY <1>5, <1>6, <1>7 DEF RxType
<1> QED
  BY <1>2, <1>3, <1>4, <1>8

\* The numbers are those of other fields than these.
SameNumbers(t, u) ==
    /\ u.sent = t.sent /\ u.pending = t.pending /\ u.buffer = t.buffer
    /\ u.written = t.written /\ u.destroyed = t.destroyed /\ u.writing = t.writing
    /\ u.secure = t.secure /\ u.options = t.options /\ u.used = t.used

LEMMA NumbersSame ==
  ASSUME NEW t, NEW u, SameNumbers(t, u), NumbersOK(t) PROVE NumbersOK(u)
BY DEF SameNumbers, NumbersOK

LEMMA PhaseMoves ==
  ASSUME NEW t \in TlsType,
         NEW p \in {"none", "waiting", "broken", "handshaking", "verified", "connected", "closed"}
  PROVE  SameNumbers(t, [t EXCEPT !.phase = p]) /\ [t EXCEPT !.phase = p].phase = p
BY DEF TlsType, SameNumbers

LEMMA ShutSame ==
  ASSUME NEW t \in TlsType, NEW u, u = Shut(t) \/ u = [Shut(t) EXCEPT !.errors = 1]
  PROVE  SameNumbers(t, u) /\ u.phase = "closed"
<1>1. PICK s : s = Shut(t)
  OBVIOUS
<1>2. s \in TlsType /\ SameNumbers(t, s) /\ s.phase = "closed"
  BY <1>1, ShutType DEF Shut, TlsType, SameNumbers
<1>3. u = s \/ u = [s EXCEPT !.errors = 1]
  BY <1>1
<1> QED
  BY <1>2, <1>3 DEF TlsType, SameNumbers

LEMMA SentSame ==
  ASSUME NEW t \in TlsType, NEW u, u.sent = t.sent
  PROVE  Len(t.sent) <= Len(u.sent) /\ Len(t.sent) \in Nat /\ Len(u.sent) \in Nat
BY DEF TlsType

\* More was handed over to a socket that is not destroyed, or nothing.
LEMMA OpenedStays ==
  ASSUME NEW reply \in Seq(Items), tx.handed \in Seq(Items), HandsOver(reply),
         sock.destroyed \/ Opened(tx.handed)
  PROVE  sock.destroyed \/ Opened(tx'.handed)
<1>1. CASE ~sock.destroyed
  <2>1. PICK h, g : h = tx.handed /\ g = tx'.handed
    OBVIOUS
  <2>2. h \in Seq(Items) /\ g = h \o reply
    BY <1>1, <2>1 DEF HandsOver
  <2>3. Len(h) \in Nat /\ Len(g) \in Nat /\ Len(g) >= Len(h) /\ Alike(g, h, Len(h))
    BY <2>2 DEF Alike
  <2> QED
    BY <1>1, <2>1, <2>3, OpenedLonger
<1> QED
  BY <1>1

\* forge ends the session: an alert goes out.
LEMMA ShutTls ==
  ASSUME DialInv, SocketInv, TlsInv, tls.used, UNCHANGED <<ticks, peer>>, Pull(<<Alert>>),
         tls.phase \notin Unstarted, tls' = Shut(tls) \/ tls' = [Shut(tls) EXCEPT !.errors = 1]
  PROVE  SocketInv' /\ TlsInv'
<1>0. tls \in TlsType /\ tx.handed \in Seq(Items) /\ rx \in RxType /\ peer' \in PeerType
  BY DEF DialInv, SocketInv, FlowInv, Flow, TxType, TlsInv
<1>1. Follows(ticks, ticks')
  BY SameKept DEF SocketInv
<1>2. /\ SocketInv' /\ HandsOver(<<Alert>>) /\ HasStream /\ rx' \in RxType
  BY <1>0, <1>1, ItemsKnown, PullInv
<1>3. SameNumbers(tls, tls') /\ tls'.phase = "closed"
  BY <1>0, ShutSame
<1>4. /\ NumbersOK(tls) /\ AppsOK(tx.handed, Len(tls.sent), sock.destroyed)
      /\ PhaseOK(tls, tx.handed, sock.destroyed)
      /\ Queued(ticks, "written") => tls.secure
  BY DEF TlsInv
<1>5. NumbersOK(tls')
  BY <1>3, <1>4, NumbersSame
<1>6. tls'.sent = tls.sent /\ tls'.secure = tls.secure /\ tls'.options = tls.options
  BY <1>3 DEF SameNumbers
<1>7. ~sock.destroyed => AppsOK(tx.handed \o <<Alert>>, Len(tls'.sent), FALSE)
  <2> SUFFICES ASSUME ~sock.destroyed PROVE AppsOK(tx.handed \o <<Alert>>, Len(tls'.sent), FALSE)
    OBVIOUS
  <2>1. AppsOK(tx.handed, Len(tls.sent), FALSE)
    BY <1>4 DEF AppsOK
  <2> QED
    BY <1>0, <1>6, <2>1, ItemsKnown, MessageApps
<1>8. PhaseOK(tls', tx'.handed, sock.destroyed)
  <2>1. tls.secure => sock.destroyed \/ Opened(tx'.handed)
    BY <1>0, <1>2, <1>4, ItemsKnown, OpenedStays DEF PhaseOK
  <2> QED
    BY <1>3, <1>6, <2>1 DEF PhaseOK, Unstarted
<1>9. Queued(ticks', "written") => tls'.secure
  BY <1>4, <1>6 DEF Queued
<1>10. Len(tls.sent) <= Len(tls'.sent) /\ Len(tls.sent) \in Nat /\ Len(tls'.sent) \in Nat
  BY <1>0, <1>6, SentSame
<1> QED
  BY <1>0, <1>2, <1>5, <1>7, <1>8, <1>9, <1>10, HandsTls

LEMMA CertificateTls ==
  ASSUME DialInv, SocketInv, TlsInv, tls.used, CertificateArrives
  PROVE  SocketInv' /\ TlsInv'
<1>0. /\ tls \in TlsType /\ tx.handed \in Seq(Items) /\ rx \in RxType /\ peer \in PeerType
      /\ UNCHANGED <<ticks, peer>> /\ tls.phase = "handshaking" /\ Arriving \in AllCertificates
  BY TlsAssumption
     DEF DialInv, SocketInv, FlowInv, Flow, TxType, TlsInv, CertificateArrives, TlsAssumption
<1>1. CASE Pull(<<Alert>>) /\ tls' = [Shut(tls) EXCEPT !.errors = 1]
  BY <1>0, <1>1, ShutTls DEF Unstarted
<1>2. CASE /\ Accepts(tls.options, peer.certificate) /\ Pull(<<Flight(2)>>)
           /\ tls' = [tls EXCEPT !.phase = "verified"]
  <2>1. Follows(ticks, ticks')
    BY <1>0, SameKept DEF SocketInv
  <2>2. /\ SocketInv' /\ HandsOver(<<Flight(2)>>) /\ HasStream /\ rx' \in RxType
    BY <1>0, <1>2, <2>1, ItemsKnown, PullInv
  <2>3. SameNumbers(tls, tls') /\ tls'.phase = "verified"
    BY <1>0, <1>2, PhaseMoves
  <2>4. /\ NumbersOK(tls) /\ AppsOK(tx.handed, Len(tls.sent), sock.destroyed)
        /\ PhaseOK(tls, tx.handed, sock.destroyed)
        /\ Queued(ticks, "written") => tls.secure
    BY DEF TlsInv
  <2>5. NumbersOK(tls')
    BY <2>3, <2>4, NumbersSame
  <2>6. tls'.sent = tls.sent /\ tls'.secure = tls.secure /\ tls'.options = tls.options /\ ~tls.secure
    BY <1>0, <2>3, <2>4 DEF SameNumbers, PhaseOK
  <2>7. ~sock.destroyed => AppsOK(tx.handed \o <<Flight(2)>>, Len(tls'.sent), FALSE)
    <3> SUFFICES ASSUME ~sock.destroyed
                 PROVE  AppsOK(tx.handed \o <<Flight(2)>>, Len(tls'.sent), FALSE)
      OBVIOUS
    <3>1. AppsOK(tx.handed, Len(tls.sent), FALSE)
      BY <2>4 DEF AppsOK
    <3> QED
      BY <1>0, <2>6, <3>1, ItemsKnown, MessageApps
  <2>8. PhaseOK(tls', tx'.handed, sock.destroyed)
    <3>1. ~sock.destroyed => Opened(tx'.handed)
      <4>1. ~sock.destroyed => tx.handed = <<Flight(1)>> /\ tx'.handed = tx.handed \o <<Flight(2)>>
        BY <1>0, <2>2, <2>4 DEF PhaseOK, HandsOver
      <4>2. PICK x, y : x = Flight(1) /\ y = Flight(2)
        OBVIOUS
      <4>3. /\ Len(<<x>> \o <<y>>) = 2 /\ (<<x>> \o <<y>>)[1] = x /\ (<<x>> \o <<y>>)[2] = y
        <5>1. x \in Items /\ y \in Items
          BY <4>2, ItemsKnown
        <5> QED
          BY ONLY <5>1, TwoItems
      <4> QED
        BY <4>1, <4>2, <4>3 DEF Opened
    <3> QED
      BY <2>3, <2>6, <3>1 DEF PhaseOK, Unstarted
  <2>9. ~Queued(ticks', "written")
    BY <1>0, <2>4, <2>6 DEF Queued
  <2>10. Len(tls.sent) <= Len(tls'.sent) /\ Len(tls.sent) \in Nat /\ Len(tls'.sent) \in Nat
    BY <1>0, <2>6, SentSame
  <2> QED
    BY <1>0, <2>2, <2>5, <2>7, <2>8, <2>9, <2>10, HandsTls
<1> QED
  BY <1>1, <1>2 DEF CertificateArrives

\* What arrives without an answer.
LEMMA SilentTls ==
  ASSUME DialInv, SocketInv, TlsInv, tls.used, DataArrives \/ IgnoredArrives
  PROVE  SocketInv' /\ TlsInv'
<1>0. /\ tls \in TlsType /\ rx \in RxType /\ peer' \in PeerType /\ tx.handed \in Seq(Items)
      /\ UNCHANGED <<ticks, peer, tls>> /\ Pull(<<>>)
  BY DEF DialInv, SocketInv, FlowInv, Flow, TxType, TlsInv, DataArrives, IgnoredArrives
<1>1. Follows(ticks, ticks')
  BY <1>0, SameKept DEF SocketInv
<1>2. /\ SocketInv' /\ HandsOver(<<>>) /\ HasStream /\ rx' \in RxType
  BY <1>0, <1>1, ItemsKnown, PullInv
<1>3. tx'.handed = tx.handed /\ tx'.dropped = tx.dropped
  <2>1. PICK h : h = tx.handed
    OBVIOUS
  <2>2. h \o <<>> = h
    BY <1>0, <2>1
  <2> QED
    BY <1>2, <2>1, <2>2 DEF HandsOver
<1>4. Calm
  BY <1>0, <1>2, <1>3 DEF Calm, HandsOver, Queued
<1>5. /\ tls'.phase \notin Unstarted => HasStream'
      /\ NumbersOK(tls') /\ tls'.sent = tls.sent
      /\ PhaseOK(tls', tx.handed, sock.destroyed)
      /\ tls.secure => tls'.secure
  BY <1>0, <1>2 DEF TlsInv, HandsOver
<1> QED
  BY <1>0, <1>2, <1>4, <1>5, CalmTls

LEMMA EndTls ==
  ASSUME SocketInv, TlsInv, PullEnd, UNCHANGED <<tls, peer>>
  PROVE  SocketInv' /\ TlsInv'
<1>0. rx \in RxType /\ peer' \in PeerType /\ UNCHANGED <<dial, stream, tx, ticks>>
  BY DEF TlsInv, PullEnd
<1>1. rx.queue \in Seq(Signals \cup {"eof"}) /\ rx.queue # <<>> /\ rx' = [rx EXCEPT !.queue = Tail(@)]
  BY DEF PullEnd, Pulls, RxType, TlsInv
<1>2. PICK q : q = Tail(rx.queue)
  OBVIOUS
<1>3. /\ q \in Seq(Signals \cup {"eof"})
      /\ \A i \in 1..Len(q) : i + 1 \in 1..Len(rx.queue) /\ q[i] = rx.queue[i + 1]
  BY <1>1, <1>2
<1>4. rx' \in RxType /\ rx'.queue = q
  BY <1>0, <1>1, <1>2, <1>3 DEF RxType
<1>5. SockKept(sock, sock')
  BY DEF PullEnd, SockKept, SocketInv, CloseInv, SockType
<1>6. SocketInv'
  BY <1>0, <1>5, SameKept, IdleInv DEF SocketInv
<1>7. Calm
  BY <1>0, <1>5 DEF Calm, SockKept, HasStream, Queued
<1>8. tls.used => /\ tls'.phase \notin Unstarted => HasStream'
                  /\ NumbersOK(tls') /\ tls'.sent = tls.sent
                  /\ PhaseOK(tls', tx.handed, sock.destroyed)
                  /\ tls.secure => tls'.secure
  BY <1>7 DEF TlsInv, Calm
<1> QED
  BY <1>0, <1>4, <1>6, <1>7, <1>8, CalmTls

\* The handshake is over: what _chunks holds goes out.
LEMMA FinishedTls ==
  ASSUME DialInv, SocketInv, TlsInv, tls.used, FinishedArrives
  PROVE  SocketInv' /\ TlsInv'
<1>0. /\ tls \in TlsType /\ tx.handed \in Seq(Items) /\ rx \in RxType /\ peer' \in PeerType
      /\ UNCHANGED peer /\ tls.phase = "verified" /\ Pull(Records(tls.pending))
      /\ ticks \in Seq(ClientTick) /\ tls.pending \in Seq(1..Chunks) /\ tls.sent \in Seq(1..Chunks)
  BY DEF DialInv, SocketInv, FlowInv, Flow, TxType, TlsInv, FinishedArrives, TlsType
<1>1. PICK p : p = Len(tls.pending)
  OBVIOUS
<1>2. p \in Nat /\ DOMAIN tls.pending = 1..p
  BY <1>0, <1>1
<1>3. Follows(ticks, ticks')
  <2>1. ticks' = ticks \o [i \in 1..p |-> "written"]
    BY <1>2 DEF FinishedArrives
  <2> QED
    BY <1>0, <1>2, <2>1, FollowsWritten
<1>4. PICK r : r = Records(tls.pending)
  OBVIOUS
<1>5. r \in Seq(Items) /\ Len(r) = p /\ \A i \in 1..p : r[i] = App(tls.pending[i])
  <2>1. \A i \in 1..p : App(tls.pending[i]) \in Items
    <3>1. \A i \in 1..p : tls.pending[i] \in 1..Chunks
      <4>1. PICK q : q = tls.pending
        OBVIOUS
      <4>2. q \in Seq(1..Chunks) /\ p = Len(q)
        BY <1>0, <1>1, <4>1
      <4>3. \A i \in 1..p : q[i] \in 1..Chunks
        <5>1. PICK S : S = 1..Chunks
          OBVIOUS
        <5>2. q \in Seq(S) /\ p = Len(q)
          BY <4>2, <5>1
        <5>3. \A i \in 1..p : q[i] \in S
          BY ONLY <5>2
        <5> QED
          BY ONLY <5>1, <5>3
      <4> QED
        BY ONLY <4>1, <4>3
    <3> QED
      BY <3>1, ItemsKnown
  <2>2. r = [i \in 1..p |-> App(tls.pending[i])]
    BY <1>2, <1>4 DEF Records
  <2> QED
    BY <1>2, <2>1, <2>2
<1>6. /\ SocketInv' /\ HandsOver(r) /\ HasStream /\ rx' \in RxType
  BY <1>0, <1>3, <1>4, <1>5, PullInv
<1>7. /\ NumbersOK(tls) /\ AppsOK(tx.handed, Len(tls.sent), sock.destroyed)
      /\ PhaseOK(tls, tx.handed, sock.destroyed)
  BY DEF TlsInv
<1>8. ~tls.secure /\ Len(tls.sent) = 0
  BY <1>0, <1>7 DEF PhaseOK, NumbersOK
<1>9. PICK f : f = Flush(tls)
  OBVIOUS
<1>10. /\ f \in TlsType /\ Len(f.sent) = Len(tls.sent) + Len(tls.pending) /\ f.pending = <<>>
       /\ Runs(f.sent, Len(f.sent), 0)
       /\ Runs(f.buffer, Len(f.buffer), Len(f.sent))
       /\ f.buffer = tls.buffer /\ f.destroyed = tls.destroyed /\ f.writing = tls.writing
       /\ f.written = tls.written /\ f.phase = tls.phase /\ f.options = tls.options
       /\ f.used = tls.used /\ f.secure = tls.secure
  BY <1>0, <1>7, <1>9, FlushNumbers
<1>11. Len(f.sent) = p
  BY <1>1, <1>2, <1>8, <1>10
<1>12. /\ tls'.sent = f.sent /\ tls'.pending = <<>> /\ tls'.buffer = tls.buffer
       /\ tls'.destroyed = tls.destroyed /\ tls'.writing = tls.writing
       /\ tls'.written = tls.written /\ tls'.phase = "connected" /\ tls'.options = tls.options
       /\ tls'.secure = TRUE
  <2>1. tls' = [[f EXCEPT !.phase = "connected", !.secure = TRUE] EXCEPT !.secures = 1]
    BY <1>9 DEF FinishedArrives
  <2>2. PICK g : g = [f EXCEPT !.phase = "connected", !.secure = TRUE]
    OBVIOUS
  <2>3. /\ g \in TlsType /\ g.sent = f.sent /\ g.pending = f.pending /\ g.buffer = f.buffer
        /\ g.destroyed = f.destroyed /\ g.writing = f.writing
        /\ g.written = f.written /\ g.phase = "connected" /\ g.options = f.options
        /\ g.secure = TRUE
    BY <1>10, <2>2 DEF TlsType
  <2>4. /\ tls'.sent = g.sent /\ tls'.pending = g.pending /\ tls'.buffer = g.buffer
        /\ tls'.destroyed = g.destroyed /\ tls'.writing = g.writing
        /\ tls'.written = g.written /\ tls'.phase = g.phase /\ tls'.options = g.options
        /\ tls'.secure = g.secure
    BY ONLY <2>1, <2>2, <2>3 DEF TlsType
  <2> QED
    BY ONLY <1>10, <2>3, <2>4
<1>13. NumbersOK(tls')
  <2>1. PICK s, b : Lengths(tls, s, p, b)
    BY <1>1 DEF Lengths
  <2>2. b \in Nat /\ NumbersOf(tls, s, p, b) /\ s = 0 /\ b = Len(tls.buffer) /\ tls.written \in Nat
    BY <1>0, <1>7, <1>8, <2>1, NumbersLengths DEF Lengths
  <2>3. Len(tls'.sent) = p /\ Len(tls'.pending) = 0 /\ Len(tls'.buffer) = b
    BY <1>11, <1>12, <2>2
  <2>4. Runs(tls'.sent, p, 0) /\ Runs(tls'.pending, 0, p) /\ Runs(tls'.buffer, b, p + 0)
    <3>1. p + 0 = p
      BY <1>2
    <3>2. Runs(f.sent, p, 0) /\ Runs(f.buffer, b, p)
      BY ONLY <1>10, <1>11, <2>2
    <3> QED
      BY ONLY <1>10, <1>12, <3>1, <3>2, RunsEmpty
  <2>5. ~tls'.destroyed => tls'.written = p + 0 + b
    <3>1. ~tls.destroyed => tls.written = 0 + p + b
      BY ONLY <2>2 DEF NumbersOf
    <3>2. 0 + p + b = p + 0 + b
      BY ONLY <1>2, <2>2
    <3> QED
      BY ONLY <1>12, <3>1, <3>2
  <2>6. tls'.destroyed \/ ~tls'.writing => tls'.buffer = <<>>
    BY ONLY <1>7, <1>12 DEF NumbersOK
  <2> QED
    BY ONLY <1>12, <2>3, <2>4, <2>5, <2>6 DEF NumbersOK
<1>14. ~sock.destroyed => AppsOK(tx.handed \o r, Len(tls'.sent), FALSE) /\ Opened(tx.handed)
  <2> SUFFICES ASSUME ~sock.destroyed
               PROVE  AppsOK(tx.handed \o r, Len(tls'.sent), FALSE) /\ Opened(tx.handed)
    OBVIOUS
  <2>1. AppsOK(tx.handed, 0, FALSE)
    BY <1>7, <1>8 DEF AppsOK
  <2>2. Opened(tx.handed)
    BY <1>0, <1>7 DEF PhaseOK
  <2>3. \A i \in 1..Len(r) : r[i] = App(0 + i)
    <3>1. Runs(tls.pending, p, 0)
      BY ONLY <1>1, <1>7, <1>8 DEF NumbersOK
    <3> QED
      BY ONLY <1>5, <3>1 DEF Runs
  <2>4. 0 \in Nat /\ 0 + Len(r) = p
    BY <1>2, <1>5
  <2>5. AppsOK(tx.handed \o r, 0 + Len(r), FALSE)
    <3>1. PICK h, g : h = tx.handed /\ g = tx.handed \o r
      OBVIOUS
    <3>2. h \in Seq(Items) /\ AppsOK(h, 0, FALSE) /\ Opened(h) /\ g = h \o r
      BY <1>0, <2>1, <2>2, <3>1
    <3>3. AppsOK(g, 0 + Len(r), FALSE)
      BY ONLY <1>5, <2>3, <2>4, <3>2, ChunksApps
    <3> QED
      BY ONLY <3>1, <3>3
  <2> QED
    BY ONLY <1>11, <1>12, <2>2, <2>4, <2>5
<1>15. PhaseOK(tls', tx'.handed, sock.destroyed)
  <2>1. sock.destroyed \/ Opened(tx'.handed)
    BY <1>0, <1>5, <1>6, <1>14, OpenedStays
  <2> QED
    BY <1>12, <2>1 DEF PhaseOK, Unstarted
<1>16. Len(tls.sent) <= Len(tls'.sent) /\ Len(tls.sent) \in Nat /\ Len(tls'.sent) \in Nat
  BY <1>2, <1>8, <1>11, <1>12
<1> QED
  <2>1. ~sock.destroyed => AppsOK(tx.handed \o r, Len(tls'.sent), FALSE)
    BY <1>14
  <2> QED
    BY <1>0, <1>6, <1>12, <1>13, <1>15, <1>16, <2>1, HandsTls

\* Steps of the TLSSocket that leave the socket below alone.
LEMMA AloneTls ==
  ASSUME SocketInv, TlsInv, UNCHANGED <<sock, dial, stream, tx, rx, peer>>,
         Follows(ticks, ticks'), Queued(ticks', "written") => Queued(ticks, "written"),
         tls'.used => tls.used, tls'.sent = tls.sent, tls'.secure = tls.secure,
         tls'.options = tls.options,
         tls'.phase = tls.phase \/ (tls.phase = "none" /\ tls'.phase = "waiting"),
         tls.used => NumbersOK(tls')
  PROVE  SocketInv' /\ TlsInv'
<1>1. SocketInv'
  BY SameKept, IdleInv DEF SocketInv
<1>2. Calm
  BY DEF Calm, HasStream
<1>3. rx' \in RxType /\ peer' \in PeerType
  BY DEF TlsInv
<1>4. ASSUME tls.used
      PROVE  /\ tls'.phase \notin Unstarted => HasStream'
             /\ PhaseOK(tls', tx.handed, sock.destroyed)
  <2>1. /\ PhaseOK(tls, tx.handed, sock.destroyed)
        /\ tls.phase \notin Unstarted => HasStream
    BY <1>4 DEF TlsInv
  <2>2. tls'.phase \notin Unstarted => HasStream'
    BY <2>1 DEF Unstarted, HasStream
  <2>3. PhaseOK(tls', tx.handed, sock.destroyed)
    BY <2>1 DEF PhaseOK, Unstarted
  <2> QED
    BY <2>2, <2>3
<1> QED
  BY <1>1, <1>2, <1>3, <1>4, CalmTls

LEMMA WrapTls ==
  ASSUME DialInv, SocketInv, TlsInv, Wrap PROVE SocketInv' /\ TlsInv'
<1>1. UNCHANGED <<sock, dial, stream, tx, rx, peer, ticks>> /\ tls \in TlsType
      /\ tls' = [tls EXCEPT !.phase = "waiting"] /\ tls.phase = "none"
  BY DEF Wrap, socketVars, DialInv
<1>2. SameNumbers(tls, tls') /\ tls'.phase = "waiting"
  BY <1>1, PhaseMoves
<1>3. Follows(ticks, ticks') /\ (Queued(ticks', "written") => Queued(ticks, "written"))
  BY <1>1, SameKept DEF SocketInv, Queued
<1>4. tls.used => NumbersOK(tls')
  BY <1>2, NumbersSame DEF TlsInv
<1> QED
  BY <1>1, <1>2, <1>3, <1>4, AloneTls DEF SameNumbers

LEMMA ClosedSame ==
  ASSUME NEW t \in TlsType PROVE SameNumbers(t, Closed(t)) /\ Closed(t).phase = t.phase
BY DEF Closed, TlsType, SameNumbers

LEMMA TlsDestroyTls ==
  ASSUME DialInv, SocketInv, TlsInv, TlsDestroy PROVE SocketInv' /\ TlsInv'
<1>1. UNCHANGED <<sock, dial, stream, tx, rx, peer>> /\ tls \in TlsType /\ ticks \in Seq(ClientTick)
      /\ ticks' = Append(ticks, "tlsClose")
  BY DEF TlsDestroy, DialInv
<1>2. Follows(ticks, ticks') /\ (Queued(ticks', "written") => Queued(ticks, "written"))
  <2>1. "tlsClose" \in ClientTick /\ "written" \in ClientTick /\ "written" # "tlsClose"
        /\ "tlsClose" # "close"
    BY DEF ClientTick
  <2> QED
    BY ONLY <1>1, <2>1, FollowsAdded
<1>3. PICK b : b = <<>> /\ b \in Seq(1..Chunks)
  <2>1. <<>> \in Seq(1..Chunks)
    OBVIOUS
  <2> QED
    BY <2>1
<1>4. /\ tls'.sent = tls.sent /\ tls'.pending = tls.pending /\ tls'.buffer = <<>>
      /\ tls'.destroyed = TRUE /\ tls'.secure = tls.secure /\ tls'.options = tls.options
      /\ tls'.used = tls.used /\ tls'.phase = tls.phase
  <2>1. tls' = [tls EXCEPT !.destroyed = TRUE, !.buffer = b]
    BY <1>3 DEF TlsDestroy
  <2> QED
    BY <1>1, <1>3, <2>1 DEF TlsType
<1>5. tls.used => NumbersOK(tls')
  <2>1. Len(tls'.buffer) = 0
    BY <1>3, <1>4
  <2> QED
    BY <1>4, <2>1, RunsEmpty DEF NumbersOK, TlsInv
<1> QED
  BY <1>1, <1>2, <1>4, <1>5, AloneTls

LEMMA TlsEmitCloseTls ==
  ASSUME DialInv, SocketInv, TlsInv, TlsEmitClose PROVE SocketInv' /\ TlsInv'
<1>1. UNCHANGED <<sock, dial, stream, tx, rx, peer>> /\ tls \in TlsType /\ ticks \in Seq(ClientTick)
      /\ ticks # <<>> /\ ticks' = Tail(ticks) /\ tls' = Closed(tls)
  BY DEF TlsEmitClose, DialInv
<1>2. Follows(ticks, ticks') /\ (Queued(ticks', "written") => Queued(ticks, "written"))
  <2>1. "written" \in ClientTick
    BY DEF ClientTick
  <2> QED
    BY ONLY <1>1, <2>1, FollowsTaken
<1>3. SameNumbers(tls, tls') /\ tls'.phase = tls.phase
  BY <1>1, ClosedSame
<1>4. tls.used => NumbersOK(tls')
  BY <1>3, NumbersSame DEF TlsInv
<1> QED
  BY <1>1, <1>2, <1>3, <1>4, AloneTls DEF SameNumbers

\* 'close' of the socket below.
LEMMA EmitCloseTls ==
  ASSUME DialInv, SocketInv, TlsInv, EmitClose, UNCHANGED peer, tls' = tls \/ tls' = Closed(tls)
  PROVE  SocketInv' /\ TlsInv'
<1>1. UNCHANGED <<dial, stream, tx, rx, peer>> /\ tls \in TlsType /\ ticks \in Seq(ClientTick)
      /\ ticks # <<>> /\ ticks' = Tail(ticks)
  BY DEF EmitClose, DialInv
<1>2. Queued(ticks', "written") => Queued(ticks, "written")
  <2>1. "written" \in ClientTick
    BY DEF ClientTick
  <2> QED
    BY ONLY <1>1, <2>1, FollowsTaken
<1>3. CloseInv' /\ sock'.destroyed = sock.destroyed
  BY <1>1, EmitCloseClose DEF SocketInv
<1>4. FlowInv' /\ ArrivedOpen'
  BY <1>1, <1>3 DEF SocketInv, FlowInv, ArrivedOpen, HasStream, Flow, InPlace, Accounted, Account,
         OneAtATime, Acked, UnderWay, Writing
<1>5. Calm
  BY <1>1, <1>2, <1>3 DEF Calm, HasStream
<1>6. SameNumbers(tls, tls') /\ tls'.phase = tls.phase
  <2>1. SameNumbers(tls, tls)
    BY DEF SameNumbers
  <2> QED
    BY <1>1, <2>1, ClosedSame
<1>7. rx' \in RxType /\ peer' \in PeerType
  BY <1>1 DEF TlsInv
<1>8. ASSUME tls.used
      PROVE  /\ tls'.phase \notin Unstarted => HasStream'
             /\ NumbersOK(tls') /\ tls'.sent = tls.sent
             /\ PhaseOK(tls', tx.handed, sock.destroyed)
             /\ tls.secure => tls'.secure
  <2>1. NumbersOK(tls')
    BY <1>6, <1>8, NumbersSame DEF TlsInv
  <2>2. PhaseOK(tls', tx.handed, sock.destroyed)
    BY <1>6, <1>8 DEF TlsInv, PhaseOK, SameNumbers
  <2>3. tls'.phase \notin Unstarted => HasStream'
    BY <1>1, <1>6, <1>8 DEF TlsInv, HasStream
  <2> QED
    BY <1>6, <2>1, <2>2, <2>3 DEF SameNumbers
<1>9. tls'.used => tls.used
  BY <1>6 DEF SameNumbers
<1> QED
  BY <1>3, <1>4, <1>5, <1>7, <1>8, <1>9, CalmTls DEF SocketInv

\* The 'connect' tick: the stream is there.
LEMMA EmitConnectInv ==
  ASSUME DialInv, SocketInv, NEW reply \in Seq(Items), EmitConnect(reply)
  PROVE  /\ SocketInv' /\ HandsOver(reply) /\ HasStream
         /\ UNCHANGED rx /\ (Queued(ticks', "written") => Queued(ticks, "written"))
<1>1. /\ ticks \in Seq(ClientTick) /\ ticks # <<>> /\ Head(ticks) = "connect" /\ ticks' = Tail(ticks)
      /\ tx' = WrittenAll(tx, reply) /\ UNCHANGED <<stream, rx>>
      /\ dial' = [dial EXCEPT !.awaiting = "done"]
      /\ sock' = AfterReply([sock EXCEPT !.connects = 1], reply)
  BY DEF EmitConnect, DialInv
<1>2. /\ Follows(ticks, ticks') /\ (Queued(ticks', "written") => Queued(ticks, "written"))
      /\ Queued(ticks, "connect")
  <2>1. "written" \in ClientTick /\ "connect" \in ClientTick
    BY DEF ClientTick
  <2> QED
    BY ONLY <1>1, <2>1, FollowsTaken
<1>3. dial.awaiting \in Arrived
  BY <1>2 DEF DialInv, Queued
<1>4. HasStream
  BY <1>3 DEF SocketInv, ArrivedOpen
<1>5. SockKept(sock, sock')
  <2>1. PICK s : s = [sock EXCEPT !.connects = 1]
    OBVIOUS
  <2>2. s \in SockType /\ s.destroyed = sock.destroyed /\ s.closes = sock.closes
    <3>1. PICK n : n = 1 /\ n \in 0..1
      OBVIOUS
    <3>2. s = [sock EXCEPT !.connects = n]
      BY <2>1, <3>1
    <3> QED
      BY <3>1, <3>2 DEF SocketInv, CloseInv, SockType
  <2>3. SockKept(s, sock')
    BY <1>1, <2>1, <2>2, AfterReplyKept
  <2> QED
    BY <2>2, <2>3 DEF SockKept
<1>6. SocketInv'
  BY <1>1, <1>2, <1>3, <1>5, ReplyInv
<1>7. HandsOver(reply)
  BY <1>1, <1>4, <1>5, ReplyHands
<1> QED
  BY <1>1, <1>2, <1>4, <1>6, <1>7

\* Nothing was handed over.
LEMMA NothingHanded ==
  ASSUME tx.handed \in Seq(Items), HandsOver(<<>>), Queued(ticks', "written") => Queued(ticks, "written")
  PROVE  Calm
<1>1. PICK h : h = tx.handed
  OBVIOUS
<1>2. h \o <<>> = h
  BY <1>1
<1> QED
  BY <1>1, <1>2 DEF Calm, HandsOver

LEMMA TlsConnectTls ==
  ASSUME DialInv, SocketInv, TlsInv, tls.used, TlsConnect
  PROVE  SocketInv' /\ TlsInv'
<1>0. /\ tls \in TlsType /\ tx.handed \in Seq(Items) /\ rx \in RxType /\ peer' \in PeerType
      /\ UNCHANGED peer
      /\ NumbersOK(tls) /\ AppsOK(tx.handed, Len(tls.sent), sock.destroyed)
      /\ PhaseOK(tls, tx.handed, sock.destroyed)
      /\ Queued(ticks, "written") => tls.secure
      /\ <<>> \in Seq(Items)
  BY ItemsKnown DEF DialInv, SocketInv, FlowInv, Flow, TxType, TlsInv, TlsConnect
<1>1. CASE /\ tls.phase = "waiting" /\ EmitConnect(<<Flight(1)>>)
           /\ tls' = [tls EXCEPT !.phase = "handshaking"]
  <2>1. /\ SocketInv' /\ HandsOver(<<Flight(1)>>) /\ HasStream
        /\ UNCHANGED rx /\ (Queued(ticks', "written") => Queued(ticks, "written"))
    BY <1>1, EmitConnectInv, ItemsKnown
  <2>2. SameNumbers(tls, tls') /\ tls'.phase = "handshaking"
    BY <1>0, <1>1, PhaseMoves
  <2>3. NumbersOK(tls')
    BY <1>0, <2>2, NumbersSame
  <2>4. tls'.sent = tls.sent /\ tls'.secure = tls.secure /\ tls'.options = tls.options /\ ~tls.secure
        /\ tx.handed = <<>>
    BY <1>0, <1>1, <2>2 DEF SameNumbers, PhaseOK, Unstarted
  <2>5. ~sock.destroyed => AppsOK(tx.handed \o <<Flight(1)>>, Len(tls'.sent), FALSE)
    <3> SUFFICES ASSUME ~sock.destroyed
                 PROVE  AppsOK(tx.handed \o <<Flight(1)>>, Len(tls'.sent), FALSE)
      OBVIOUS
    <3>1. AppsOK(tx.handed, Len(tls.sent), FALSE)
      BY <1>0 DEF AppsOK
    <3> QED
      BY <1>0, <2>4, <3>1, ItemsKnown, MessageApps
  <2>6. PhaseOK(tls', tx'.handed, sock.destroyed)
    <3>1. tx'.handed = <<Flight(1)>> \/ (sock.destroyed /\ tx'.handed = <<>>)
      <4>1. PICK r : r = <<Flight(1)>>
        OBVIOUS
      <4>2. r \in Seq(Items)
        BY <4>1, ItemsKnown
      <4>3. <<>> \o r = r
        BY ONLY <4>2
      <4> QED
        BY <2>1, <2>4, <4>1, <4>3 DEF HandsOver
    <3> QED
      BY <2>2, <2>4, <3>1 DEF PhaseOK, Unstarted
  <2>7. Queued(ticks', "written") => tls'.secure
    BY <1>0, <2>1, <2>4
  <2>8. Len(tls.sent) <= Len(tls'.sent) /\ Len(tls.sent) \in Nat /\ Len(tls'.sent) \in Nat
    BY <1>0, <2>4, SentSame
  <2> QED
    BY <1>0, <2>1, <2>3, <2>5, <2>6, <2>7, <2>8, HandsTls
<1>2. CASE /\ EmitConnect(<<>>)
           /\ \/ tls' = [tls EXCEPT !.phase = "broken"] /\ tls.phase = "waiting"
              \/ UNCHANGED tls
  <2>1. /\ SocketInv' /\ HandsOver(<<>>) /\ HasStream
        /\ UNCHANGED rx /\ (Queued(ticks', "written") => Queued(ticks, "written"))
    BY <1>0, <1>2, EmitConnectInv
  <2>2. Calm
    BY <1>0, <2>1, NothingHanded
  <2>3. SameNumbers(tls, tls')
        /\ (tls'.phase = tls.phase \/ (tls.phase = "waiting" /\ tls'.phase = "broken"))
    <3>1. tls \in TlsType
      BY <1>0
    <3>2. CASE tls' = [tls EXCEPT !.phase = "broken"] /\ tls.phase = "waiting"
      <4>1. SameNumbers(tls, [tls EXCEPT !.phase = "broken"])
            /\ [tls EXCEPT !.phase = "broken"].phase = "broken"
        BY ONLY <3>1, PhaseMoves
      <4> QED
        BY ONLY <3>2, <4>1
    <3>3. CASE tls' = tls
      <4>1. SameNumbers(tls, tls)
        BY ONLY DEF SameNumbers
      <4> QED
        BY ONLY <3>3, <4>1
    <3> QED
      BY <1>2, <3>2, <3>3
  <2>4. NumbersOK(tls')
    BY <1>0, <2>3, NumbersSame
  <2>5. PhaseOK(tls', tx.handed, sock.destroyed)
    BY <1>0, <2>3 DEF PhaseOK, Unstarted, SameNumbers
  <2>6. HasStream'
    BY <2>1 DEF HandsOver
  <2>7. tls'.used /\ tls'.sent = tls.sent /\ tls'.secure = tls.secure
    BY <2>3 DEF SameNumbers
  <2>8. rx' \in RxType
    BY <1>0, <2>1
  <2> QED
    BY <1>0, <2>1, <2>2, <2>4, <2>5, <2>6, <2>7, <2>8, CalmTls
<1> QED
  BY <1>1, <1>2 DEF TlsConnect


-----------------------------------------------------------------------------
(* The chunks of the program *)

LEMMA AppendedSeq ==
  ASSUME NEW S, NEW s \in Seq(S), NEW x \in S, NEW r, r = Append(s, x)
  PROVE  r \in Seq(S) /\ Len(r) = Len(s) + 1 /\ r[Len(s) + 1] = x /\ Alike(r, s, Len(s))
<1>1. Len(r) = Len(s) + 1 /\ r[Len(s) + 1] = x /\ r \in Seq(S)
  OBVIOUS
<1>2. \A i \in 1..Len(s) : r[i] = s[i]
  OBVIOUS
<1> QED
  BY <1>1, <1>2 DEF Alike

\* A chunk more behind numbers that run.
LEMMA RunsAppend ==
  ASSUME NEW S, NEW s \in Seq(S), NEW x \in S, NEW r, r = Append(s, x), NEW k \in Nat,
         Runs(s, Len(s), k), x = k + Len(s) + 1
  PROVE  Len(r) = Len(s) + 1 /\ Runs(r, Len(s) + 1, k)
<1>0. Len(s) \in Nat
  OBVIOUS
<1>1. Len(r) = Len(s) + 1 /\ r[Len(s) + 1] = x /\ Alike(r, s, Len(s))
  BY ONLY s \in Seq(S), x \in S, r = Append(s, x), AppendedSeq
<1>2. PICK n : n = Len(s)
  OBVIOUS
<1>3. n \in Nat /\ Runs(s, n, k) /\ Alike(r, s, n) /\ r[n + 1] = k + n + 1
  BY <1>0, <1>1, <1>2
<1>4. Runs(r, n + 1, k)
  BY ONLY <1>3, RunsLonger
<1> QED
  BY <1>1, <1>2, <1>4

\* The chunk waits in the Writable.
LEMMA BufferMore ==
  ASSUME NEW t \in TlsType, NumbersOK(t), ~t.destroyed, t.writing,
         NEW n \in 1..Chunks, n = t.written + 1,
         NEW u, u.sent = t.sent, u.pending = t.pending, u.buffer = Append(t.buffer, n),
         u.written = n, u.writing = TRUE, u.destroyed = t.destroyed, u.secure = t.secure
  PROVE  NumbersOK(u)
<1>1. PICK s, p, b : Lengths(t, s, p, b)
  BY DEF Lengths
<1>2. s \in Nat /\ p \in Nat /\ b \in Nat /\ t.written \in Nat /\ NumbersOf(t, s, p, b)
  BY <1>1, NumbersLengths
<1>3. t.written = s + p + b /\ n = s + p + b + 1
  BY <1>2 DEF NumbersOf
<1>4. Len(u.buffer) = b + 1 /\ Runs(u.buffer, b + 1, s + p)
  <2>1. t.buffer \in Seq(1..Chunks) /\ Len(t.buffer) = b /\ Runs(t.buffer, b, s + p)
    BY <1>1, <1>2 DEF TlsType, Lengths, NumbersOf
  <2>2. s + p \in Nat /\ n = (s + p) + b + 1
    BY ONLY <1>2, <1>3
  <2>3. PICK c, q, k, S : c = t.buffer /\ q = u.buffer /\ k = s + p /\ S = 1..Chunks
    OBVIOUS
  <2>4. /\ c \in Seq(S) /\ n \in S /\ q = Append(c, n) /\ k \in Nat /\ Runs(c, Len(c), k)
        /\ n = k + Len(c) + 1
    BY <2>1, <2>2, <2>3
  <2>5. Len(q) = Len(c) + 1 /\ Runs(q, Len(c) + 1, k)
    BY ONLY <2>4, RunsAppend
  <2> QED
    BY <2>1, <2>3, <2>5
<1>5. u.written = s + p + (b + 1)
  BY <1>2, <1>3
<1>6. Len(u.sent) = s /\ Len(u.pending) = p
  BY <1>1 DEF Lengths
<1>7. Runs(u.sent, s, 0) /\ Runs(u.pending, p, s)
  BY <1>2 DEF NumbersOf
<1>8. (t.secure => u.pending = <<>>) /\ (~t.secure => u.sent = <<>>)
  BY DEF NumbersOK
<1> QED
  BY ONLY <1>4, <1>5, <1>6, <1>7, <1>8, ~t.destroyed, u.destroyed = t.destroyed, u.writing = TRUE,
          u.secure = t.secure
     DEF NumbersOK

\* The chunk waits in _chunks: nothing is encrypted yet.
LEMMA PendingMore ==
  ASSUME NEW t \in TlsType, NumbersOK(t), ~t.destroyed, ~t.writing, ~t.secure,
         NEW n \in 1..Chunks, n = t.written + 1,
         NEW u, u.sent = t.sent, u.buffer = t.buffer, u.pending = Append(t.pending, n),
         u.written = n, u.writing = TRUE, u.destroyed = t.destroyed, u.secure = t.secure
  PROVE  NumbersOK(u)
<1>1. PICK s, p, b : Lengths(t, s, p, b)
  BY DEF Lengths
<1>2. s \in Nat /\ p \in Nat /\ b \in Nat /\ t.written \in Nat /\ NumbersOf(t, s, p, b)
  BY <1>1, NumbersLengths
<1>3. t.written = s + p + b /\ s = 0 /\ b = 0
  BY <1>2 DEF NumbersOf
<1>4. Len(u.pending) = p + 1 /\ Runs(u.pending, p + 1, s)
  <2>1. t.pending \in Seq(1..Chunks) /\ Len(t.pending) = p /\ Runs(t.pending, p, s)
    BY <1>1, <1>2 DEF TlsType, Lengths, NumbersOf
  <2>2. n = s + p + 1
    BY ONLY <1>2, <1>3, n = t.written + 1
  <2>3. PICK c, q, S : c = t.pending /\ q = u.pending /\ S = 1..Chunks
    OBVIOUS
  <2>4. /\ c \in Seq(S) /\ n \in S /\ q = Append(c, n) /\ s \in Nat /\ Runs(c, Len(c), s)
        /\ n = s + Len(c) + 1
    BY <1>2, <2>1, <2>2, <2>3
  <2>5. Len(q) = Len(c) + 1 /\ Runs(q, Len(c) + 1, s)
    BY ONLY <2>4, RunsAppend
  <2> QED
    BY <2>1, <2>3, <2>5
<1>5. u.written = s + (p + 1) + b
  BY <1>2, <1>3
<1>6. Len(u.sent) = s /\ Len(u.buffer) = 0 /\ u.sent = <<>> /\ b = 0
  BY <1>1, <1>3 DEF Lengths, NumbersOK
<1>7. Runs(u.sent, s, 0) /\ Runs(u.buffer, 0, s + (p + 1))
  BY <1>2, RunsEmpty DEF NumbersOf
<1> QED
  BY ONLY <1>4, <1>5, <1>6, <1>7, ~t.destroyed, u.destroyed = t.destroyed, u.writing = TRUE,
          u.secure = t.secure, ~t.secure
     DEF NumbersOK

\* The chunk is encrypted at once.
LEMMA SentMore ==
  ASSUME NEW t \in TlsType, NumbersOK(t), ~t.destroyed, ~t.writing, t.secure,
         NEW n \in 1..Chunks, n = t.written + 1,
         NEW u, u.sent = Append(t.sent, n), u.buffer = t.buffer, u.pending = <<>>,
         u.written = n, u.writing = TRUE, u.destroyed = t.destroyed, u.secure = t.secure
  PROVE  NumbersOK(u) /\ Len(u.sent) = Len(t.sent) + 1 /\ n = Len(t.sent) + 1
<1>1. PICK s, p, b : Lengths(t, s, p, b)
  BY DEF Lengths
<1>2. s \in Nat /\ p \in Nat /\ b \in Nat /\ t.written \in Nat /\ NumbersOf(t, s, p, b)
  BY <1>1, NumbersLengths
<1>3. t.written = s + p + b /\ p = 0 /\ b = 0
  BY <1>2 DEF NumbersOf
<1>4. n = s + 1
  BY ONLY <1>2, <1>3, n = t.written + 1
<1>5. Len(u.sent) = s + 1 /\ Runs(u.sent, s + 1, 0) /\ Len(t.sent) = s
  <2>1. t.sent \in Seq(1..Chunks) /\ Len(t.sent) = s /\ Runs(t.sent, s, 0)
    BY <1>1, <1>2 DEF TlsType, Lengths, NumbersOf
  <2>2. n = 0 + s + 1
    BY ONLY <1>2, <1>4
  <2>3. PICK c, q, k, S : c = t.sent /\ q = u.sent /\ k = 0 /\ S = 1..Chunks
    OBVIOUS
  <2>4. /\ c \in Seq(S) /\ n \in S /\ q = Append(c, n) /\ k \in Nat /\ Runs(c, Len(c), k)
        /\ n = k + Len(c) + 1
    BY <2>1, <2>2, <2>3
  <2>5. Len(q) = Len(c) + 1 /\ Runs(q, Len(c) + 1, k)
    BY ONLY <2>4, RunsAppend
  <2> QED
    BY <2>1, <2>3, <2>5
<1>6. Len(u.pending) = 0 /\ Len(u.buffer) = 0 /\ u.written = (s + 1) + 0 + 0
  <2>1. Len(u.buffer) = b
    BY <1>1 DEF Lengths
  <2>2. Len(u.pending) = 0
    OBVIOUS
  <2>3. n = (s + 1) + 0 + 0
    BY ONLY <1>2, <1>4
  <2> QED
    BY <1>3, <2>1, <2>2, <2>3
<1>7. Runs(u.pending, 0, s + 1) /\ Runs(u.buffer, 0, (s + 1) + 0)
  BY RunsEmpty
<1> QED
  BY ONLY <1>4, <1>5, <1>6, <1>7, ~t.destroyed, u.destroyed = t.destroyed, u.writing = TRUE,
          u.secure = t.secure, t.secure, u.pending = <<>>
     DEF NumbersOK

\* The next chunk of the Writable is encrypted.
LEMMA BufferSent ==
  ASSUME NEW t \in TlsType, NumbersOK(t), ~t.destroyed, t.secure, t.buffer # <<>>,
         NEW u, u.sent = Append(t.sent, Head(t.buffer)), u.buffer = Tail(t.buffer),
         u.pending = t.pending, u.written = t.written, u.writing = t.writing,
         u.destroyed = t.destroyed, u.secure = t.secure
  PROVE  /\ NumbersOK(u) /\ Len(u.sent) = Len(t.sent) + 1 /\ Head(t.buffer) = Len(t.sent) + 1
         /\ Head(t.buffer) \in 1..Chunks
<1>1. PICK s, p, b : Lengths(t, s, p, b)
  BY DEF Lengths
<1>2. s \in Nat /\ p \in Nat /\ b \in Nat /\ t.written \in Nat /\ NumbersOf(t, s, p, b)
  BY <1>1, NumbersLengths
<1>3. t.written = s + p + b /\ p = 0 /\ t.writing
  BY <1>2 DEF NumbersOf, NumbersOK
<1>4. PICK S, c, d, a, q, x : /\ S = 1..Chunks /\ c = t.buffer /\ d = u.buffer /\ a = t.sent
                             /\ q = u.sent /\ x = Head(t.buffer)
  OBVIOUS
<1>5. /\ c \in Seq(S) /\ a \in Seq(S) /\ c # <<>> /\ d = Tail(c) /\ q = Append(a, x) /\ x = Head(c)
      /\ Len(c) = b /\ Len(a) = s /\ Runs(a, s, 0) /\ Runs(c, b, s + p)
  BY <1>1, <1>2, <1>4 DEF TlsType, Lengths, NumbersOf
<1>6. /\ x = c[1] /\ x \in S /\ Len(d) = b - 1 /\ b > 0
      /\ \A i \in 1..(b - 1) : d[i] = c[i + 1]
  BY ONLY <1>5, HeadTail
<1>7. x = s + 1 /\ Runs(d, b - 1, s + 1)
  <2>1. s + p = s /\ s \in Nat
    BY ONLY <1>2, <1>3
  <2>2. Runs(c, b, s)
    BY ONLY <1>5, <2>1
  <2>3. c[1] = s + 1 /\ Runs(d, b - 1, s + 1)
    BY ONLY <1>2, <1>6, <2>2, RunsTail
  <2> QED
    BY <1>6, <2>3
<1>8. Len(q) = s + 1 /\ Runs(q, s + 1, 0)
  <2>1. PICK k : k = 0
    OBVIOUS
  <2>2. k \in Nat /\ Runs(a, Len(a), k) /\ x = k + Len(a) + 1
    BY ONLY <1>2, <1>5, <1>7, <2>1
  <2>3. Len(q) = Len(a) + 1 /\ Runs(q, Len(a) + 1, k)
    BY ONLY <1>5, <1>6, <2>2, RunsAppend
  <2> QED
    BY ONLY <1>5, <2>1, <2>3
<1>9. /\ Len(u.sent) = s + 1 /\ Len(u.pending) = 0 /\ Len(u.buffer) = b - 1
      /\ Runs(u.sent, s + 1, 0) /\ Runs(u.pending, 0, s + 1)
  BY <1>1, <1>3, <1>4, <1>6, <1>8, RunsEmpty DEF Lengths
<1>10. Runs(u.buffer, b - 1, (s + 1) + 0) /\ u.written = (s + 1) + 0 + (b - 1)
  <2>1. (s + 1) + 0 = s + 1 /\ s + p + b = (s + 1) + 0 + (b - 1)
    BY ONLY <1>2, <1>3
  <2> QED
    BY <1>3, <1>4, <1>7, <2>1
<1>11. u.pending = <<>>
  BY DEF NumbersOK
<1>12. NumbersOK(u)
  BY ONLY <1>3, <1>9, <1>10, <1>11, ~t.destroyed, u.destroyed = t.destroyed, u.writing = t.writing,
          u.secure = t.secure, t.secure
     DEF NumbersOK
<1> QED
  BY <1>4, <1>5, <1>6, <1>7, <1>9, <1>12

\* What is written to a secure socket: the n-th chunk goes out after n - 1.
LEMMA ChunkTls ==
  ASSUME DialInv, SocketInv, TlsInv, tls.used, tls.secure, UNCHANGED <<dial, stream, rx, peer>>,
         Follows(ticks, ticks'), NEW n \in 1..Chunks, n = Len(tls.sent) + 1,
         Len(tls'.sent) = Len(tls.sent) + 1, NumbersOK(tls'),
         tls'.secure = tls.secure, tls'.phase = tls.phase, tls'.options = tls.options,
         tx' = WrittenAll(tx, <<App(n)>>), sock' = AfterReply(sock, <<App(n)>>)
  PROVE  SocketInv' /\ TlsInv'
<1>0. /\ tls \in TlsType /\ tx.handed \in Seq(Items) /\ rx' \in RxType /\ peer' \in PeerType
      /\ NumbersOK(tls) /\ AppsOK(tx.handed, Len(tls.sent), sock.destroyed)
      /\ PhaseOK(tls, tx.handed, sock.destroyed)
      /\ tls.phase \notin Unstarted => HasStream
  BY DEF DialInv, SocketInv, FlowInv, Flow, TxType, TlsInv
<1>1. PICK r : r = <<App(n)>>
  OBVIOUS
<1>2. r \in Seq(Items) /\ Len(r) = 1 /\ r[1] = App(n) /\ r # <<>>
  <2>1. PICK x : x = App(n)
    OBVIOUS
  <2>2. x \in Items /\ r = <<x>>
    BY <1>1, <2>1, ItemsKnown
  <2>3. r \in Seq(Items) /\ Len(r) = 1 /\ r[1] = x /\ r # <<>>
    BY ONLY <2>2
  <2> QED
    BY <2>1, <2>3
<1>3. SockKept(sock, sock')
  BY AfterReplyKept DEF SocketInv, CloseInv
<1>4. HasStream /\ tls.phase \in {"connected", "closed"}
  BY <1>0 DEF PhaseOK, Unstarted
<1>5. SocketInv'
  BY <1>1, <1>2, <1>3, ReplyInv
<1>6. HandsOver(r)
  BY <1>1, <1>2, <1>3, <1>4, ReplyHands
<1>7. ~sock.destroyed => AppsOK(tx.handed \o r, Len(tls'.sent), FALSE)
  <2> SUFFICES ASSUME ~sock.destroyed PROVE AppsOK(tx.handed \o r, Len(tls'.sent), FALSE)
    OBVIOUS
  <2>1. PICK m : m = Len(tls.sent)
    OBVIOUS
  <2>2. m \in Nat /\ Len(tls'.sent) = m + 1 /\ n = m + 1
    BY <1>0, <2>1 DEF TlsType
  <2>3. AppsOK(tx.handed, m, FALSE) /\ Opened(tx.handed)
    BY <1>0, <2>1 DEF AppsOK, PhaseOK
  <2>4. \A i \in 1..Len(r) : r[i] = App(m + i)
    <3>1. \A i \in 1..1 : i = 1
      OBVIOUS
    <3> QED
      BY ONLY <1>2, <2>2, <3>1
  <2>5. PICK h, g : h = tx.handed /\ g = tx.handed \o r
    OBVIOUS
  <2>6. h \in Seq(Items) /\ AppsOK(h, m, FALSE) /\ Opened(h) /\ g = h \o r
    BY <1>0, <2>3, <2>5
  <2>7. AppsOK(g, m + Len(r), FALSE)
    BY ONLY <1>2, <2>2, <2>4, <2>6, ChunksApps
  <2> QED
    BY ONLY <1>2, <2>2, <2>5, <2>7
<1>8. PhaseOK(tls', tx'.handed, sock.destroyed)
  <2>1. sock.destroyed \/ Opened(tx'.handed)
    BY <1>0, <1>2, <1>6, OpenedStays DEF PhaseOK
  <2> QED
    BY <1>4, <2>1 DEF PhaseOK, Unstarted
<1>9. Len(tls.sent) <= Len(tls'.sent) /\ Len(tls.sent) \in Nat /\ Len(tls'.sent) \in Nat
  <2>1. PICK m, l : m = Len(tls.sent) /\ l = Len(tls'.sent)
    OBVIOUS
  <2>2. m \in Nat /\ l = m + 1
    BY <1>0, <2>1 DEF TlsType
  <2>3. m <= l /\ l \in Nat
    BY ONLY <2>2
  <2> QED
    BY <2>1, <2>2, <2>3
<1> QED
  BY <1>0, <1>4, <1>5, <1>6, <1>7, <1>8, <1>9, HandsTls

LEMMA TlsWriteTls ==
  ASSUME DialInv, SocketInv, TlsInv, tls.used, TlsWrite
  PROVE  SocketInv' /\ TlsInv'
<1>0. /\ tls \in TlsType /\ NumbersOK(tls) /\ ticks \in Seq(ClientTick)
      /\ UNCHANGED <<dial, stream, rx, peer>>
      /\ ~tls.destroyed /\ tls.written < Chunks /\ CloseInv
  BY DEF DialInv, TlsInv, TlsWrite, SocketInv
<1>1. PICK n : n = tls.written + 1
  OBVIOUS
<1>2. n \in 1..Chunks /\ n \in 0..Chunks
  BY <1>0, <1>1, TlsAssumption DEF TlsType, TlsAssumption
<1>3. PICK w : w = [tls EXCEPT !.written = n, !.writing = TRUE]
  OBVIOUS
<1>4. /\ w \in TlsType /\ w.pending = tls.pending /\ w.buffer = tls.buffer /\ w.sent = tls.sent
      /\ w.written = n /\ w.writing = TRUE /\ w.destroyed = tls.destroyed /\ w.secure = tls.secure
      /\ w.phase = tls.phase /\ w.options = tls.options /\ w.used = tls.used
  BY <1>0, <1>2, <1>3 DEF TlsType
<1>5. CASE /\ tls.writing /\ tls' = [w EXCEPT !.buffer = Append(@, n)]
           /\ UNCHANGED <<sock, tx, ticks>>
  <2>1. PICK b : b = Append(tls.buffer, n)
    OBVIOUS
  <2>2. tls' = [w EXCEPT !.buffer = b]
    BY <1>4, <1>5, <2>1 DEF TlsType
  <2>3. /\ tls'.sent = tls.sent /\ tls'.pending = tls.pending /\ tls'.buffer = b
        /\ tls'.written = n /\ tls'.writing = TRUE /\ tls'.destroyed = tls.destroyed
        /\ tls'.secure = tls.secure /\ tls'.phase = tls.phase /\ tls'.options = tls.options
        /\ tls'.used = tls.used
    BY <1>4, <2>2 DEF TlsType
  <2>4. NumbersOK(tls')
    BY <1>0, <1>1, <1>2, <1>5, <2>1, <2>3, BufferMore
  <2>5. Follows(ticks, ticks') /\ (Queued(ticks', "written") => Queued(ticks, "written"))
    BY <1>0, <1>5, SameKept DEF Queued
  <2> QED
    BY <1>0, <1>5, <2>3, <2>4, <2>5, AloneTls
<1>6. CASE /\ ~tls.writing /\ ~tls.secure /\ tls' = [w EXCEPT !.pending = Append(@, n)]
           /\ UNCHANGED <<sock, tx, ticks>>
  <2>1. PICK b : b = Append(tls.pending, n)
    OBVIOUS
  <2>2. tls' = [w EXCEPT !.pending = b]
    BY <1>4, <1>6, <2>1 DEF TlsType
  <2>3. /\ tls'.sent = tls.sent /\ tls'.buffer = tls.buffer /\ tls'.pending = b
        /\ tls'.written = n /\ tls'.writing = TRUE /\ tls'.destroyed = tls.destroyed
        /\ tls'.secure = tls.secure /\ tls'.phase = tls.phase /\ tls'.options = tls.options
        /\ tls'.used = tls.used
    BY <1>4, <2>2 DEF TlsType
  <2>4. NumbersOK(tls')
    BY <1>0, <1>1, <1>2, <1>6, <2>1, <2>3, PendingMore
  <2>5. Follows(ticks, ticks') /\ (Queued(ticks', "written") => Queued(ticks, "written"))
    BY <1>0, <1>6, SameKept DEF Queued
  <2> QED
    BY <1>0, <1>6, <2>3, <2>4, <2>5, AloneTls
<1>7. CASE /\ ~tls.writing /\ tls.secure /\ tls' = [Flush(w) EXCEPT !.sent = Append(@, n)]
           /\ tx' = WrittenAll(tx, Append(Records(tls.pending), App(n)))
           /\ sock' = AfterReply(sock, <<App(n)>>)
           /\ ticks' = ticks \o [i \in 1..Len(tls.pending) + 1 |-> "written"]
  <2>1. tls.pending = <<>>
    BY <1>0, <1>7 DEF NumbersOK
  <2>2. Append(Records(tls.pending), App(n)) = <<App(n)>>
    <3>1. PICK r : r = Records(tls.pending)
      OBVIOUS
    <3>2. r = <<>>
      BY <2>1, <3>1 DEF Records
    <3> QED
      BY <3>1, <3>2
  <2>3. Follows(ticks, ticks')
    <3>1. PICK m : m = Len(tls.pending) + 1
      OBVIOUS
    <3>2. m \in Nat /\ ticks' = ticks \o [i \in 1..m |-> "written"]
      BY <1>0, <1>7, <3>1 DEF TlsType
    <3> QED
      BY <1>0, <3>2, FollowsWritten
  <2>4. PICK a : a = Append(tls.sent, n)
    OBVIOUS
  <2>5. /\ tls'.sent = a /\ tls'.buffer = tls.buffer /\ tls'.pending = <<>>
        /\ tls'.written = n /\ tls'.writing = TRUE /\ tls'.destroyed = tls.destroyed
        /\ tls'.secure = tls.secure /\ tls'.phase = tls.phase /\ tls'.options = tls.options
    <3>1. PICK f : f = Flush(w)
      OBVIOUS
    <3>2. PICK z : z = w.sent \o w.pending
      OBVIOUS
    <3>3. z = tls.sent
      <4>1. PICK y : y = tls.sent
        OBVIOUS
      <4>2. PICK S : S = 1..Chunks
        OBVIOUS
      <4>3. y \in Seq(S)
        BY <1>0, <4>1, <4>2 DEF TlsType
      <4>4. y \o <<>> = y
        BY ONLY <4>3
      <4> QED
        BY <1>4, <2>1, <3>2, <4>1, <4>4
    <3>4. PICK e : e = <<>> /\ e \in Seq(1..Chunks)
      <4>1. <<>> \in Seq(1..Chunks)
        OBVIOUS
      <4> QED
        BY <4>1
    <3>5. f = [w EXCEPT !.sent = z, !.pending = e]
      BY <1>4, <3>1, <3>2, <3>4 DEF Flush, TlsType
    <3>6. z \in Seq(1..Chunks)
      BY <1>0, <3>3 DEF TlsType
    <3>7. /\ f \in TlsType /\ f.sent = tls.sent /\ f.buffer = w.buffer /\ f.pending = e
          /\ f.written = w.written /\ f.writing = w.writing /\ f.destroyed = w.destroyed
          /\ f.secure = w.secure /\ f.phase = w.phase /\ f.options = w.options
      BY <1>4, <3>3, <3>4, <3>5, <3>6 DEF TlsType
    <3>8. tls' = [f EXCEPT !.sent = a]
      BY <1>7, <2>4, <3>1, <3>7 DEF TlsType
    <3>9. /\ tls'.sent = a /\ tls'.buffer = f.buffer /\ tls'.pending = f.pending
          /\ tls'.written = f.written /\ tls'.writing = f.writing /\ tls'.destroyed = f.destroyed
          /\ tls'.secure = f.secure /\ tls'.phase = f.phase /\ tls'.options = f.options
      BY ONLY <3>7, <3>8 DEF TlsType
    <3> QED
      BY <1>4, <3>4, <3>7, <3>9
  <2>6. NumbersOK(tls') /\ Len(tls'.sent) = Len(tls.sent) + 1 /\ n = Len(tls.sent) + 1
    BY <1>0, <1>1, <1>2, <1>7, <2>4, <2>5, SentMore
  <2> QED
    BY <1>0, <1>2, <1>7, <2>2, <2>3, <2>5, <2>6, ChunkTls
<1> QED
  <2>1. \/ /\ tls.writing /\ tls' = [w EXCEPT !.buffer = Append(@, n)]
           /\ UNCHANGED <<sock, tx, ticks>>
        \/ /\ ~tls.writing /\ ~tls.secure /\ tls' = [w EXCEPT !.pending = Append(@, n)]
           /\ UNCHANGED <<sock, tx, ticks>>
        \/ /\ ~tls.writing /\ tls.secure /\ tls' = [Flush(w) EXCEPT !.sent = Append(@, n)]
           /\ tx' = WrittenAll(tx, Append(Records(tls.pending), App(n)))
           /\ sock' = AfterReply(sock, <<App(n)>>)
           /\ ticks' = ticks \o [i \in 1..Len(tls.pending) + 1 |-> "written"]
    BY <1>1, <1>3 DEF TlsWrite
  <2> QED
    BY <1>5, <1>6, <1>7, <2>1

LEMMA TlsWrittenTls ==
  ASSUME DialInv, SocketInv, TlsInv, tls.used, TlsWritten
  PROVE  SocketInv' /\ TlsInv'
<1>0. /\ tls \in TlsType /\ NumbersOK(tls) /\ ticks \in Seq(ClientTick) /\ ticks # <<>>
      /\ UNCHANGED <<dial, stream, rx, peer>> /\ Head(ticks) = "written"
      /\ Queued(ticks, "written") => tls.secure
  BY DEF DialInv, TlsInv, TlsWritten
<1>1. "written" \in ClientTick /\ "close" \in ClientTick /\ "written" # "close"
  BY DEF ClientTick
<1>2. /\ Follows(ticks, Tail(ticks)) /\ Tail(ticks) \in Seq(ClientTick)
      /\ Queued(Tail(ticks), "written") => Queued(ticks, "written")
      /\ Queued(ticks, "written")
  BY ONLY <1>0, <1>1, FollowsTaken
<1>3. CASE /\ tls.buffer = <<>> \/ tls.destroyed
           /\ tls' = [tls EXCEPT !.writing = FALSE] /\ ticks' = Tail(ticks)
           /\ UNCHANGED <<sock, tx>>
  <2>1. /\ tls'.sent = tls.sent /\ tls'.pending = tls.pending /\ tls'.buffer = tls.buffer
        /\ tls'.written = tls.written /\ tls'.destroyed = tls.destroyed
        /\ tls'.secure = tls.secure /\ tls'.phase = tls.phase /\ tls'.options = tls.options
        /\ tls'.used = tls.used
    BY <1>0, <1>3 DEF TlsType
  <2>2. tls.buffer = <<>>
    BY <1>0, <1>3 DEF NumbersOK
  <2>3. NumbersOK(tls')
    BY <1>0, <2>1, <2>2 DEF NumbersOK
  <2> QED
    BY <1>0, <1>2, <1>3, <2>1, <2>3, AloneTls
<1>4. CASE /\ tls.buffer # <<>> /\ ~tls.destroyed
           /\ tls' = [tls EXCEPT !.buffer = Tail(@), !.sent = Append(@, Head(tls.buffer))]
           /\ ticks' = Append(Tail(ticks), "written")
           /\ tx' = WrittenAll(tx, <<App(Head(tls.buffer))>>)
           /\ sock' = AfterReply(sock, <<App(Head(tls.buffer))>>)
  <2>1. PICK d, a : d = Tail(tls.buffer) /\ a = Append(tls.sent, Head(tls.buffer))
    OBVIOUS
  <2>2. tls' = [tls EXCEPT !.buffer = d, !.sent = a]
    BY <1>0, <1>4, <2>1 DEF TlsType
  <2>3. /\ tls'.sent = a /\ tls'.pending = tls.pending /\ tls'.buffer = d
        /\ tls'.written = tls.written /\ tls'.destroyed = tls.destroyed
        /\ tls'.writing = tls.writing
        /\ tls'.secure = tls.secure /\ tls'.phase = tls.phase /\ tls'.options = tls.options
    BY <1>0, <2>2 DEF TlsType
  <2>4. /\ NumbersOK(tls') /\ Len(tls'.sent) = Len(tls.sent) + 1
        /\ Head(tls.buffer) = Len(tls.sent) + 1 /\ Head(tls.buffer) \in 1..Chunks
    BY <1>0, <1>2, <1>4, <2>1, <2>3, BufferSent
  <2>5. Follows(ticks, ticks')
    <3>1. PICK t : t = Tail(ticks)
      OBVIOUS
    <3>2. Follows(t, Append(t, "written"))
      BY ONLY <1>1, <1>2, <3>1, FollowsAdded
    <3>3. Follows(ticks, Append(t, "written"))
      BY ONLY <1>2, <3>1, <3>2 DEF Follows
    <3> QED
      BY <1>4, <3>1, <3>3
  <2> QED
    BY <1>0, <1>2, <1>4, <2>3, <2>4, <2>5, ChunkTls
<1> QED
  BY <1>3, <1>4 DEF TlsWritten

-----------------------------------------------------------------------------
(* The peer *)

\* The peer speaks.
LEMMA PeerSendsTls ==
  ASSUME DialInv, SocketInv, TlsInv, NEW signal \in Signals \cup {"eof"}, PeerSends(signal),
         UNCHANGED tls, peer' \in PeerType
  PROVE  SocketInv' /\ TlsInv'
<1>0. /\ rx \in RxType /\ UNCHANGED <<sock, dial, stream, tx, ticks>>
      /\ rx' = [queue |-> Append(rx.queue, signal), over |-> signal = "eof"]
  BY DEF TlsInv, PeerSends
<1>1. SocketInv'
  BY <1>0, SameKept, IdleInv DEF SocketInv
<1>2. Calm
  BY <1>0 DEF Calm, HasStream, Queued
<1>3. PICK q : q = Append(rx.queue, signal)
  OBVIOUS
<1>4. /\ q \in Seq(Signals \cup {"eof"}) /\ rx.queue \in Seq(Signals \cup {"eof"})
      /\ Len(q) = Len(rx.queue) + 1 /\ q[Len(rx.queue) + 1] = signal /\ Len(rx.queue) \in Nat
      /\ Alike(q, rx.queue, Len(rx.queue))
  <2>1. PICK S, r : S = Signals \cup {"eof"} /\ r = rx.queue
    OBVIOUS
  <2>2. r \in Seq(S)
    BY <1>0, <2>1 DEF RxType
  <2>3. signal \in S
    BY <2>1
  <2>4. q = Append(r, signal)
    BY <1>3, <2>1
  <2>5. q \in Seq(S) /\ Len(q) = Len(r) + 1 /\ q[Len(r) + 1] = signal /\ Alike(q, r, Len(r))
    <3>1. q \in Seq(S) /\ Len(q) = Len(r) + 1 /\ q[Len(r) + 1] = signal
      BY ONLY <2>2, <2>3, <2>4
    <3>2. \A i \in 1..Len(r) : q[i] = r[i]
      BY ONLY <2>2, <2>3, <2>4
    <3> QED
      BY ONLY <3>1, <3>2 DEF Alike
  <2>6. Len(r) \in Nat
    BY ONLY <2>2
  <2> QED
    BY <2>1, <2>2, <2>5, <2>6
<1>5. rx' \in RxType /\ rx'.queue = q
  <2>1. (signal = "eof") \in BOOLEAN
    OBVIOUS
  <2>2. PICK b \in BOOLEAN : b = (signal = "eof")
    BY <2>1
  <2>3. rx' = [queue |-> q, over |-> b]
    BY <1>0, <1>3, <2>2
  <2> QED
    BY <1>4, <2>3 DEF RxType
<1>6. tls.used => /\ tls'.phase \notin Unstarted => HasStream'
                  /\ NumbersOK(tls') /\ tls'.sent = tls.sent
                  /\ PhaseOK(tls', tx.handed, sock.destroyed)
                  /\ tls.secure => tls'.secure
  BY <1>2 DEF TlsInv, Calm
<1> QED
  BY <1>1, <1>2, <1>5, <1>6, CalmTls

LEMMA SignalsKnown ==
  /\ \A s \in {"finished", "data", "alert", "closeNotify"} : s \in Signals
  /\ \A c \in Certificates : c \in Signals /\ c \in AllCertificates
BY TlsAssumption DEF TlsAssumption, AllCertificates

LEMMA PeerSaysTls ==
  ASSUME DialInv, SocketInv, TlsInv,
         NEW signal \in {"finished", "data", "alert", "closeNotify", "eof"},
         NEW said \in {"finished", "data", "over"}, PeerSays(signal, said)
  PROVE  SocketInv' /\ TlsInv'
<1>1. signal \in Signals \cup {"eof"}
  BY SignalsKnown
<1>2. UNCHANGED tls /\ PeerSends(signal) /\ peer' \in PeerType
  BY DEF PeerSays, TlsInv, PeerType
<1> QED
  BY <1>1, <1>2, PeerSendsTls

LEMMA PeerTls ==
  ASSUME DialInv, SocketInv, TlsInv, PeerAnswers \/ PeerTalks
  PROVE  SocketInv' /\ TlsInv'
<1>1. CASE /\ peer.said = "nothing" /\ UNCHANGED tls
           /\ \E c \in Certificates : /\ PeerSends(c)
                                      /\ peer' = [certificate |-> c, said |-> "certificate"]
  <2>1. PICK c \in Certificates : /\ PeerSends(c)
                                  /\ peer' = [certificate |-> c, said |-> "certificate"]
    BY <1>1
  <2>2. c \in Signals /\ c \in AllCertificates
    BY SignalsKnown
  <2>3. peer' \in PeerType
    BY <2>1, <2>2 DEF PeerType
  <2> QED
    BY <1>1, <2>1, <2>2, <2>3, PeerSendsTls
<1>2. CASE \/ PeerSays("finished", "finished") \/ PeerSays("data", "data")
           \/ PeerSays("closeNotify", "over") \/ PeerSays("alert", "over") \/ PeerSays("eof", "over")
  BY <1>2, PeerSaysTls
<1> QED
  BY <1>1, <1>2 DEF PeerAnswers, PeerTalks

-----------------------------------------------------------------------------
(* The steps together *)

LEMMA AppOut ==
  ASSUME DialInv, SocketInv, TlsInv, ~tls.used, UNCHANGED <<tls, peer>>, NEW n \in 1..Chunks,
         ProgramWrites(App(n))
  PROVE  SocketInv' /\ TlsInv'
<1>1. /\ ~sock.destroyed /\ tx' = Written(tx, <<App(n)>>)
      /\ UNCHANGED <<sock, dial, stream, rx, ticks>>
  BY DEF ProgramWrites
<1>2. PICK r : r = <<App(n)>>
  OBVIOUS
<1>3. r \in Seq(Items) /\ r # <<>>
  <2>1. PICK x : x = App(n)
    OBVIOUS
  <2>2. x \in Items /\ r = <<x>>
    BY <1>2, <2>1, ItemsKnown
  <2> QED
    BY ONLY <2>2
<1>4. tx' = WrittenAll(tx, r)
  BY <1>1, <1>2, <1>3 DEF WrittenAll
<1>5. SocketInv'
  BY <1>1, <1>3, <1>4, SameKept, ReplyInv DEF SocketInv
<1>6. rx' \in RxType /\ peer' \in PeerType /\ ~tls'.used
  BY <1>1 DEF TlsInv
<1> QED
  BY <1>5, <1>6, TlsPrimed

LEMMA PlainTls ==
  ASSUME DialInv, SocketInv, TlsInv, ~tls.used, Plain
  PROVE  SocketInv' /\ TlsInv'
<1>0. /\ UNCHANGED tls /\ rx \in RxType /\ <<>> \in Seq(Items) /\ ~tls'.used
      /\ tx \in TxType
  BY ItemsKnown DEF Plain, PeerSays, TlsInv, SocketInv, FlowInv, Flow
<1>1. CASE EmitConnect(<<>>) /\ UNCHANGED <<tls, peer>>
  <2>1. SocketInv' /\ UNCHANGED rx
    BY <1>0, <1>1, EmitConnectInv
  <2>2. rx' \in RxType /\ peer' \in PeerType
    BY <1>1, <2>1 DEF TlsInv
  <2> QED
    BY <1>0, <2>1, <2>2, TlsPrimed
<1>2. CASE EmitClose /\ UNCHANGED <<tls, peer>>
  BY <1>2, EmitCloseTls
<1>3. CASE Pull(<<>>) /\ UNCHANGED <<ticks, tls, peer>>
  <2>1. Follows(ticks, ticks')
    BY <1>3, SameKept DEF SocketInv
  <2>2. SocketInv' /\ rx' \in RxType
    BY <1>0, <1>3, <2>1, PullInv
  <2>3. peer' \in PeerType
    BY <1>3 DEF TlsInv
  <2> QED
    BY <1>0, <2>2, <2>3, TlsPrimed
<1>4. CASE PullEnd /\ UNCHANGED <<tls, peer>>
  BY <1>4, EndTls
<1>5. CASE EndSocket /\ UNCHANGED <<tls, peer>>
  <2>1. SocketInv'
    BY <1>5, EndSocketInv
  <2>2. rx' \in RxType /\ peer' \in PeerType
    BY <1>0, <1>5 DEF TlsInv, EndSocket
  <2> QED
    BY <1>0, <2>1, <2>2, TlsPrimed
<1>6. CASE /\ Len(tx.handed) < Chunks /\ ProgramWrites(App(Len(tx.handed) + 1))
           /\ UNCHANGED <<tls, peer>>
  <2>1. PICK n : n = Len(tx.handed) + 1
    OBVIOUS
  <2>2. Len(tx.handed) \in Nat /\ Chunks \in Nat
    BY <1>0, TlsAssumption DEF TxType, TlsAssumption
  <2>3. n \in 1..Chunks
    BY <1>6, <2>1, <2>2
  <2> QED
    BY <1>0, <1>6, <2>1, <2>3, AppOut
<1>7. CASE PeerSays("data", "data") \/ PeerSays("eof", "over")
  BY <1>7, PeerSaysTls
<1> QED
  BY <1>1, <1>2, <1>3, <1>4, <1>5, <1>6, <1>7 DEF Plain

LEMMA SecuredTls ==
  ASSUME DialInv, SocketInv, TlsInv, tls.used, Secured
  PROVE  SocketInv' /\ TlsInv'
<1>1. CASE TlsSocketCloses
  <2>1. EmitClose /\ UNCHANGED peer /\ (tls' = tls \/ tls' = Closed(tls))
    BY <1>1 DEF TlsSocketCloses
  <2> QED
    BY <2>1, EmitCloseTls
<1>2. CASE AlertArrives \/ CloseNotifyArrives
  <2>1. /\ UNCHANGED <<ticks, peer>> /\ Pull(<<Alert>>)
        /\ tls' = Shut(tls) \/ tls' = [Shut(tls) EXCEPT !.errors = 1]
        /\ tls.phase \notin Unstarted
    BY <1>2 DEF AlertArrives, CloseNotifyArrives, Session, Handshaking, Unstarted
  <2> QED
    BY <2>1, ShutTls
<1>3. CASE EndArrives
  BY <1>3, EndTls DEF EndArrives
<1>4. CASE PeerAnswers \/ PeerTalks
  BY <1>4, PeerTls
<1>5. CASE Wrap \/ TlsWrite \/ TlsWritten
  BY <1>5, WrapTls, TlsWriteTls, TlsWrittenTls
<1>6. CASE TlsDestroy \/ TlsEmitClose \/ TlsConnect
  BY <1>6, TlsDestroyTls, TlsEmitCloseTls, TlsConnectTls
<1>7. CASE CertificateArrives \/ FinishedArrives \/ DataArrives \/ IgnoredArrives
  BY <1>7, CertificateTls, FinishedTls, SilentTls
<1> QED
  BY <1>1, <1>2, <1>3, <1>4, <1>5, <1>6, <1>7 DEF Secured

LEMMA ClientKeeps ==
  DialInv /\ SocketInv /\ TlsInv /\ [ClientNext]_clientVars => SocketInv' /\ TlsInv'
<1> SUFFICES ASSUME DialInv, SocketInv, TlsInv, [ClientNext]_clientVars
             PROVE  SocketInv' /\ TlsInv'
  OBVIOUS
<1>1. CASE UNCHANGED clientVars
  <2>1. UNCHANGED <<sock, dial, stream, tx, rx, ticks, tls, peer>>
    BY <1>1 DEF clientVars, socketVars
  <2>2. SocketInv'
    BY <2>1, SameKept, IdleInv DEF SocketInv
  <2>3. Calm
    BY <2>1 DEF Calm, HasStream, Queued
  <2> QED
    BY <2>1, <2>2, <2>3, SocketStepsTls
<1>2. CASE SocketSteps /\ UNCHANGED <<tls, peer>>
  <2>1. SocketInv' /\ Calm /\ UNCHANGED rx
    BY <1>2, SocketStepsInv
  <2> QED
    BY <1>2, <2>1, SocketStepsTls
<1>3. CASE ~tls.used /\ Plain
  BY <1>3, PlainTls
<1>4. CASE tls.used /\ Secured
  BY <1>4, SecuredTls
<1> QED
  BY <1>1, <1>2, <1>3, <1>4 DEF ClientNext

LEMMA ClientStart ==
  ClientInit => SocketInv /\ TlsInv
<1> SUFFICES ASSUME ClientInit PROVE SocketInv /\ TlsInv
  OBVIOUS
<1>1. PICK e : e = <<>>
  OBVIOUS
<1>2. e \in Seq(Items) /\ Len(e) = 0 /\ e = <<>> /\ e \in Seq(Signals \cup {"eof"}) /\ e \in Seq(1..Chunks)
  BY ONLY <1>1
<1>3. /\ stream.state = "none" /\ sock.destroyed = FALSE /\ sock.closes = 0
      /\ tx = [handed |-> e, dropped |-> 0, buffer |-> e, fifo |-> e, taken |-> FALSE,
               acked |-> 0, remote |-> e, ended |-> FALSE]
      /\ rx = [queue |-> e, over |-> FALSE] /\ ticks = e /\ dial.awaiting = "nothing"
      /\ peer = [certificate |-> "none", said |-> "nothing"]
  BY <1>1 DEF ClientInit, SocketInit
<1>4. sock \in SockType
  <2>1. PICK z : z = 0 /\ z \in 0..1 /\ z \in 0..2
    OBVIOUS
  <2>2. sock \in [lib : {"node", "readable"}, listens : BOOLEAN, destroyed : {FALSE},
                  failed : {FALSE}, ended : {FALSE}, connects : {z}, closes : {z},
                  errors : {z}, uncaught : {FALSE}]
    BY <2>1 DEF ClientInit, SocketInit
  <2> QED
    BY <2>1, <2>2 DEF SockType
<1>5. tx \in TxType
  <2>1. 0 \in Nat
    OBVIOUS
  <2> QED
    BY <1>2, <1>3, <2>1 DEF TxType
<1>6. FlowInv
  <2>1. Counts(tx, 0, 0, 0, 0, 0)
    BY <1>2, <1>3 DEF Counts
  <2>2. FlowOf(tx, 0, 0, 0, 0, 0, FALSE, FALSE)
    BY <1>3, AtEmpty DEF FlowOf, UnderWay
  <2>3. Flow(tx, FALSE, FALSE)
    BY <1>5, <2>1, <2>2, FlowNumbers
  <2>4. ~HasStream
    BY <1>3 DEF HasStream
  <2> QED
    BY <1>3, <2>3, <2>4 DEF FlowInv, Flow, Accounted
<1>7. CloseInv
  BY <1>2, <1>3, <1>4 DEF CloseInv, OneClose, Queued
<1>8. ArrivedOpen
  BY <1>3 DEF ArrivedOpen, Arrived
<1>9. rx \in RxType /\ peer \in PeerType
  BY <1>2, <1>3 DEF RxType, PeerType
<1>10. PICK used, o : tls = NewTls(used, o)
  BY DEF ClientInit
<1>11. /\ tls.sent = e /\ tls.pending = e /\ tls.buffer = e /\ tls.phase = "none"
       /\ tls.secure = FALSE /\ tls.written = 0 /\ tls.destroyed = FALSE
  BY <1>1, <1>10 DEF NewTls
<1>12. NumbersOK(tls)
  BY <1>2, <1>11, RunsEmpty DEF NumbersOK
<1>13. AppsOK(tx.handed, Len(tls.sent), sock.destroyed)
  <2>1. AppsIn(e, 0) = 0
    <3>1. {j \in 1..0 : IsApp(e[j])} = {}
      OBVIOUS
    <3> QED
      BY <3>1, FS_EmptySet DEF AppsIn
  <2> QED
    BY <1>2, <1>3, <1>11, <2>1 DEF AppsOK
<1>14. PhaseOK(tls, tx.handed, sock.destroyed)
  BY <1>2, <1>3, <1>11 DEF PhaseOK, Unstarted
<1>15. ~Queued(ticks, "written") /\ tx.dropped = 0 /\ tls.phase \in Unstarted
  BY <1>2, <1>3, <1>11 DEF Queued, Unstarted
<1> QED
  BY <1>6, <1>7, <1>8, <1>9, <1>12, <1>13, <1>14, <1>15 DEF SocketInv, TlsInv

ClientInv == DialInv /\ SocketInv /\ TlsInv

LEMMA ClientAlways ==
  StackSpec => []ClientInv
<1>1. StackInit => ClientInv
  BY DialInit, ClientStart DEF StackInit, ClientInv
<1>2. ClientInv /\ [StackNext]_stackVars => ClientInv'
  BY StackParts, DialNext, ClientKeeps DEF ClientInv
<1> QED
  BY <1>1, <1>2, PTL DEF StackSpec

-----------------------------------------------------------------------------
(* What a client socket promises *)

\* r, f and b stand one after the other in h, after the first d.
Placed(h, d, r, f, b) ==
    /\ At(h, d, r, Len(r)) /\ At(h, d + Len(r), f, Len(f)) /\ At(h, d + Len(r) + Len(f), b, Len(b))
    /\ d + Len(r) + Len(f) + Len(b) <= Len(h)

Fill(h, d, r, f, b) == d + Len(r) + Len(f) + Len(b) = Len(h)

Kept(h, d) == SubSeq(h, d + 1, Len(h))

Exact(s, b, k) == s \o b = k

LEMMA InOrder ==
  ASSUME NEW S, NEW h \in Seq(S), NEW r \in Seq(S), NEW f \in Seq(S), NEW b \in Seq(S),
         NEW d \in Nat, Placed(h, d, r, f, b), NEW k, k = Kept(h, d), NEW s, s = r \o f
  PROVE  /\ IsPrefix(s, k)
         /\ Fill(h, d, r, f, b) => Exact(s, b, k)
<1>0. /\ At(h, d, r, Len(r)) /\ At(h, d + Len(r), f, Len(f))
      /\ At(h, d + Len(r) + Len(f), b, Len(b))
      /\ d + Len(r) + Len(f) + Len(b) <= Len(h) /\ k = SubSeq(h, d + 1, Len(h))
  BY DEF Placed, Kept
<1>1. PICK m, n, l, c : m = Len(r) /\ n = Len(f) /\ l = Len(b) /\ c = Len(h)
  OBVIOUS
<1>2. m \in Nat /\ n \in Nat /\ l \in Nat /\ c \in Nat /\ d + m + n + l <= c
  BY <1>0, <1>1
<1>3. /\ k \in Seq(S) /\ Len(k) = c - d
      /\ \A i \in 1..(c - d) : k[i] = h[d + i]
  <2>1. d + 1 \in Int /\ c \in Int /\ (\A i \in (d + 1)..c : h[i] \in S)
    BY <1>1, <1>2
  <2>2. /\ SubSeq(h, d + 1, c) \in Seq(S)
        /\ Len(SubSeq(h, d + 1, c)) = IF d + 1 <= c THEN c - (d + 1) + 1 ELSE 0
        /\ \A i \in 1..(c - (d + 1) + 1) : SubSeq(h, d + 1, c)[i] = h[(d + 1) + i - 1]
    BY ONLY <2>1, SubSeqProperties
  <2>3. /\ c - (d + 1) + 1 = c - d
        /\ (IF d + 1 <= c THEN c - (d + 1) + 1 ELSE 0) = c - d
        /\ \A i \in 1..(c - d) : (d + 1) + i - 1 = d + i
    BY ONLY <1>2, d \in Nat
  <2> QED
    BY <1>0, <1>1, <2>2, <2>3
<1>4. s \in Seq(S) /\ Len(s) = m + n /\ Alike(s, r, m) /\ At(s, m, f, n)
  <2>1. /\ s \in Seq(S) /\ Len(s) = Len(r) + Len(f)
        /\ \A i \in 1..Len(r) : s[i] = r[i]
        /\ \A i \in 1..Len(f) : s[Len(r) + i] = f[i]
    BY ONLY r \in Seq(S), f \in Seq(S), s = r \o f, JoinedSeq
  <2> QED
    BY ONLY <1>1, <2>1 DEF Alike, At
<1>5. At(h, d, s, m + n)
  BY ONLY <1>1, <1>2, <1>4, d \in Nat, <1>0, AtJoin
<1>6. IsPrefix(s, k)
  <2>1. PICK z : z = m + n
    OBVIOUS
  <2>2. z \in Nat /\ z <= c - d /\ z \in Int /\ 1 \in Int /\ c - d \in Nat
    BY ONLY <1>2, <2>1, d \in Nat
  <2>3. SubSeq(s, 1, Len(s)) = s
    BY ONLY <1>4, SubSeqFull
  <2>4. /\ SubSeq(k, 1, z) \in Seq(S) /\ Len(SubSeq(k, 1, z)) = z
        /\ \A i \in 1..z : SubSeq(k, 1, z)[i] = k[i]
    <3>1. \A i \in 1..z : k[i] \in S
      <4>1. PICK y : y = c - d
        OBVIOUS
      <4>2. \A i \in 1..z : i \in 1..y
        BY ONLY <2>2, <4>1
      <4>3. \A i \in 1..y : k[i] \in S
        BY ONLY <1>3, <4>1
      <4> QED
        BY ONLY <4>2, <4>3
    <3>2. /\ SubSeq(k, 1, z) \in Seq(S)
          /\ Len(SubSeq(k, 1, z)) = IF 1 <= z THEN z - 1 + 1 ELSE 0
          /\ \A i \in 1..(z - 1 + 1) : SubSeq(k, 1, z)[i] = k[1 + i - 1]
      BY ONLY <2>2, <3>1, SubSeqProperties
    <3>3. /\ z - 1 + 1 = z /\ (IF 1 <= z THEN z - 1 + 1 ELSE 0) = z
          /\ \A i \in 1..z : 1 + i - 1 = i
      BY ONLY <2>2
    <3> QED
      BY ONLY <3>2, <3>3
  <2>5. \A i \in 1..z : s[i] = SubSeq(k, 1, z)[i]
    <3> SUFFICES ASSUME NEW i \in 1..z PROVE s[i] = SubSeq(k, 1, z)[i]
      OBVIOUS
    <3>1. h[d + i] = s[i]
      BY ONLY <1>5, <2>1, i \in 1..z DEF At
    <3>2. i \in 1..(c - d)
      BY ONLY <2>2, i \in 1..z
    <3> QED
      BY <1>3, <2>4, <3>1, <3>2
  <2>6. s = SubSeq(k, 1, z)
    <3>1. PICK w : w = SubSeq(k, 1, z)
      OBVIOUS
    <3>2. w \in Seq(S) /\ Len(s) = Len(w) /\ (\A i \in 1..Len(s) : s[i] = w[i]) /\ s \in Seq(S)
      BY ONLY <1>4, <2>1, <2>4, <2>5, <3>1
    <3> QED
      BY ONLY <3>1, <3>2, SeqEqual
  <2>7. Len(s) = z /\ Len(s) <= Len(k)
    BY ONLY <1>3, <1>4, <2>1, <2>2
  <2> QED
    BY <2>3, <2>6, <2>7 DEF IsPrefix
<1>7. ASSUME d + m + n + l = c PROVE s \o b = k
  <2>1. PICK t : t = s \o b
    OBVIOUS
  <2>2. PICK z : z = m + n
    OBVIOUS
  <2>3. t \in Seq(S) /\ Len(t) = z + l /\ Alike(t, s, z) /\ At(t, z, b, l)
    <3>1. s \in Seq(S)
      BY <1>4
    <3>2. /\ t \in Seq(S) /\ Len(t) = Len(s) + Len(b)
          /\ \A i \in 1..Len(s) : t[i] = s[i]
          /\ \A i \in 1..Len(b) : t[Len(s) + i] = b[i]
      BY ONLY <3>1, b \in Seq(S), <2>1, JoinedSeq
    <3> QED
      BY ONLY <1>1, <1>4, <2>2, <3>2 DEF Alike, At
  <2>4. z \in Nat /\ d + z = d + m + n /\ c - d = z + l
    BY ONLY <1>2, <1>7, <2>2, d \in Nat
  <2>5. At(h, d, s, z) /\ At(h, d + z, b, l)
    BY ONLY <1>1, <1>5, <2>2, <2>4, <1>0
  <2>6. At(h, d, t, z + l)
    BY ONLY <1>2, <2>3, <2>4, <2>5, d \in Nat, AtJoin
  <2>7. \A i \in 1..Len(t) : t[i] = k[i]
    BY ONLY <1>3, <2>3, <2>4, <2>6 DEF At
  <2>8. Len(t) = Len(k) /\ k \in Seq(S) /\ t \in Seq(S)
    BY ONLY <1>3, <2>3, <2>4
  <2>9. t = k
    BY ONLY <2>7, <2>8, SeqEqual
  <2> QED
    BY <2>1, <2>9
<1> QED
  BY <1>1, <1>6, <1>7 DEF Fill, Exact

\* For every number of writes, and whenever connect, the muxer and destroy come
\* between them: what the peer gets is what was written, in this order, each
\* once, but for what was written before the stream.
THEOREM WritesInOrder == StackSpec => []DeliveredInOrder
<1>1. ClientInv => DeliveredInOrder
  <2> SUFFICES ASSUME ClientInv PROVE DeliveredInOrder
    OBVIOUS
  <2>1. /\ tx \in TxType /\ InPlace(tx) /\ Accounted(tx, sock.destroyed) /\ sock.destroyed \in BOOLEAN
    BY DEF ClientInv, SocketInv, FlowInv, Flow, CloseInv, SockType
  <2>2. PICK h, r, f, b, d : /\ h = tx.handed /\ r = tx.remote /\ f = tx.fifo /\ b = tx.buffer
                             /\ d = tx.dropped
    OBVIOUS
  <2>3. /\ h \in Seq(Items) /\ r \in Seq(Items) /\ f \in Seq(Items) /\ b \in Seq(Items) /\ d \in Nat
        /\ At(h, d, r, Len(r)) /\ At(h, d + Len(r), f, Len(f))
        /\ At(h, d + Len(r) + Len(f), b, Len(b))
        /\ d + Len(r) + Len(f) + Len(b) <= Len(h)
        /\ ~sock.destroyed => d + Len(r) + Len(f) + Len(b) = Len(h)
    BY <2>1, <2>2 DEF TxType, InPlace, Accounted, Account
  <2>4. PICK k, s : k = SubSeq(h, d + 1, Len(h)) /\ s = r \o f
    OBVIOUS
  <2>5. IsPrefix(s, k) /\ (d + Len(r) + Len(f) + Len(b) = Len(h) => s \o b = k)
    <3>1. Placed(h, d, r, f, b)
      BY <2>3 DEF Placed
    <3>2. k = Kept(h, d) /\ s = r \o f
      BY <2>4 DEF Kept
    <3>3. h \in Seq(Items) /\ r \in Seq(Items) /\ f \in Seq(Items) /\ b \in Seq(Items) /\ d \in Nat
      BY <2>3
    <3>4. k = Kept(h, d)
      BY <3>2
    <3>5. s = r \o f
      BY <3>2
    <3>6. PICK S : S = Items
      OBVIOUS
    <3>7. h \in Seq(S) /\ r \in Seq(S) /\ f \in Seq(S) /\ b \in Seq(S) /\ d \in Nat
      BY <3>3, <3>6
    <3>8. IsPrefix(s, k)
      BY ONLY <3>1, <3>4, <3>5, <3>7, InOrder
    <3>9. Fill(h, d, r, f, b) => Exact(s, b, k)
      BY ONLY <3>1, <3>4, <3>5, <3>7, InOrder
    <3> QED
      BY <3>8, <3>9 DEF Fill, Exact
  <2>6. IF sock.destroyed THEN IsPrefix(s, k) ELSE s \o b = k
    BY ONLY <2>1, <2>3, <2>5
  <2> QED
    BY <2>2, <2>4, <2>6 DEF DeliveredInOrder
<1> QED
  BY <1>1, ClientAlways, PTL

\* For every number of writes: a callback of write() means that the muxer took
\* the chunk, or that there was no stream; one chunk at most is under way.
THEOREM CallbacksAfterTaking == StackSpec => []AckedIsTaken
<1>1. ClientInv => AckedIsTaken
  <2> SUFFICES ASSUME ClientInv PROVE AckedIsTaken
    OBVIOUS
  <2>1. tx \in TxType /\ Acked(tx) /\ Len(tx.fifo) <= 1
    BY DEF ClientInv, SocketInv, FlowInv, Flow, OneAtATime
  <2>2. PICK a, u, d, m : a = tx.acked /\ u = UnderWay(tx) /\ d = tx.dropped /\ m = Len(tx.remote)
    OBVIOUS
  <2>3. a \in Nat /\ u \in Nat /\ d \in Nat /\ m \in Nat /\ a + u = d + m
    BY <2>1, <2>2, TxFields DEF Acked
  <2>4. a <= d + m
    BY ONLY <2>3
  <2> QED
    BY <2>1, <2>2, <2>4 DEF AckedIsTaken
<1> QED
  BY <1>1, ClientAlways, PTL

\* For every certificate and every order of connect, writes and destroys: under
\* TLS no write reaches a socket without a stream.
THEOREM TlsKeepsAll == StackSpec => []TlsLosesNothing
<1>1. ClientInv => TlsLosesNothing
  BY DEF ClientInv, TlsInv, TlsLosesNothing
<1> QED
  BY <1>1, ClientAlways, PTL

\* For every number of chunks, all options and every order of connect, writes
\* and destroys: no application data before both flights of the handshake; and
\* what goes out are the chunks in the order of the writes, each once.
THEOREM AppDataGuarded == StackSpec => []AppDataAfterHandshake
<1>1. ClientInv => AppDataAfterHandshake
  <2> SUFFICES ASSUME ClientInv, tls.used PROVE AppDataAfterHandshake
    BY DEF AppDataAfterHandshake
  <2>1. /\ NumbersOK(tls) /\ AppsOK(tx.handed, Len(tls.sent), sock.destroyed)
        /\ tls \in TlsType /\ tx.handed \in Seq(Items)
    BY DEF ClientInv, DialInv, SocketInv, FlowInv, Flow, TxType, TlsInv
  <2>2. PICK h, n : h = tx.handed /\ n = Len(tls.sent)
    OBVIOUS
  <2>3. /\ h \in Seq(Items) /\ n \in Nat /\ DOMAIN tls.sent = 1..n /\ DOMAIN h = 1..Len(h)
        /\ Runs(tls.sent, n, 0)
    BY <2>1, <2>2 DEF TlsType, NumbersOK
  <2>4. \A i \in 1..n : tls.sent[i] = i
    BY ONLY <2>3 DEF Runs
  <2>5. ASSUME NEW i \in 1..Len(h), IsApp(h[i])
        PROVE  /\ i > 2 /\ h[1] = Flight(1) /\ h[2] = Flight(2)
               /\ AppsIn(h, i) \in 1..n /\ h[i] = App(AppsIn(h, i))
    <3>1. i > 2 /\ Opened(h) /\ AppsIn(h, i) <= n /\ h[i] = App(AppsIn(h, i))
      BY <2>1, <2>2, <2>5 DEF AppsOK
    <3>2. AppsIn(h, i) \in Nat /\ AppsIn(h, i) > 0
      <4>1. PICK A : A = {j \in 1..i : IsApp(h[j])}
        OBVIOUS
      <4>2. i \in Nat /\ i \in A
        BY <2>5, <3>1, <4>1
      <4>3. IsFiniteSet(A) /\ AppsIn(h, i) \in Nat
        BY <4>1, <4>2, AppsFinite
      <4>4. Cardinality(A) # 0
        BY <4>2, <4>3, FS_EmptySet
      <4> QED
        BY <4>1, <4>3, <4>4 DEF AppsIn
    <3>3. AppsIn(h, i) \in 1..n /\ n # 0
      BY ONLY <2>3, <3>1, <3>2
    <3> QED
      BY <3>1, <3>3 DEF Opened
  <2>6. \A i \in 1..Len(h) : AppsUpTo(i) = AppsIn(h, i)
    BY <2>2 DEF AppsUpTo, AppsIn
  <2>7. \A i \in 1..Len(h) : IsApp(h[i]) =>
           AppsUpTo(i) <= n /\ h[i] = App(tls.sent[AppsUpTo(i)])
    <3> SUFFICES ASSUME NEW i \in 1..Len(h), IsApp(h[i])
                 PROVE  AppsUpTo(i) <= n /\ h[i] = App(tls.sent[AppsUpTo(i)])
      OBVIOUS
    <3>1. PICK a : a = AppsUpTo(i)
      OBVIOUS
    <3>2. a \in 1..n /\ h[i] = App(a)
      BY <2>5, <2>6, <3>1
    <3>3. a <= n
      BY <2>3, <3>2
    <3>4. tls.sent[a] = a
      BY <2>4, <3>2
    <3> QED
      BY <3>1, <3>2, <3>3, <3>4
  <2> QED
    BY <2>2, <2>3, <2>4, <2>5, <2>7 DEF AppDataAfterHandshake
<1> QED
  BY <1>1, ClientAlways, PTL

-----------------------------------------------------------------------------
(* The types *)

LEMMA AskedType ==
  AskedCertificates \subseteq CertificateType
<1>1. PICK none : none = [dns |-> {}, uri |-> {}, other |-> FALSE, subject |-> FALSE, cn |-> {}]
  OBVIOUS
<1>2. PICK some : some = {{p} : p \in Patterns}
  OBVIOUS
<1> DEFINE Dns(n) == [none EXCEPT !.dns = n]
           Uri(n) == [none EXCEPT !.uri = n]
           Cn(n, b) == [none EXCEPT !.subject = TRUE, !.cn = n, !.other = b]
           Nameless == [none EXCEPT !.subject = TRUE]
<1>3. none \in CertificateType /\ some \subseteq SUBSET Patterns
  BY <1>1, <1>2 DEF CertificateType
<1>4. Nameless \in CertificateType
  BY <1>3 DEF CertificateType
<1>5. ASSUME NEW n \in some, NEW b \in BOOLEAN
      PROVE  Dns(n) \in CertificateType /\ Uri(n) \in CertificateType /\ Cn(n, b) \in CertificateType
  <2>1. n \in SUBSET Patterns
    BY <1>3
  <2> QED
    BY <1>3, <2>1 DEF CertificateType
<1>6. AskedCertificates = {none, Nameless} \cup {Dns(n) : n \in some} \cup {Uri(n) : n \in some}
                          \cup {Cn(n, b) : n \in some, b \in BOOLEAN}
  BY <1>1, <1>2 DEF AskedCertificates
<1> HIDE DEF Dns, Uri, Cn, Nameless
<1>7. \A n \in some : Dns(n) \in CertificateType /\ Uri(n) \in CertificateType
  BY <1>5
<1>8. \A n \in some, b \in BOOLEAN : Cn(n, b) \in CertificateType
  BY <1>5
<1> QED
  BY ONLY <1>3, <1>4, <1>6, <1>7, <1>8

RestInv == /\ side \in Sides /\ rejectUnauthorized \in BOOLEAN /\ IdentityTypeOK

LEMMA RestInit ==
  StackInit => RestInv
<1>1. StackInit => side \in Sides /\ rejectUnauthorized \in BOOLEAN
  BY DEF StackInit, TlsServerInit
<1>2. StackInit => IdentityTypeOK
  BY AskedType DEF StackInit, IdentityInit, IdentityTypeOK
<1> QED
  BY <1>1, <1>2 DEF RestInv

LEMMA RestNext ==
  RestInv /\ [StackNext]_stackVars => RestInv'
<1> SUFFICES ASSUME RestInv, [StackNext]_stackVars PROVE RestInv'
  OBVIOUS
<1>1. UNCHANGED side
  BY DEF StackNext, stackVars
<1>2. UNCHANGED rejectUnauthorized
  <2>1. TlsServerNext => UNCHANGED rejectUnauthorized
    BY DEF TlsServerNext, TlsConnection, NativeConnection, HandshakeDone, HandshakeFails,
           TlsSocketGone, DestroySession, SessionCloses
  <2> QED
    BY <2>1 DEF StackNext, stackVars, tlsServerVars
<1>3. IdentityTypeOK'
  <2>1. IdentityNext \/ UNCHANGED identityVars
    BY DEF StackNext, stackVars
  <2> QED
    BY <2>1 DEF RestInv, IdentityTypeOK, IdentityNext, CheckServerIdentity, identityVars
<1> QED
  BY <1>1, <1>2, <1>3 DEF RestInv

\* Every part keeps its types, whatever the constants are.
THEOREM StackTypeCorrect == StackSpec => []TypeOK
<1>1. StackInit => CacheInv /\ ReportInv
  BY CacheInitOK, ReportInit DEF StackInit
<1>2. CacheInv /\ ReportInv /\ [StackNext]_stackVars => CacheInv' /\ ReportInv'
  BY StackParts, CacheNextOK, ReportNext
<1>3. CountInv /\ ReportInv /\ RestInv => TlsServerTypeOK
  <2>1. ReportInv => sessions \in [Streams -> SessionType]
    BY DEF ReportInv, Reported
  <2> QED
    BY <2>1 DEF CountInv, RestInv, TlsServerTypeOK, NetServerTypeOK, ServerTick
<1>4. ClientInv => ClientTypeOK
  BY DEF ClientInv, DialInv, Path, SocketInv, FlowInv, Flow, CloseInv, TlsInv, ClientTypeOK, NetTypeOK,
         ClientTick
<1>5. CacheInv => CacheTypeOK
  BY DEF CacheInv, Consistent, CacheTypeOK
<1>6. CountInv /\ ReportInv /\ RestInv /\ ClientInv /\ CacheInv => TypeOK
  BY <1>3, <1>4, <1>5 DEF TypeOK, RestInv
<1> QED
  BY <1>1, <1>2, <1>6, CountAlways, ClientAlways, RestInit, RestNext, PTL DEF StackSpec

-----------------------------------------------------------------------------
(* The name of a certificate *)

\* A prefix and a suffix, place by place.
LEMMA PrefixPlaces ==
  ASSUME NEW S, NEW s \in Seq(S), NEW t \in Seq(S)
  PROVE  IsPrefix(s, t) <=> Len(s) <= Len(t) /\ \A i \in 1..Len(s) : s[i] = t[i]
<1>1. SubSeq(s, 1, Len(s)) = s
  BY SubSeqFull
<1>2. ASSUME Len(s) <= Len(t)
      PROVE  SubSeq(t, 1, Len(s)) = s <=> \A i \in 1..Len(s) : s[i] = t[i]
  <2>1. Len(s) \in Nat /\ Len(t) \in Nat
    OBVIOUS
  <2>2. PICK u : u = SubSeq(t, 1, Len(s))
    OBVIOUS
  <2>3. u \in Seq(S) /\ Len(u) = Len(s) /\ \A i \in 1..Len(s) : u[i] = t[i]
    BY <1>2, <2>1, <2>2
  <2> QED
    BY <2>2, <2>3
<1> QED
  BY <1>1, <1>2 DEF IsPrefix

\* Counting from the other end.
LEMMA Mirror ==
  ASSUME NEW m \in Nat, NEW n \in Nat, m <= n, NEW i \in 1..m
  PROVE  /\ m - i + 1 \in 1..m /\ i \in 1..n
         /\ m - (m - i + 1) + 1 = i /\ n - m + (m - i + 1) = n - i + 1
         /\ n - (m - i + 1) + 1 = n - m + i
  OBVIOUS

LEMMA SuffixPlaces ==
  ASSUME NEW S, NEW s \in Seq(S), NEW t \in Seq(S)
  PROVE  IsSuffix(s, t) <=> /\ Len(s) <= Len(t)
                            /\ \A i \in 1..Len(s) : s[i] = t[Len(t) - Len(s) + i]
<1>1. PICK m : m = Len(s) /\ m \in Nat
  OBVIOUS
<1>2. PICK n : n = Len(t) /\ n \in Nat
  OBVIOUS
<1>3. PICK u : u = Reverse(s)
  OBVIOUS
<1>4. PICK v : v = Reverse(t)
  OBVIOUS
<1>5. u \in Seq(S) /\ Len(u) = m /\ \A i \in 1..m : u[i] = s[m - i + 1]
  BY <1>1, <1>3 DEF Reverse
<1>6. v \in Seq(S) /\ Len(v) = n /\ \A i \in 1..n : v[i] = t[n - i + 1]
  BY <1>2, <1>4 DEF Reverse
<1>7. IsPrefix(u, v) <=> Len(u) <= Len(v) /\ \A i \in 1..Len(u) : u[i] = v[i]
  <2>1. u \in Seq(S)
    BY <1>5
  <2>2. v \in Seq(S)
    BY <1>6
  <2> QED
    BY ONLY <2>1, <2>2, PrefixPlaces
<1>8. IsSuffix(s, t) <=> m <= n /\ \A i \in 1..m : u[i] = v[i]
  BY <1>3, <1>4, <1>5, <1>6, <1>7 DEF IsSuffix
<1>9. ASSUME m <= n, \A i \in 1..m : u[i] = v[i], NEW i \in 1..m
      PROVE  s[i] = t[n - m + i]
  <2>1. PICK j : j = m - i + 1
    OBVIOUS
  <2>2. j \in 1..m /\ j \in 1..n /\ m - j + 1 = i /\ n - j + 1 = n - m + i
    BY <1>1, <1>2, <1>9, <2>1, Mirror
  <2>3. s[i] = u[j] /\ v[j] = t[n - m + i]
    BY <1>5, <1>6, <2>2
  <2> QED
    BY <1>9, <2>2, <2>3
<1>10. ASSUME m <= n, \A i \in 1..m : s[i] = t[n - m + i], NEW i \in 1..m
       PROVE  u[i] = v[i]
  <2>1. PICK j : j = m - i + 1
    OBVIOUS
  <2>2. j \in 1..m /\ i \in 1..n /\ n - m + j = n - i + 1
    BY <1>1, <1>2, <1>10, <2>1, Mirror
  <2>3. u[i] = s[j] /\ v[i] = t[n - m + j]
    BY <1>5, <1>6, <2>1, <2>2
  <2> QED
    BY <1>10, <2>2, <2>3
<1> QED
  BY <1>1, <1>2, <1>8, <1>9, <1>10

LEMMA OneWildcard ==
  ASSUME NEW p \in Seq(Characters), Cardinality(Wildcards(p)) = 1
  PROVE  \E k \in 1..Len(p) : Wildcards(p) = {k} /\ SelectInSeq(p, Wild) = k
<1>1. IsFiniteSet(Wildcards(p))
  BY FS_Interval, FS_Subset DEF Wildcards
<1>2. PICK k : Wildcards(p) = {k}
  BY <1>1, FS_Singleton
<1>3. k \in 1..Len(p)
  BY <1>2 DEF Wildcards
<1>4. {i \in 1..Len(p) : Wild(p[i])} = {k}
  BY <1>2 DEF Wildcards
<1>5. Min({k}) = k
  BY <1>3 DEF Min
<1> QED
  BY <1>2, <1>3, <1>4, <1>5 DEF SelectInSeq

\* d is b, c and a one after the other, place by place.
Glued(d, b, c, a) ==
    /\ Len(d) = Len(b) + Len(c) + Len(a)
    /\ \A l \in 1..Len(b) : d[l] = b[l]
    /\ \A l \in 1..Len(c) : d[Len(b) + l] = c[l]
    /\ \A l \in 1..Len(a) : d[Len(b) + Len(c) + l] = a[l]

LEMMA GluedPlaces ==
  ASSUME NEW S, NEW a \in Seq(S), NEW b \in Seq(S), NEW c \in Seq(S), NEW d \in Seq(S)
  PROVE  b \o c \o a = d <=> Glued(d, b, c, a)
<1>1. PICK e : e = b \o c
  OBVIOUS
<1>2. e \in Seq(S) /\ Len(e) = Len(b) + Len(c)
  BY <1>1
<1>3. \A l \in 1..Len(b) : l \in 1..Len(e) /\ e[l] = b[l]
  BY <1>1, <1>2
<1>4. \A l \in 1..Len(c) : Len(b) + l \in 1..Len(e) /\ e[Len(b) + l] = c[l]
  BY <1>1, <1>2
<1>5. \A l \in 1..Len(e) : l \in 1..Len(b) \/ \E q \in 1..Len(c) : l = Len(b) + q
  <2>1. ASSUME NEW l \in 1..Len(e), l \notin 1..Len(b) PROVE l - Len(b) \in 1..Len(c) /\ l = Len(b) + (l - Len(b))
    BY <1>2, <2>1
  <2> QED
    BY <2>1
<1>6. PICK f : f = e \o a
  OBVIOUS
<1>7. f \in Seq(S) /\ Len(f) = Len(e) + Len(a)
  <2>1. e \in Seq(S)
    BY <1>2
  <2> QED
    BY ONLY <1>6, <2>1, a \in Seq(S)
<1>8. \A l \in 1..Len(e) : f[l] = e[l]
  BY <1>2, <1>6
<1>9. \A l \in 1..Len(a) : f[Len(e) + l] = a[l]
  BY <1>2, <1>6
<1>10. \A l \in 1..Len(f) : l \in 1..Len(e) \/ \E q \in 1..Len(a) : l = Len(e) + q
  <2>1. ASSUME NEW l \in 1..Len(f), l \notin 1..Len(e) PROVE l - Len(e) \in 1..Len(a) /\ l = Len(e) + (l - Len(e))
    BY <1>2, <1>7, <2>1
  <2> QED
    BY <2>1
<1>11. Glued(f, b, c, a)
  <2>1. \A l \in 1..Len(b) : f[l] = b[l]
    BY <1>3, <1>8
  <2>2. \A l \in 1..Len(c) : f[Len(b) + l] = c[l]
    BY <1>4, <1>8
  <2> QED
    BY <1>2, <1>7, <1>9, <2>1, <2>2 DEF Glued
<1>12. ASSUME Glued(d, b, c, a) PROVE d = f
  <2>1. Len(d) = Len(f)
    BY <1>2, <1>7, <1>12 DEF Glued
  <2>2. \A l \in 1..Len(e) : d[l] = f[l]
    <3>1. \A l \in 1..Len(b) : d[l] = f[l]
      BY <1>3, <1>8, <1>12 DEF Glued
    <3>2. \A l \in 1..Len(c) : d[Len(b) + l] = f[Len(b) + l]
      BY <1>4, <1>8, <1>12 DEF Glued
    <3> QED
      BY <1>5, <3>1, <3>2
  <2>3. \A l \in 1..Len(a) : d[Len(e) + l] = f[Len(e) + l]
    BY <1>2, <1>9, <1>12 DEF Glued
  <2>4. \A l \in 1..Len(f) : d[l] = f[l]
    BY <1>10, <2>2, <2>3
  <2> QED
    BY ONLY <1>7, <2>1, <2>4, d \in Seq(S)
<1> QED
  BY <1>1, <1>6, <1>11, <1>12

\* b starts and a ends h, without overlap; some text of h between them gives h.
Ends(b, a, h) == Len(b) + Len(a) <= Len(h) /\ IsPrefix(b, h) /\ IsSuffix(a, h)

Between(b, a, h) == \E i \in 1..Len(h) + 1, j \in 0..Len(h) : b \o SubSeq(h, i, j) \o a = h

LEMMA WildcardText ==
  ASSUME NEW b \in Seq(Characters), NEW a \in Seq(Characters), NEW h \in Seq(Characters)
  PROVE  Ends(b, a, h) <=> Between(b, a, h)
<1>1. PICK m : m = Len(h) /\ m \in Nat
  OBVIOUS
<1>2. PICK x : x = Len(b) /\ x \in Nat
  OBVIOUS
<1>3. PICK y : y = Len(a) /\ y \in Nat
  OBVIOUS
<1>4. IsPrefix(b, h) <=> x <= m /\ \A i \in 1..x : b[i] = h[i]
  <2>1. IsPrefix(b, h) <=> Len(b) <= Len(h) /\ \A i \in 1..Len(b) : b[i] = h[i]
    BY ONLY b \in Seq(Characters), h \in Seq(Characters), PrefixPlaces
  <2> QED
    BY ONLY <1>1, <1>2, <2>1
<1>5. IsSuffix(a, h) <=> y <= m /\ \A i \in 1..y : a[i] = h[m - y + i]
  <2>1. IsSuffix(a, h) <=> Len(a) <= Len(h) /\ \A i \in 1..Len(a) : a[i] = h[Len(h) - Len(a) + i]
    BY ONLY a \in Seq(Characters), h \in Seq(Characters), SuffixPlaces
  <2> QED
    BY ONLY <1>1, <1>3, <2>1
<1>6. ASSUME x + y <= m, IsPrefix(b, h), IsSuffix(a, h)
      PROVE  \E i \in 1..m + 1, j \in 0..m : b \o SubSeq(h, i, j) \o a = h
  <2>1. PICK c : c = SubSeq(h, x + 1, m - y)
    OBVIOUS
  <2>2. x + 1 \in 1..m + 1 /\ m - y \in 0..m /\ x + (m - y - x) = m - y
    BY <1>1, <1>2, <1>3, <1>6
  <2>3. c \in Seq(Characters) /\ Len(c) = m - y - x
    BY <1>1, <1>2, <1>3, <1>6, <2>1, <2>2
  <2>4. \A l \in 1..m - y - x : c[l] = h[x + l]
    BY <1>1, <1>2, <1>3, <1>6, <2>1, <2>2
  <2>5. m = x + (m - y - x) + y
    BY <1>1, <1>2, <1>3
  <2>6. Glued(h, b, c, a)
    <3>1. Len(h) = Len(b) + Len(c) + Len(a)
      BY ONLY <1>1, <1>2, <1>3, <2>3, <2>5
    <3>2. \A l \in 1..Len(b) : h[l] = b[l]
      BY ONLY <1>2, <1>4, <1>6
    <3>3. \A l \in 1..Len(c) : h[Len(b) + l] = c[l]
      BY ONLY <1>2, <2>3, <2>4
    <3>4. Len(b) + Len(c) = m - y
      BY ONLY <1>1, <1>2, <1>3, <2>2, <2>3
    <3>5. \A l \in 1..Len(a) : h[Len(b) + Len(c) + l] = a[l]
      BY ONLY <1>3, <1>5, <1>6, <3>4
    <3> QED
      BY ONLY <3>1, <3>2, <3>3, <3>5 DEF Glued
  <2>7. b \o c \o a = h
    BY <2>3, <2>6, GluedPlaces
  <2> QED
    BY <2>1, <2>2, <2>7
<1>7. ASSUME NEW i \in 1..m + 1, NEW j \in 0..m, b \o SubSeq(h, i, j) \o a = h
      PROVE  x + y <= m /\ IsPrefix(b, h) /\ IsSuffix(a, h)
  <2>1. PICK c : c = SubSeq(h, i, j)
    OBVIOUS
  <2>2. c \in Seq(Characters)
    BY <1>1, <2>1
  <2>3. PICK z : z = Len(c) /\ z \in Nat
    BY <2>2
  <2>4. Glued(h, b, c, a)
    BY <1>7, <2>1, <2>2, GluedPlaces
  <2>5. m = x + z + y
    BY <1>1, <1>2, <1>3, <2>3, <2>4 DEF Glued
  <2>6. x + y <= m /\ x <= m /\ y <= m /\ m - y = x + z
    BY <1>2, <1>3, <2>3, <2>5
  <2>7. \A l \in 1..x : b[l] = h[l]
    BY <1>2, <2>4 DEF Glued
  <2>8. \A l \in 1..y : a[l] = h[m - y + l]
    BY <1>2, <1>3, <2>3, <2>4, <2>6 DEF Glued
  <2> QED
    BY <1>4, <1>5, <2>6, <2>7, <2>8
<1> QED
  BY <1>1, <1>2, <1>3, <1>6, <1>7 DEF Ends, Between

LEMMA Unqualified ==
  ASSUME NEW name \in Seq(Seq(Characters)) \ {<<>>}
  PROVE  Unfqdn(name) \in Seq(Seq(Characters)) \ {<<>>}
<1>1. PICK m : m = Len(name)
  OBVIOUS
<1>2. m \in Nat /\ m > 0
  BY <1>1
<1>3. PICK f : f = SubSeq(name, 1, m - 1)
  OBVIOUS
<1>4. f \in Seq(Seq(Characters)) /\ Len(f) = m - 1
  BY <1>1, <1>2, <1>3
<1>5. Unfqdn(name) = name \/ (m > 1 /\ Unfqdn(name) = f)
  BY <1>1, <1>3 DEF Unfqdn, Front
<1>6. m > 1 => f # <<>>
  BY <1>2, <1>4
<1> QED
  BY <1>4, <1>5, <1>6

\* The labels of a name: one at least.
LEMMA Labels ==
  ASSUME NEW name \in Seq(Seq(Characters)) \ {<<>>}
  PROVE  SplitHost(name) \in Seq(Seq(Characters)) \ {<<>>}
<1>1. PICK n : n = Unfqdn(name)
  OBVIOUS
<1>2. n \in Seq(Seq(Characters)) /\ Len(n) > 0
  <2>1. n \in Seq(Seq(Characters)) \ {<<>>}
    BY <1>1, Unqualified
  <2> QED
    BY <2>1
<1>3. ASSUME NEW i \in 1..Len(n) PROVE LowerLabel(n[i]) \in Seq(Characters)
  <2>1. PICK l \in Seq(Characters) : l = n[i]
    BY <1>2
  <2>2. \A c \in Characters : Lower(c) \in Characters
    BY DEF Lower, Characters
  <2>3. \A j \in 1..Len(l) : Lower(l[j]) \in Characters
    BY <2>2
  <2>4. LowerLabel(l) = [j \in 1..Len(l) |-> Lower(l[j])]
    BY DEF LowerLabel
  <2> QED
    BY <2>1, <2>3, <2>4
<1>4. PICK p : p = SplitHost(name)
  OBVIOUS
<1>5. p = [i \in 1..Len(n) |-> LowerLabel(n[i])]
  BY <1>1, <1>2, <1>4 DEF SplitHost
<1>6. p \in Seq(Seq(Characters)) /\ Len(p) = Len(n)
  BY <1>2, <1>3, <1>5
<1>7. p # <<>>
  BY <1>2, <1>6
<1> QED
  BY <1>4, <1>6, <1>7

\* The labels after the first are the same.
SameRest(p, h) == Len(h) = Len(p) /\ \A i \in 2..Len(p) : h[i] = p[i]

LEMMA SameName ==
  ASSUME NEW p \in Seq(Seq(Characters)) \ {<<>>}, NEW h \in Seq(Seq(Characters)) \ {<<>>}
  PROVE  p = h <=> SameRest(p, h) /\ h[1] = p[1]
<1>1. ASSUME SameRest(p, h), h[1] = p[1] PROVE p = h
  <2>1. \A i \in 1..Len(p) : h[i] = p[i]
    BY <1>1 DEF SameRest
  <2> QED
    BY <1>1, <2>1 DEF SameRest
<1> QED
  BY <1>1 DEF SameRest

LEMMA ReplacedName ==
  ASSUME NEW p \in Seq(Seq(Characters)) \ {<<>>}, NEW h \in Seq(Seq(Characters)) \ {<<>>},
         NEW k \in 1..Len(p[1]), NEW text \in Seq(Characters)
  PROVE  Replaced(p, k, text) = h
         <=> /\ SameRest(p, h)
             /\ SubSeq(p[1], 1, k - 1) \o text \o SubSeq(p[1], k + 1, Len(p[1])) = h[1]
<1>1. PICK l : l = SubSeq(p[1], 1, k - 1) \o text \o SubSeq(p[1], k + 1, Len(p[1]))
  OBVIOUS
<1>2. p[1] \in Seq(Characters)
  OBVIOUS
<1>3. l \in Seq(Characters)
  <2>1. SubSeq(p[1], 1, k - 1) \in Seq(Characters)
    BY <1>2
  <2>2. SubSeq(p[1], k + 1, Len(p[1])) \in Seq(Characters)
    BY <1>2
  <2> QED
    BY ONLY <1>1, <2>1, <2>2, text \in Seq(Characters)
<1>4. PICK q : q = [p EXCEPT ![1] = l]
  OBVIOUS
<1>5. q \in Seq(Seq(Characters)) \ {<<>>} /\ Len(q) = Len(p) /\ q[1] = l
      /\ \A i \in 2..Len(p) : q[i] = p[i]
  BY <1>3, <1>4
<1>6. q = h <=> SameRest(q, h) /\ h[1] = l
  BY <1>5, SameName
<1> QED
  BY <1>1, <1>4, <1>5, <1>6 DEF Replaced, SameRest

LEMMA EmptyName == SplitHost(<<<<>>>>) = <<<<>>>>
<1>1. PICK n : n = <<<<>>>>
  OBVIOUS
<1>2. Len(n) = 1 /\ DOMAIN n = 1..1 /\ n[1] = <<>>
  BY <1>1
<1>3. Unfqdn(n) = n
  BY <1>2 DEF Unfqdn
<1>4. LowerLabel(<<>>) = <<>>
  BY DEF LowerLabel
<1>5. SplitHost(n) = [i \in 1..1 |-> LowerLabel(n[i])]
  BY <1>2, <1>3 DEF SplitHost
<1>6. SplitHost(n) = [i \in 1..1 |-> <<>>]
  BY <1>2, <1>4, <1>5
<1> QED
  BY <1>1, <1>6

\* One wildcard, in the first of three or more labels.
LEMMA WildcardStandsFor ==
  ASSUME NEW p \in Seq(Seq(Characters)) \ {<<>>}, NEW h \in Seq(Seq(Characters)) \ {<<>>},
         Cardinality(Wildcards(p[1])) = 1
  PROVE  (SameRest(p, h) /\ SubdomainMatches(h[1], p[1]))
         <=> \E i \in Wildcards(p[1]), text \in Texts(h) : Replaced(p, i, text) = h
<1>1. PICK f : f = p[1]
  OBVIOUS
<1>2. PICK g : g = h[1]
  OBVIOUS
<1>3. f \in Seq(Characters) /\ g \in Seq(Characters)
  BY <1>1, <1>2
<1>4. PICK k \in 1..Len(f) : Wildcards(f) = {k} /\ SelectInSeq(f, Wild) = k
  BY <1>1, <1>3, OneWildcard
<1>5. PICK b : b = SubSeq(f, 1, k - 1)
  OBVIOUS
<1>6. PICK a : a = SubSeq(f, k + 1, Len(f))
  OBVIOUS
<1>7. b \in Seq(Characters) /\ a \in Seq(Characters)
  BY <1>3, <1>5, <1>6
<1>8. Before(f) = b /\ After(f) = a
  BY <1>4, <1>5, <1>6 DEF Before, After
<1>9. Ends(b, a, g) <=> Between(b, a, g)
  BY <1>3, <1>7, WildcardText
<1>10. SubdomainMatches(g, f) <=> \E text \in Texts(h) : b \o text \o a = g
  <2>1. SubdomainMatches(g, f) <=> Ends(b, a, g)
    BY <1>8 DEF SubdomainMatches, Ends
  <2>2. Texts(h) = {SubSeq(g, i, j) : i \in 1..Len(g) + 1, j \in 0..Len(g)}
    BY <1>2 DEF Texts
  <2>3. ASSUME Between(b, a, g) PROVE \E text \in Texts(h) : b \o text \o a = g
    <3>1. PICK i \in 1..Len(g) + 1, j \in 0..Len(g) : b \o SubSeq(g, i, j) \o a = g
      BY <2>3 DEF Between
    <3>2. PICK text : text = SubSeq(g, i, j)
      OBVIOUS
    <3>3. text \in Texts(h)
      BY ONLY <2>2, <3>2, i \in 1..Len(g) + 1, j \in 0..Len(g)
    <3> QED
      BY <3>1, <3>2, <3>3
  <2>4. ASSUME NEW text \in Texts(h), b \o text \o a = g PROVE Between(b, a, g)
    <3>1. PICK i \in 1..Len(g) + 1, j \in 0..Len(g) : text = SubSeq(g, i, j)
      BY <2>2
    <3> QED
      BY <2>4, <3>1 DEF Between
  <2> QED
    BY <1>9, <2>1, <2>3, <2>4
<1>11. ASSUME NEW text \in Texts(h)
       PROVE  Replaced(p, k, text) = h <=> SameRest(p, h) /\ b \o text \o a = g
  <2>1. PICK i \in 1..Len(g) + 1, j \in 0..Len(g) : text = SubSeq(g, i, j)
    BY <1>2 DEF Texts
  <2>2. Len(g) \in Nat /\ i \in Nat /\ j \in Nat
    BY <1>3
  <2>3. text \in Seq(Characters)
    <3>1. \A l \in i..j : l \in 1..Len(g)
      BY <2>2
    <3> QED
      BY <1>3, <2>1, <2>2, <3>1, SubSeqProperties
  <2>4. k \in 1..Len(p[1])
    BY <1>1
  <2>5. Replaced(p, k, text) = h
        <=> /\ SameRest(p, h)
            /\ SubSeq(p[1], 1, k - 1) \o text \o SubSeq(p[1], k + 1, Len(p[1])) = h[1]
    BY ONLY p \in Seq(Seq(Characters)) \ {<<>>}, h \in Seq(Seq(Characters)) \ {<<>>},
            <2>3, <2>4, ReplacedName
  <2> QED
    BY ONLY <1>1, <1>2, <1>5, <1>6, <2>5
<1>12. (\E i \in Wildcards(f), text \in Texts(h) : Replaced(p, i, text) = h)
       <=> \E text \in Texts(h) : Replaced(p, k, text) = h
  BY <1>4
<1> QED
  BY <1>1, <1>2, <1>10, <1>11, <1>12

LEMMA CheckStandsFor ==
  ASSUME NEW name \in Seq(Seq(Characters)) \ {<<>>}, NEW h \in Seq(Seq(Characters)) \ {<<>>},
         NEW w \in BOOLEAN
  PROVE  Check(h, name, w) <=> Clean(SplitHost(name)) /\ StandsFor(SplitHost(name), h, w)
<1>1. PICK p : p = SplitHost(name)
  OBVIOUS
<1>2. p \in Seq(Seq(Characters)) \ {<<>>}
  BY <1>1, Labels
<1>3. PICK f : f = p[1]
  OBVIOUS
<1>4. f \in Seq(Characters) /\ Len(p) \in Nat
  BY <1>2, <1>3
<1>5. DEFINE verbatim == ~Contains(f, "*") \/ Contains(f, "xn--")
             one == Cardinality(Wildcards(f)) = 1
<1>6. Clean(p) => name # <<<<>>>>
  <2>1. SUFFICES ASSUME name = <<<<>>>> PROVE ~Clean(p)
    OBVIOUS
  <2>2. PICK e : e = <<<<>>>>
    OBVIOUS
  <2>3. p = e /\ 1 \in DOMAIN e /\ e[1] = <<>>
    BY <1>1, <2>1, <2>2, EmptyName
  <2> QED
    BY <2>3 DEF Clean
<1>7. Check(h, name, w)
      <=> /\ Clean(p) /\ SameRest(p, h)
          /\ IF verbatim THEN h[1] = f
             ELSE w /\ one /\ Len(p) > 2 /\ SubdomainMatches(h[1], f)
  BY <1>1, <1>3, <1>6 DEF Check, Clean, SameRest
<1>8. StandsFor(p, h, w)
      <=> \/ verbatim /\ p = h
          \/ /\ w /\ Len(p) > 2 /\ one /\ ~Contains(f, "xn--")
             /\ \E i \in Wildcards(f), text \in Texts(h) : Replaced(p, i, text) = h
  BY <1>3, <1>4 DEF StandsFor
<1>9. one => Contains(f, "*")
  BY <1>4, OneWildcard DEF Contains, Wildcards, Wild
<1>10. p = h <=> SameRest(p, h) /\ h[1] = f
  BY <1>2, <1>3, SameName
<1>11. one => ((SameRest(p, h) /\ SubdomainMatches(h[1], f))
               <=> \E i \in Wildcards(f), text \in Texts(h) : Replaced(p, i, text) = h)
  BY <1>2, <1>3, WildcardStandsFor
<1> HIDE DEF verbatim, one
<1>12. verbatim <=> (~Contains(f, "*") \/ Contains(f, "xn--"))
  BY DEF verbatim
<1> QED
  BY <1>1, <1>7, <1>8, <1>9, <1>10, <1>11, <1>12

\* The names that count, and how they are checked.
LEMMA ValidMatches ==
  ASSUME NEW name \in Hostnames, NEW cert \in CertificateType
  PROVE  Valid(name, cert)
         <=> \E n \in Names(cert) :
                Clean(SplitHost(n[1])) /\ StandsFor(SplitHost(n[1]), SplitHost(Unfqdn(name)), n[2])
<1>1. PICK h : h = SplitHost(Unfqdn(name))
  OBVIOUS
<1>2. h \in Seq(Seq(Characters)) \ {<<>>}
  BY <1>1, IdentityAssumption, Unqualified, Labels
<1>3. \A p \in Patterns, w \in BOOLEAN :
        Check(h, p, w) <=> Clean(SplitHost(p)) /\ StandsFor(SplitHost(p), h, w)
  BY <1>2, IdentityAssumption, CheckStandsFor
<1>4. cert.dns \subseteq Patterns /\ cert.uri \subseteq Patterns /\ cert.cn \subseteq Patterns
  BY DEF CertificateType
<1>5. ASSUME NEW A \in SUBSET Patterns, NEW w \in BOOLEAN
      PROVE  (\E p \in A : Check(h, p, w))
             <=> \E n \in A \X {w} : Clean(SplitHost(n[1])) /\ StandsFor(SplitHost(n[1]), h, n[2])
  <2>1. ASSUME NEW p \in A, Check(h, p, w)
        PROVE  \E n \in A \X {w} : Clean(SplitHost(n[1])) /\ StandsFor(SplitHost(n[1]), h, n[2])
    <3>1. <<p, w>> \in A \X {w} /\ <<p, w>>[1] = p /\ <<p, w>>[2] = w
      OBVIOUS
    <3> QED
      BY <1>3, <2>1, <3>1
  <2>2. ASSUME NEW n \in A \X {w}, Clean(SplitHost(n[1])), StandsFor(SplitHost(n[1]), h, n[2])
        PROVE  \E p \in A : Check(h, p, w)
    <3>1. n[1] \in A /\ n[2] = w
      OBVIOUS
    <3> QED
      BY <1>3, <2>2, <3>1
  <2> QED
    BY <2>1, <2>2
<1>6. DEFINE Match(n) == Clean(SplitHost(n[1])) /\ StandsFor(SplitHost(n[1]), h, n[2])
             altNames == cert.dns # {} \/ cert.uri # {} \/ cert.other
<1>7. Valid(name, cert) <=>
        IF altNames THEN \/ \E p \in cert.dns : Check(h, p, TRUE)
                         \/ \E p \in cert.uri : Check(h, p, FALSE)
        ELSE cert.subject /\ \E p \in cert.cn : Check(h, p, TRUE)
  BY <1>1 DEF Valid
<1>8. Valid(name, cert) <=>
        IF altNames THEN (\E n \in cert.dns \X {TRUE} : Match(n)) \/ (\E n \in cert.uri \X {FALSE} : Match(n))
        ELSE cert.subject /\ \E n \in cert.cn \X {TRUE} : Match(n)
  BY <1>4, <1>5, <1>7
<1>9. ~altNames => cert.dns \X {TRUE} = {} /\ cert.uri \X {FALSE} = {}
  OBVIOUS
<1>10. Names(cert) = (cert.dns \X {TRUE}) \cup (cert.uri \X {FALSE})
                     \cup IF ~altNames /\ cert.subject THEN cert.cn \X {TRUE} ELSE {}
  BY DEF Names
<1>11. (\E n \in Names(cert) : Match(n)) <=> Valid(name, cert)
  <2> HIDE DEF Match, altNames
  <2> QED
    BY <1>8, <1>9, <1>10
<1> QED
  BY <1>1, <1>11

\* A host is accepted exactly when a name of the certificate that counts stands
\* for it, whatever names there are (check in checkServerIdentity.js): an empty
\* label, a bad character, a second wildcard, an overlap or a wildcard next to
\* the top level never makes a match, and nothing that stands for the host is refused.
THEOREM NamesMatch == StackSpec => []IdentityMatches
<1>1. StackInit => IdentityMatches
  BY DEF StackInit, IdentityInit, IdentityMatches
<1>2. RestInv /\ IdentityMatches /\ [StackNext]_stackVars => IdentityMatches'
  <2> SUFFICES ASSUME RestInv, IdentityMatches, [StackNext]_stackVars PROVE IdentityMatches'
    OBVIOUS
  <2>1. IdentityNext \/ UNCHANGED identityVars
    BY DEF StackNext, stackVars
  <2>2. CASE UNCHANGED identityVars
    BY <2>2 DEF IdentityMatches, identityVars
  <2>3. CASE IdentityNext
    <3>1. hostname \in Hostnames /\ certificate \in CertificateType
      BY DEF RestInv, IdentityTypeOK
    <3>2. UNCHANGED <<hostname, certificate>>
      BY <2>3 DEF IdentityNext, CheckServerIdentity
    <3>3. answer' = "true" <=> Valid(hostname, certificate)
      BY <2>3 DEF IdentityNext, CheckServerIdentity
    <3> QED
      BY <3>1, <3>2, <3>3, ValidMatches DEF IdentityMatches
  <2> QED
    BY <2>1, <2>2, <2>3
<1> QED
  BY <1>1, <1>2, RestInit, RestNext, PTL DEF StackSpec
=============================================================================
