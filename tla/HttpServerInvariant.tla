------------------------ MODULE HttpServerInvariant ------------------------
(***************************************************************************)
(* The inductive invariant of HttpServer, part by part, and why each kind of *)
(* change to the world keeps it.                                           *)
(***************************************************************************)
EXTENDS HttpServerEffects

-----------------------------------------------------------------------------
(* The inductive invariant, of a world w when a requests have arrived, n     *)
(* responses are sent whole, and the parser is in phase ph.                  *)

\* Nothing has happened to the requests that have not arrived.
FreshOK(w, a) ==
    /\ \A x \in Messages : x > a =>
          /\ w.res[x].keep
          /\ ~w.res[x].finished /\ ~w.res[x].destroyed
          /\ ~w.res[x].needDrain /\ ~w.res[x].last
          /\ Len(w.res[x].output) = 0
    /\ \A x \in w.closing : x <= a
    /\ w.sock.message <= a
    /\ \A i \in 1..Len(w.srv.outgoing) : w.srv.outgoing[i] <= a

\* A response queues its own pieces, the one that ends it last.
OutputsOK(w) ==
    \A x \in Messages : /\ Tagged(w.res[x].output, x)
                        /\ EndLast(w.res[x].output)
                        /\ ~w.res[x].finished => NoEnd(w.res[x].output)

\* What the socket has still to send are pieces of the response that has it.
BufOK(w, a) ==
    /\ ~w.failed
    /\ Alive(w) => Tagged(w.sock.buf, w.sock.message)
    /\ Alive(w) /\ Len(w.sock.buf) > 0 => w.sock.message # NoMessage
    /\ EndLast(w.sock.buf)
    /\ \A i \in 1..Len(w.sock.buf) : P!EndsResponse(w.sock.buf[i]) =>
          /\ w.sock.buf[i].of = w.sock.message
          /\ w.sock.message \in 1..a
          /\ w.res[w.sock.message].finished

\* A response that is about to be sent whole answers the first request due.
EndHeads(w, ph) ==
    NoEnd(w.sock.buf) \/ \/ Len(w.srv.incoming) > 0 /\ w.srv.incoming[1] = w.sock.message
                         \/ ph = "gone" /\ Len(w.srv.incoming) = 0

\* The requests due are n+1, n+2, ...: the response to the first has the
\* socket, the others wait in this order.
InOrder(w) == \/ w.sock.state = "open"
              \/ w.sock.state = "ended" /\ Len(w.sock.buf) > 0

Numbered(w, a, n) ==
    /\ Len(w.srv.incoming) = a - n
    /\ \A i \in 1..Len(w.srv.incoming) : w.srv.incoming[i] = n + i
    /\ w.sock.message = NoMessage => Len(w.srv.outgoing) = 0 /\ a = n
    /\ w.sock.message # NoMessage =>
          /\ w.sock.message = n + 1
          /\ Len(w.srv.outgoing) = a - n - 1
          /\ \A i \in 1..Len(w.srv.outgoing) : w.srv.outgoing[i] = n + 1 + i
    /\ w.sock.state = "ended" => w.sock.peerEnded

NumbersOK(w, a, n) == InOrder(w) => Numbered(w, a, n)

CountOK(w) == w.srv.outgoingData = Cardinality(Queued(w))

TimerOK(w) ==
    Alive(w) /\ w.srv.keepAliveTimeoutSet
        => w.sock.message = NoMessage /\ Len(w.srv.incoming) = 0

\* What waits to be sent belongs to responses whose turn is still to come.
TurnsOK(w, n) ==
    w.sock.state = "open" =>
        /\ \A x \in Messages : Len(w.res[x].output) > 0 => n + 1 < x
        /\ \A x \in Messages : x <= n => w.res[x].finished
        /\ w.sock.needDrain => Len(w.sock.buf) > 0

Draining(w) == w.sock.needDrain /\ Len(w.sock.buf) > 0

PausedOK(w, ph) ==
    w.sock.state = "open" /\ ph # "upgraded" /\ w.sock.paused =>
        \/ Draining(w)
        \/ \E i \in 1..Len(w.srv.outgoing) : Len(w.res[w.srv.outgoing[i]].output) > 0

WaitingOK(w, a, ph) ==
    \A x \in Messages :
        /\ x <= a
        /\ w.sock.state = "open" /\ ph # "upgraded"
        /\ w.res[x].needDrain /\ ~w.res[x].finished /\ ~w.res[x].destroyed
        => IF w.sock.message = x THEN Draining(w) ELSE Len(w.res[x].output) > 0

\* The last response is one that closes, or the last request of a client that
\* has ended its side.
LastOK(w, a) ==
    w.sock.state = "open" =>
        \A x \in Messages : w.res[x].last => ~w.res[x].keep \/ (w.sock.peerEnded /\ x = a)

WorldOK(w, a, n, ph) ==
    /\ w \in WorldType
    /\ FreshOK(w, a)
    /\ OutputsOK(w)
    /\ BufOK(w, a)
    /\ EndHeads(w, ph)
    /\ NumbersOK(w, a, n)
    /\ CountOK(w)
    /\ TimerOK(w)
    /\ TurnsOK(w, n)
    /\ PausedOK(w, ph)
    /\ WaitingOK(w, a, ph)
    /\ LastOK(w, a)

-----------------------------------------------------------------------------
(* How many pieces are queued. *)

Queue(w, x) == {x} \X DOMAIN w.res[x].output
OtherQueues(w, r) == UNION {Queue(w, x) : x \in Messages \ {r}}

\* There are finitely many messages.
LEMMA MessagesFinite ==
  IsFiniteSet(Messages) /\ \A r \in Messages : IsFiniteSet(Messages \ {r})
<1>1. IsFiniteSet(Messages)
  BY FS_Interval, ServerAssumption DEF Messages
<1> QED
  BY <1>1, FS_RemoveElement

\* A response counts as many pieces as its queue is long.
LEMMA QueueSize ==
  ASSUME NEW w \in WorldType, NEW x \in Messages
  PROVE  IsFiniteSet(Queue(w, x)) /\ Cardinality(Queue(w, x)) = Len(w.res[x].output)
<1>1. PICK k \in Nat : k = Len(w.res[x].output) /\ DOMAIN w.res[x].output = 1..k
  <2>1. w.res[x].output \in Seq(Pieces)
    BY ResFields
  <2> QED
    BY <2>1
<1>2. IsFiniteSet(1..k) /\ Cardinality(1..k) = k
  BY FS_Interval
<1>3. IsFiniteSet({x}) /\ Cardinality({x}) = 1
  BY FS_Singleton
<1>4. IsFiniteSet({x} \X (1..k)) /\ Cardinality({x} \X (1..k)) = 1 * k
  BY <1>2, <1>3, FS_Product
<1> QED
  BY <1>1, <1>4 DEF Queue

\* The queues of the other responses are finite together.
LEMMA OtherQueuesFinite ==
  ASSUME NEW w \in WorldType, NEW r \in Messages
  PROVE  IsFiniteSet(OtherQueues(w, r))
<1> DEFINE M == Messages \ {r}
           f == [x \in M |-> Queue(w, x)]
           R == {Queue(w, x) : x \in M}
<1>1. IsFiniteSet(M)
  BY MessagesFinite
<1>2. f \in Surjection(M, R)
  BY DEF Surjection
<1>3. IsFiniteSet(R)
  <2> HIDE DEF f, M, R
  <2> QED
    BY <1>1, <1>2, FS_Surjection
<1>4. \A T \in R : IsFiniteSet(T)
  BY QueueSize
<1>5. IsFiniteSet(UNION R)
  <2> HIDE DEF f, M, R
  <2> QED
    BY <1>3, <1>4, FS_UNION
<1> QED
  BY <1>5 DEF OtherQueues

\* The pieces queued are those of r and those of the others.
LEMMA QueuedSplit ==
  ASSUME NEW w \in WorldType, NEW r \in Messages
  PROVE  /\ Cardinality(OtherQueues(w, r)) \in Nat
         /\ Cardinality(Queued(w)) = Cardinality(OtherQueues(w, r)) + Len(w.res[r].output)
<1>1. Queued(w) = OtherQueues(w, r) \cup Queue(w, r)
  BY DEF Queued, OtherQueues, Queue
<1>2. OtherQueues(w, r) \cap Queue(w, r) = {}
  BY DEF OtherQueues, Queue
<1>3. IsFiniteSet(OtherQueues(w, r)) /\ IsFiniteSet(Queue(w, r))
      /\ Cardinality(Queue(w, r)) = Len(w.res[r].output)
  BY OtherQueuesFinite, QueueSize
<1>4. Cardinality(OtherQueues(w, r)) \in Nat /\ Cardinality(Queue(w, r)) \in Nat
  BY <1>3, FS_CardinalityType
<1>5. Cardinality({}) = 0
  BY FS_EmptySet
<1>6. Cardinality(Queued(w)) = Cardinality(OtherQueues(w, r)) + Cardinality(Queue(w, r))
                               - Cardinality(OtherQueues(w, r) \cap Queue(w, r))
  BY <1>1, <1>3, FS_Union
<1>7. Cardinality(OtherQueues(w, r) \cap Queue(w, r)) = 0
  BY <1>2, <1>5
<1>8. \A i, j \in Nat : i + j - 0 = i + j
  OBVIOUS
<1> QED
  BY <1>3, <1>4, <1>6, <1>7, <1>8

\* The counter stays right when a response changes its own queue.
LEMMA CountKept ==
  ASSUME NEW w \in WorldType, NEW v \in WorldType, NEW r \in Messages,
         SameOthers(w, v, r), Uncounted(v, r) = Uncounted(w, r), CountOK(w)
  PROVE  CountOK(v)
<1>1. OtherQueues(v, r) = OtherQueues(w, r)
  BY DEF OtherQueues, Queue, SameOthers
<1>2. PICK k \in Nat : k = Cardinality(OtherQueues(w, r))
  BY QueuedSplit
<1>3. PICK i \in Nat : i = Len(w.res[r].output)
  BY ResFields
<1>4. PICK j \in Nat : j = Len(v.res[r].output)
  BY ResFields
<1>5. PICK d \in Int : d = v.srv.outgoingData
  BY WorldFields
<1>6. w.srv.outgoingData = k + i /\ Cardinality(Queued(v)) = k + j
  BY <1>1, <1>2, <1>3, <1>4, QueuedSplit DEF CountOK
<1>7. d - j = (k + i) - i
  BY <1>3, <1>4, <1>5, <1>6 DEF Uncounted
<1>8. d = k + j
  BY <1>7
<1> QED
  BY <1>5, <1>6, <1>8 DEF CountOK

\* Where no queue changes the counter stays right.
LEMMA SameCountKept ==
  ASSUME NEW w, NEW v, SameOutputs(w, v), v.srv.outgoingData = w.srv.outgoingData, CountOK(w)
  PROVE  CountOK(v)
<1>1. Queued(v) = Queued(w)
  BY DEF Queued, SameOutputs
<1> QED
  BY <1>1 DEF CountOK

\* When something is counted, some response has queued something.
LEMMA CountedIsQueued ==
  ASSUME NEW w \in WorldType, CountOK(w), w.srv.outgoingData > 0
  PROVE  \E x \in Messages : Len(w.res[x].output) > 0
<1>1. SUFFICES ASSUME \A x \in Messages : Len(w.res[x].output) = 0
               PROVE  FALSE
  <2>1. \A x \in Messages : Len(w.res[x].output) \in Nat
    BY ResFields
  <2> QED
    BY <2>1
<1>2. \A x \in Messages : DOMAIN w.res[x].output = {}
  <2>1. SUFFICES ASSUME NEW x \in Messages
                 PROVE  DOMAIN w.res[x].output = {}
    OBVIOUS
  <2>2. w.res[x].output \in Seq(Pieces)
    BY ResFields
  <2> QED
    BY <1>1, <2>2
<1>3. Queued(w) = {}
  BY <1>2 DEF Queued
<1>4. Cardinality(Queued(w)) = 0
  BY <1>3, FS_EmptySet
<1> QED
  BY <1>4 DEF CountOK

-----------------------------------------------------------------------------
(* A call of the program keeps the invariant. *)

\* The elements of a concatenation.
LEMMA TwoQueues ==
  ASSUME NEW p \in Seq(Pieces), NEW q \in Seq(Pieces)
  PROVE  /\ p \o q \in Seq(Pieces) /\ Len(p \o q) = Len(p) + Len(q)
         /\ \A i \in 1..Len(p) : (p \o q)[i] = p[i]
         /\ \A i \in 1..Len(q) : (p \o q)[Len(p) + i] = q[i]
         /\ \A i \in 1..Len(p \o q) : i \in 1..Len(p) \/ (i - Len(p) \in 1..Len(q)
                                                         /\ (p \o q)[i] = q[i - Len(p)])
OBVIOUS

\* A response that is not finished has its turn still, or to come.
LEMMA TurnOfWriter ==
  ASSUME NEW w \in WorldType, NEW a \in 0..N, NEW n \in Nat, NEW r \in Messages,
         NumbersOK(w, a, n), TurnsOK(w, n), r <= a, ~w.res[r].finished
  PROVE  /\ HasTurn(w, r) => r = n + 1
         /\ w.sock.state = "open" /\ ~HasTurn(w, r) => n + 1 < r
         /\ w.sock.state = "open" => w.sock.message # NoMessage
<1>1. SUFFICES ASSUME w.sock.state = "open"
               PROVE  /\ HasTurn(w, r) => r = n + 1
                      /\ ~HasTurn(w, r) => n + 1 < r
                      /\ w.sock.message # NoMessage
  BY DEF HasTurn
<1>2. r \in Nat /\ a \in Nat
  BY ServerAssumption DEF Messages
<1>3. ~(r <= n)
  BY <1>1 DEF TurnsOK
<1>4. Numbered(w, a, n)
  BY <1>1 DEF NumbersOK, InOrder
<1>5. w.sock.message # NoMessage
  BY <1>2, <1>3, <1>4 DEF Numbered
<1>6. w.sock.message = n + 1
  BY <1>4, <1>5 DEF Numbered
<1> QED
  BY <1>1, <1>2, <1>3, <1>5, <1>6 DEF HasTurn

\* The requests that have not arrived are left alone.
LEMMA WritesFresh ==
  ASSUME NEW w \in WorldType, NEW v, NEW a \in 0..N, NEW piece, FreshOK(w, a), Writes(w, v, piece),
         piece.of \in Messages, piece.of <= a
  PROVE  FreshOK(v, a)
<1>1. \A x \in Messages : x > a => x # piece.of
  BY DEF Messages
<1>2. v.closing = w.closing /\ v.sock.message = w.sock.message
      /\ v.srv.outgoing = w.srv.outgoing
  BY DEF Writes, SameSock
<1>3. \A x \in Messages : x # piece.of => v.res[x].output = w.res[x].output
  BY DEF Writes, Emission, SameOthers
<1>4. \A x \in Messages : x # piece.of =>
          /\ v.res[x].keep = w.res[x].keep
          /\ v.res[x].destroyed = w.res[x].destroyed
          /\ v.res[x].last => w.res[x].last \/ ~w.res[x].keep
          /\ v.res[x].finished = w.res[x].finished
          /\ v.res[x].needDrain => w.res[x].needDrain
  BY DEF Writes
<1>5. ASSUME NEW x \in Messages, x > a
      PROVE  /\ v.res[x].keep
             /\ ~v.res[x].finished /\ ~v.res[x].destroyed
             /\ ~v.res[x].needDrain /\ ~v.res[x].last
             /\ Len(v.res[x].output) = 0
  BY <1>1, <1>3, <1>4, <1>5 DEF FreshOK
<1> QED
  BY <1>2, <1>5 DEF FreshOK

\* The queues keep their form.
LEMMA WritesOutputs ==
  ASSUME NEW w, NEW v, NEW piece, OutputsOK(w), Writes(w, v, piece), piece.of \in Messages
  PROVE  OutputsOK(v)
<1>1. SUFFICES ASSUME NEW x \in Messages
               PROVE  /\ Tagged(v.res[x].output, x)
                      /\ EndLast(v.res[x].output)
                      /\ ~v.res[x].finished => NoEnd(v.res[x].output)
  BY DEF OutputsOK
<1>2. CASE x = piece.of
  <2>1. Pieces1(v.res[x].output, piece)
    BY <1>2 DEF Writes, Emission
  <2>2. ~v.res[x].finished => ~P!EndsResponse(piece)
    BY <1>2 DEF Writes
  <2> QED
    BY <1>2, <2>1, <2>2 DEF Pieces1
<1>3. CASE x # piece.of
  <2>1. v.res[x].output = w.res[x].output /\ v.res[x].finished = w.res[x].finished
    BY <1>3 DEF Writes, Emission, SameOthers
  <2> QED
    BY <2>1 DEF OutputsOK
<1> QED
  BY <1>2, <1>3

\* What is finished stays finished.
LEMMA WritesFinished ==
  ASSUME NEW w, NEW v, NEW piece, Writes(w, v, piece), NEW x \in Messages, w.res[x].finished
  PROVE  v.res[x].finished
<1>1. CASE x = piece.of
  BY <1>1 DEF Writes
<1>2. CASE x # piece.of
  BY <1>2 DEF Writes
<1> QED
  BY <1>1, <1>2

\* What the response that has the turn puts on the socket.
LEMMA WritesBuf ==
  ASSUME NEW w \in WorldType, NEW v, NEW a \in 0..N, NEW piece, Writes(w, v, piece),
         BufOK(w, a), piece.of \in Messages, piece.of <= a, ~w.res[piece.of].finished
  PROVE  BufOK(v, a) /\ (NoEnd(v.sock.buf) \/ v.sock.buf = w.sock.buf
                                           \/ HasTurn(w, piece.of))
<1>1. Emission(w, v, piece) /\ SameSock(w.sock, v.sock) /\ v.failed = w.failed
  BY DEF Writes
<1>2. v.sock.state = w.sock.state /\ v.sock.message = w.sock.message
      /\ (Alive(v) <=> Alive(w))
  BY <1>1 DEF SameSock, Alive
<1>3. CASE ~HasTurn(w, piece.of)
  <2>1. v.sock.buf = w.sock.buf
    BY <1>1, <1>3 DEF Emission, SameBuf
  <2>2. \A i \in 1..Len(w.sock.buf) : P!EndsResponse(w.sock.buf[i]) =>
          /\ w.sock.buf[i].of = w.sock.message
          /\ w.sock.message \in 1..a
          /\ v.res[w.sock.message].finished
    <3>1. 1..a \subseteq Messages
      BY ServerAssumption DEF Messages
    <3> QED
      BY <3>1, WritesFinished DEF BufOK
  <2> QED
    BY <1>1, <1>2, <2>1, <2>2 DEF BufOK
<1>4. CASE HasTurn(w, piece.of)
  <2>1. PICK r : r = piece.of /\ r \in Messages /\ r \in 1..a
    BY DEF Messages
  <2>2. w.sock.message = r /\ w.sock.state = "open" /\ Alive(w) /\ r # NoMessage
    BY <1>4, <2>1 DEF HasTurn, Alive, NoMessage
  <2>3. PICK q \in Seq(Pieces) : /\ Pieces1(q, piece) /\ Len(q) > 0
                                 /\ v.sock.buf = w.sock.buf \o q
    BY <1>1, <1>4 DEF Emission
  <2>4. PICK b \in Seq(Pieces) : b = w.sock.buf
    BY WorldFields
  <2>5. Tagged(b, r) /\ NoEnd(b)
    BY <2>1, <2>2, <2>4 DEF BufOK, NoEnd
  <2>6. PICK t : t = v.sock.buf /\ t = b \o q
    BY <2>3, <2>4
  <2>7. /\ t \in Seq(Pieces) /\ Len(t) = Len(b) + Len(q)
        /\ \A i \in 1..Len(b) : t[i] = b[i]
        /\ \A i \in 1..Len(t) : i \in 1..Len(b) \/ (i - Len(b) \in 1..Len(q)
                                                    /\ t[i] = q[i - Len(b)])
    BY <2>6, TwoQueues
  <2>8. Tagged(q, r) /\ EndLast(q) /\ (~P!EndsResponse(piece) => NoEnd(q))
    BY <2>1, <2>3 DEF Pieces1
  <2>9. Tagged(t, r)
    BY <2>5, <2>7, <2>8 DEF Tagged
  <2>10. EndLast(t)
    <3>1. SUFFICES ASSUME NEW i \in 1..Len(t), P!EndsResponse(t[i])
                   PROVE  i = Len(t)
      BY DEF EndLast
    <3>2. ~(i \in 1..Len(b))
      BY <2>5, <2>7, <3>1 DEF NoEnd
    <3>3. i - Len(b) \in 1..Len(q) /\ P!EndsResponse(q[i - Len(b)])
      BY <2>7, <3>1, <3>2
    <3>4. i - Len(b) = Len(q)
      BY <2>8, <3>3 DEF EndLast
    <3> QED
      BY <2>7, <3>4
  <2>11. ~P!EndsResponse(piece) => NoEnd(t)
    BY <2>5, <2>7, <2>8 DEF NoEnd
  <2>12. P!EndsResponse(piece) => v.res[r].finished
    BY <2>1 DEF Writes
  <2>13. \A i \in 1..Len(t) : P!EndsResponse(t[i]) =>
            t[i].of = r /\ r \in 1..a /\ v.res[r].finished
    BY <2>1, <2>9, <2>11, <2>12 DEF Tagged, NoEnd
  <2> QED
    BY <1>1, <1>2, <1>4, <2>2, <2>6, <2>9, <2>10, <2>13 DEF BufOK
<1> QED
  BY <1>3, <1>4

\* The pipeline is left alone.
LEMMA WritesNumbers ==
  ASSUME NEW w \in WorldType, NEW v, NEW a, NEW n, NEW piece, NumbersOK(w, a, n),
         Writes(w, v, piece)
  PROVE  NumbersOK(v, a, n)
<1>1. /\ SameSock(w.sock, v.sock) /\ v.srv.incoming = w.srv.incoming
      /\ v.srv.outgoing = w.srv.outgoing
      /\ ~HasTurn(w, piece.of) => v.sock.buf = w.sock.buf
  BY DEF Writes, Emission, SameBuf
<1>2. InOrder(v) => InOrder(w)
  BY <1>1 DEF InOrder, SameSock, HasTurn
<1> QED
  BY <1>1, <1>2 DEF NumbersOK, Numbered, SameSock

\* The piece that ends a response comes when its request is the first one due.
LEMMA WritesHeads ==
  ASSUME NEW w \in WorldType, NEW v, NEW a \in 0..N, NEW n \in Nat, NEW ph, NEW piece,
         Writes(w, v, piece), BufOK(w, a), EndHeads(w, ph), NumbersOK(w, a, n), TurnsOK(w, n),
         piece.of \in Messages, piece.of <= a, ~w.res[piece.of].finished
  PROVE  EndHeads(v, ph)
<1>1. v.srv.incoming = w.srv.incoming /\ v.sock.message = w.sock.message
  BY DEF Writes, SameSock
<1>2. CASE NoEnd(v.sock.buf)
  BY <1>2 DEF EndHeads
<1>3. CASE v.sock.buf = w.sock.buf
  BY <1>1, <1>3 DEF EndHeads
<1>4. CASE HasTurn(w, piece.of)
  <2>1. piece.of = n + 1 /\ w.sock.message = piece.of
    BY <1>4, TurnOfWriter DEF HasTurn
  <2>2. Numbered(w, a, n)
    BY <1>4 DEF NumbersOK, InOrder, HasTurn
  <2>3. Len(w.srv.incoming) > 0 /\ w.srv.incoming[1] = n + 1
    <3>1. PICK k \in Nat : k = Len(w.srv.incoming)
      BY WorldFields
    <3>2. k = a - n /\ (1 \in 1..k => w.srv.incoming[1] = n + 1)
      BY <2>2, <3>1 DEF Numbered
    <3>3. k > 0
      BY <2>1, <3>1, <3>2, ServerAssumption
    <3> QED
      BY <3>1, <3>2, <3>3
  <2> QED
    BY <1>1, <2>1, <2>3 DEF EndHeads
<1> QED
  BY <1>2, <1>3, <1>4, WritesBuf

\* The counter follows the queue.
LEMMA WritesCount ==
  ASSUME NEW w \in WorldType, NEW v, NEW piece, Writes(w, v, piece), CountOK(w),
         piece.of \in Messages
  PROVE  CountOK(v)
<1>1. v \in WorldType
  BY DEF Writes
<1>2. SameOthers(w, v, piece.of) /\ Uncounted(v, piece.of) = Uncounted(w, piece.of)
  BY DEF Writes, Emission
<1> QED
  BY <1>1, <1>2, CountKept

\* The timer is left alone.
LEMMA WritesTimer ==
  ASSUME NEW w, NEW v, NEW piece, Writes(w, v, piece), TimerOK(w)
  PROVE  TimerOK(v)
BY DEF Writes, TimerOK, SameSock, Alive

\* What drains goes on draining.
LEMMA WritesDraining ==
  ASSUME NEW w \in WorldType, NEW v, NEW piece, Writes(w, v, piece), Draining(w)
  PROVE  Draining(v)
<1>1. Emission(w, v, piece)
  BY DEF Writes
<1>2. CASE HasTurn(w, piece.of)
  <2>1. PICK q \in Seq(Pieces) : /\ Len(q) > 0
                                 /\ v.sock.buf = w.sock.buf \o q
    BY <1>1, <1>2 DEF Emission
  <2>2. w.sock.buf \in Seq(Pieces)
    BY WorldFields
  <2>3. Len(v.sock.buf) > 0
    BY <2>1, <2>2
  <2> QED
    BY <1>1, <1>2, <2>3 DEF Emission, Draining
<1>3. CASE ~HasTurn(w, piece.of)
  BY <1>1, <1>3 DEF Emission, SameBuf, Draining
<1> QED
  BY <1>2, <1>3

\* What is queued is of a response whose turn is to come.
LEMMA WritesTurns ==
  ASSUME NEW w \in WorldType, NEW v, NEW a \in 0..N, NEW n \in Nat, NEW piece,
         Writes(w, v, piece), NumbersOK(w, a, n), TurnsOK(w, n),
         piece.of \in Messages, piece.of <= a, ~w.res[piece.of].finished
  PROVE  TurnsOK(v, n)
<1>1. SUFFICES ASSUME v.sock.state = "open"
               PROVE  /\ \A x \in Messages : Len(v.res[x].output) > 0 => n + 1 < x
                      /\ \A x \in Messages : x <= n => v.res[x].finished
                      /\ v.sock.needDrain => Len(v.sock.buf) > 0
  BY DEF TurnsOK
<1>2. w.sock.state = "open" /\ Emission(w, v, piece)
  BY <1>1 DEF Writes, SameSock
<1>3. ASSUME NEW x \in Messages, Len(v.res[x].output) > 0
      PROVE  n + 1 < x
  <2>1. CASE x = piece.of
    <3>1. ~HasTurn(w, x)
      BY <1>2, <1>3, <2>1 DEF Emission
    <3> QED
      BY <1>2, <2>1, <3>1, TurnOfWriter
  <2>2. CASE x # piece.of
    <3>1. v.res[x].output = w.res[x].output
      BY <1>2, <2>2 DEF Emission, SameOthers
    <3> QED
      BY <1>2, <1>3, <3>1 DEF TurnsOK
  <2> QED
    BY <2>1, <2>2
<1>4. \A x \in Messages : x <= n => v.res[x].finished
  BY <1>2, WritesFinished DEF TurnsOK
<1>5. v.sock.needDrain => Len(v.sock.buf) > 0
  <2>1. CASE HasTurn(w, piece.of)
    <3>1. PICK q \in Seq(Pieces) : /\ Len(q) > 0
                                   /\ v.sock.buf = w.sock.buf \o q
      BY <1>2, <2>1 DEF Emission
    <3>2. w.sock.buf \in Seq(Pieces)
      BY WorldFields
    <3> QED
      BY <3>1, <3>2
  <2>2. CASE ~HasTurn(w, piece.of)
    BY <1>2, <2>2 DEF Emission, SameBuf, TurnsOK
  <2> QED
    BY <2>1, <2>2
<1> QED
  BY <1>3, <1>4, <1>5

\* A paused socket keeps its reason.
LEMMA WritesPaused ==
  ASSUME NEW w \in WorldType, NEW v, NEW a \in 0..N, NEW n \in Nat, NEW ph, NEW piece,
         Writes(w, v, piece), NumbersOK(w, a, n), PausedOK(w, ph), piece.of \in Messages
  PROVE  PausedOK(v, ph)
<1>1. SUFFICES ASSUME v.sock.state = "open", ph # "upgraded", v.sock.paused
               PROVE  \/ Draining(v)
                      \/ \E i \in 1..Len(v.srv.outgoing) :
                            Len(v.res[v.srv.outgoing[i]].output) > 0
  BY DEF PausedOK
<1>2. w.sock.state = "open" /\ w.sock.paused /\ v.srv.outgoing = w.srv.outgoing
      /\ Emission(w, v, piece) /\ v \in WorldType
  BY <1>1 DEF Writes, SameSock
<1>3. CASE Draining(w)
  BY <1>3, WritesDraining
<1>4. CASE ~Draining(w)
  <2>1. PICK i \in 1..Len(w.srv.outgoing) : Len(w.res[w.srv.outgoing[i]].output) > 0
    BY <1>1, <1>2, <1>4 DEF PausedOK
  <2>2. PICK x \in Messages : x = w.srv.outgoing[i]
    BY WorldFields
  <2>3. Len(v.res[x].output) > 0
    <3>1. CASE x # piece.of
      BY <1>2, <2>1, <2>2, <3>1 DEF Emission, SameOthers
    <3>2. CASE x = piece.of
      <4>1. Numbered(w, a, n)
        BY <1>2 DEF NumbersOK, InOrder
      <4>2. w.sock.message # NoMessage
        BY <2>1, <4>1, ServerAssumption DEF Numbered
      <4>3. x = n + 1 + i /\ w.sock.message = n + 1
        BY <2>2, <4>1, <4>2 DEF Numbered
      <4>4. x # w.sock.message
        BY <4>3
      <4>5. ~HasTurn(w, x)
        BY <4>4 DEF HasTurn
      <4>6. PICK j \in Nat : j = Len(w.res[x].output)
        BY ResFields
      <4>7. PICK k \in Nat : k = Len(v.res[x].output)
        BY <1>2, ResFields
      <4>8. k >= j /\ j > 0
        BY <1>2, <2>1, <2>2, <3>2, <4>5, <4>6, <4>7 DEF Emission
      <4> QED
        BY <4>7, <4>8
    <3> QED
      BY <3>1, <3>2
  <2> QED
    BY <1>2, <2>2, <2>3
<1> QED
  BY <1>3, <1>4

\* A program told to wait keeps its reason, and one told now has one.
LEMMA WritesWaiting ==
  ASSUME NEW w \in WorldType, NEW v, NEW a \in 0..N, NEW ph, NEW piece,
         Writes(w, v, piece), WaitingOK(w, a, ph), piece.of \in Messages
  PROVE  WaitingOK(v, a, ph)
<1>1. SUFFICES ASSUME NEW x \in Messages, x <= a, v.sock.state = "open", ph # "upgraded",
                      v.res[x].needDrain, ~v.res[x].finished, ~v.res[x].destroyed
               PROVE  IF v.sock.message = x THEN Draining(v) ELSE Len(v.res[x].output) > 0
  BY DEF WaitingOK
<1>2. w.sock.state = "open" /\ Emission(w, v, piece) /\ v \in WorldType
      /\ v.sock.message = w.sock.message
  BY <1>1 DEF Writes, SameSock
<1>3. ~w.res[x].finished /\ ~w.res[x].destroyed
  BY <1>1, WritesFinished DEF Writes
<1>4. CASE w.res[x].needDrain
  <2>1. IF w.sock.message = x THEN Draining(w) ELSE Len(w.res[x].output) > 0
    BY <1>1, <1>2, <1>3, <1>4 DEF WaitingOK
  <2>2. CASE w.sock.message = x
    BY <1>2, <2>1, <2>2, WritesDraining
  <2>3. CASE w.sock.message # x
    <3>1. CASE x = piece.of
      BY <1>2, <2>3, <3>1 DEF Emission
    <3>2. CASE x # piece.of
      BY <1>2, <2>1, <2>3, <3>2 DEF Emission, SameOthers
    <3> QED
      BY <1>2, <2>3, <3>1, <3>2
  <2> QED
    BY <2>2, <2>3
<1>5. CASE ~w.res[x].needDrain
  <2>1. x = piece.of
    BY <1>1, <1>5 DEF Writes
  <2>2. Full(v, x)
    BY <1>1, <1>5, <2>1 DEF Writes
  <2>3. CASE v.sock.message = x
    <3>1. HasTurn(w, x)
      BY <1>2, <2>3 DEF HasTurn
    <3>2. Len(v.sock.buf) >= HighWaterMark
      BY <1>1, <2>2, <2>3 DEF Full
    <3>3. v.sock.needDrain
      BY <1>2, <2>1, <3>1, <3>2 DEF Emission
    <3>4. Len(v.sock.buf) > 0
      <4>1. Len(v.sock.buf) \in Nat
        BY <1>2, WorldFields
      <4> QED
        BY <3>2, <4>1, ServerAssumption
    <3> QED
      BY <2>3, <3>3, <3>4 DEF Draining
  <2>4. CASE v.sock.message # x
    BY <1>2, <2>1, <2>4 DEF Emission
  <2> QED
    BY <2>3, <2>4
<1> QED
  BY <1>4, <1>5

\* A response becomes the last only if it closes.
LEMMA WritesLast ==
  ASSUME NEW w, NEW v, NEW a, NEW piece, Writes(w, v, piece), LastOK(w, a)
  PROVE  LastOK(v, a)
<1>1. v.sock.state = w.sock.state /\ v.sock.peerEnded = w.sock.peerEnded
  BY DEF Writes, SameSock
<1>2. \A x \in Messages : v.res[x].keep = w.res[x].keep
                          /\ (v.res[x].last => w.res[x].last \/ ~w.res[x].keep)
  BY DEF Writes
<1> QED
  BY <1>1, <1>2 DEF LastOK

\* A call of the program keeps the whole of it.
LEMMA WritesKeep ==
  ASSUME NEW w, NEW v, NEW a \in 0..N, NEW n \in Nat, NEW ph, NEW piece,
         WorldOK(w, a, n, ph), Writes(w, v, piece),
         piece.of \in Messages, piece.of <= a, ~w.res[piece.of].finished
  PROVE  WorldOK(v, a, n, ph)
<1>1. w \in WorldType
  BY DEF WorldOK
<1>2. v \in WorldType
  BY DEF Writes
<1>3. FreshOK(v, a) /\ OutputsOK(v) /\ BufOK(v, a)
  BY <1>1, WritesFresh, WritesOutputs, WritesBuf DEF WorldOK
<1>4. EndHeads(v, ph) /\ NumbersOK(v, a, n) /\ CountOK(v) /\ TimerOK(v)
  BY <1>1, WritesHeads, WritesNumbers, WritesCount, WritesTimer DEF WorldOK
<1>5. TurnsOK(v, n) /\ PausedOK(v, ph) /\ WaitingOK(v, a, ph) /\ LastOK(v, a)
  BY <1>1, WritesTurns, WritesPaused, WritesWaiting, WritesLast DEF WorldOK
<1> QED
  BY <1>2, <1>3, <1>4, <1>5 DEF WorldOK

-----------------------------------------------------------------------------
(* Steps that leave the socket's queue and the pipeline alone. *)

\* From w to v nothing the invariant speaks of changes, but that the socket
\* may die, responses be destroyed and the keep-alive timer stop.
Calm(w, v, a) ==
    /\ v \in WorldType
    /\ Alive(v) => v.sock.state = w.sock.state
    /\ SameBuf(w, v)
    /\ v.sock.message = w.sock.message /\ v.sock.peerEnded = w.sock.peerEnded
    /\ v.sock.paused => w.sock.paused
    /\ v.srv.incoming = w.srv.incoming /\ v.srv.outgoing = w.srv.outgoing
    /\ v.srv.outgoingData = w.srv.outgoingData
    /\ v.srv.keepAliveTimeoutSet => w.srv.keepAliveTimeoutSet
    /\ v.failed = w.failed
    /\ v.closing \subseteq w.closing
    /\ \A x \in Messages :
          /\ v.res[x].output = w.res[x].output
          /\ v.res[x].keep = w.res[x].keep
          /\ v.res[x].last = w.res[x].last
          /\ v.res[x].finished = w.res[x].finished
          /\ v.res[x].needDrain = w.res[x].needDrain
          /\ w.res[x].destroyed => v.res[x].destroyed
          /\ v.res[x].destroyed => w.res[x].destroyed \/ x <= a

\* Calm steps keep the invariant.
LEMMA CalmKeeps ==
  ASSUME NEW w, NEW v, NEW a \in 0..N, NEW n, NEW ph, NEW q,
         WorldOK(w, a, n, ph), Calm(w, v, a),
         ph = "upgraded" => q = "upgraded", ph = "gone" => q = "gone"
  PROVE  WorldOK(v, a, n, q)
<1>1. /\ v \in WorldType
      /\ Alive(v) => v.sock.state = w.sock.state
      /\ v.sock.buf = w.sock.buf /\ v.sock.needDrain = w.sock.needDrain
      /\ v.sock.message = w.sock.message /\ v.sock.peerEnded = w.sock.peerEnded
      /\ v.sock.paused => w.sock.paused
      /\ v.srv.incoming = w.srv.incoming /\ v.srv.outgoing = w.srv.outgoing
      /\ v.srv.outgoingData = w.srv.outgoingData
      /\ v.srv.keepAliveTimeoutSet => w.srv.keepAliveTimeoutSet
      /\ v.failed = w.failed
      /\ v.closing \subseteq w.closing
  BY DEF Calm, SameBuf
<1>2. \A x \in Messages :
          /\ v.res[x].output = w.res[x].output
          /\ v.res[x].keep = w.res[x].keep
          /\ v.res[x].last = w.res[x].last
          /\ v.res[x].finished = w.res[x].finished
          /\ v.res[x].needDrain = w.res[x].needDrain
          /\ w.res[x].destroyed => v.res[x].destroyed
          /\ v.res[x].destroyed => w.res[x].destroyed \/ x <= a
  BY DEF Calm
<1>3. w \in WorldType
  BY DEF WorldOK
<1>4. FreshOK(v, a)
  <2>1. FreshOK(w, a)
    BY DEF WorldOK
  <2>2. \A x \in Messages : x > a => ~(x <= a)
    BY DEF Messages
  <2>3. \A x \in Messages : x > a =>
          /\ v.res[x].keep
          /\ ~v.res[x].finished /\ ~v.res[x].destroyed
          /\ ~v.res[x].needDrain /\ ~v.res[x].last
          /\ Len(v.res[x].output) = 0
    BY <1>2, <2>1, <2>2 DEF FreshOK
  <2> QED
    BY <1>1, <2>1, <2>3 DEF FreshOK
<1>5. OutputsOK(v)
  BY <1>2 DEF WorldOK, OutputsOK
<1>6. Alive(v) => Alive(w)
  BY <1>1 DEF Alive
<1>7. BufOK(v, a)
  <2>1. BufOK(w, a)
    BY DEF WorldOK
  <2>2. 1..a \subseteq Messages
    BY ServerAssumption DEF Messages
  <2>3. \A i \in 1..Len(v.sock.buf) : P!EndsResponse(v.sock.buf[i]) =>
          /\ v.sock.buf[i].of = v.sock.message
          /\ v.sock.message \in 1..a
          /\ v.res[v.sock.message].finished
    BY <1>1, <1>2, <2>1, <2>2 DEF BufOK
  <2> QED
    BY <1>1, <1>6, <2>1, <2>3 DEF BufOK
<1>8. EndHeads(v, q)
  BY <1>1 DEF WorldOK, EndHeads
<1>9. InOrder(v) => InOrder(w) /\ v.sock.state = w.sock.state
  BY <1>1 DEF InOrder, Alive
<1>10. NumbersOK(v, a, n)
  BY <1>1, <1>9 DEF WorldOK, NumbersOK, Numbered
<1>11. CountOK(v)
  BY <1>1, <1>2, SameCountKept DEF WorldOK, SameOutputs
<1>12. TimerOK(v)
  BY <1>1, <1>6 DEF WorldOK, TimerOK
<1>13. v.sock.state = "open" => w.sock.state = "open"
  BY <1>1 DEF Alive
<1>14. TurnsOK(v, n) /\ LastOK(v, a)
  BY <1>1, <1>2, <1>13 DEF WorldOK, TurnsOK, LastOK
<1>15. PausedOK(v, q)
  <2>1. \A i \in 1..Len(w.srv.outgoing) : w.srv.outgoing[i] \in Messages
    BY <1>3, WorldFields
  <2> QED
    BY <1>1, <1>2, <1>13, <2>1 DEF WorldOK, PausedOK, Draining
<1>16. WaitingOK(v, a, q)
  <2>1. WaitingOK(w, a, ph)
    BY DEF WorldOK
  <2>2. Draining(w) <=> Draining(v)
    BY <1>1 DEF Draining
  <2>3. SUFFICES ASSUME NEW x \in Messages, x <= a, v.sock.state = "open", q # "upgraded",
                        v.res[x].needDrain, ~v.res[x].finished, ~v.res[x].destroyed
                 PROVE  IF v.sock.message = x THEN Draining(v) ELSE Len(v.res[x].output) > 0
    BY DEF WaitingOK
  <2>4. IF w.sock.message = x THEN Draining(w) ELSE Len(w.res[x].output) > 0
    BY <1>2, <1>13, <2>1, <2>3 DEF WaitingOK
  <2> QED
    BY <1>1, <1>2, <2>2, <2>4
<1> QED
  BY <1>1, <1>4, <1>5, <1>7, <1>8, <1>10, <1>11, <1>12, <1>14, <1>15, <1>16 DEF WorldOK

\* Once the socket is dead little is left of the invariant.
LEMMA DeadOK ==
  ASSUME NEW v, NEW a, NEW n, NEW ph, v \in WorldType, ~Alive(v),
         FreshOK(v, a), OutputsOK(v), ~v.failed, EndLast(v.sock.buf),
         \A i \in 1..Len(v.sock.buf) : P!EndsResponse(v.sock.buf[i]) =>
            /\ v.sock.buf[i].of = v.sock.message
            /\ v.sock.message \in 1..a
            /\ v.res[v.sock.message].finished,
         EndHeads(v, ph), CountOK(v)
  PROVE  WorldOK(v, a, n, ph)
<1>1. v.sock.state # "open" /\ ~InOrder(v)
  BY DEF Alive, InOrder
<1>2. BufOK(v, a)
  BY DEF BufOK
<1> QED
  BY <1>1, <1>2 DEF WorldOK, NumbersOK, TimerOK, TurnsOK, PausedOK, WaitingOK, LastOK

\* A dead socket sends nothing: the count of what was sent does not matter.
LEMMA DeadAnyCount ==
  ASSUME NEW v, NEW a, NEW n, NEW m, NEW ph, ~Alive(v), WorldOK(v, a, n, ph)
  PROVE  WorldOK(v, a, m, ph)
<1>1. v.sock.state # "open" /\ ~InOrder(v)
  BY DEF Alive, InOrder
<1> QED
  BY <1>1 DEF WorldOK, NumbersOK, TimerOK, TurnsOK, PausedOK, WaitingOK, LastOK

\* What is counted waits in the queue of a response that waits for the socket.
LEMMA CountedWaits ==
  ASSUME NEW w \in WorldType, NEW a \in 0..N, NEW n \in Nat, w.sock.state = "open",
         FreshOK(w, a), NumbersOK(w, a, n), TurnsOK(w, n), CountOK(w), w.srv.outgoingData > 0
  PROVE  \E i \in 1..Len(w.srv.outgoing) : Len(w.res[w.srv.outgoing[i]].output) > 0
<1>1. PICK x \in Messages : Len(w.res[x].output) > 0
  BY CountedIsQueued
<1>2. x <= a
  <2>1. x > a \/ x <= a
    BY DEF Messages
  <2> QED
    BY <1>1, <2>1 DEF FreshOK
<1>3. n + 1 < x
  BY <1>1 DEF TurnsOK
<1>4. Numbered(w, a, n)
  BY DEF NumbersOK, InOrder
<1>5. w.sock.message # NoMessage
  BY <1>2, <1>3, <1>4 DEF Numbered, Messages
<1>6. /\ Len(w.srv.outgoing) = a - n - 1
      /\ \A i \in 1..Len(w.srv.outgoing) : w.srv.outgoing[i] = n + 1 + i
  BY <1>4, <1>5 DEF Numbered
<1>7. x - n - 1 \in 1..(a - n - 1)
  BY <1>2, <1>3 DEF Messages
<1>8. w.srv.outgoing[x - n - 1] = n + 1 + (x - n - 1)
  BY <1>6, <1>7
<1>9. n + 1 + (x - n - 1) = x
  BY DEF Messages
<1> QED
  BY <1>1, <1>6, <1>7, <1>8, <1>9

-----------------------------------------------------------------------------
(* The socket is done with a piece. *)

\* From w to v the socket is done with its first piece, and has perhaps drained.
Drains(w) == Len(w.sock.buf) = 1 /\ w.sock.needDrain /\ w.sock.state = "open"

Pops(w, v, ph) ==
    /\ v \in WorldType
    /\ SameSock(w.sock, v.sock)
    /\ v.sock.buf = Tail(w.sock.buf)
    /\ v.sock.needDrain = (w.sock.needDrain /\ ~Drains(w))
    /\ v.sock.paused => w.sock.paused
    /\ v.srv = w.srv /\ v.req = w.req /\ v.closing = w.closing /\ v.failed = w.failed
    /\ SameOutputs(w, v)
    /\ \A x \in Messages :
          /\ v.res[x].keep = w.res[x].keep
          /\ v.res[x].last => w.res[x].last \/ ~w.res[x].keep
          /\ v.res[x].finished = w.res[x].finished
          /\ v.res[x].destroyed = w.res[x].destroyed
          /\ v.res[x].needDrain => w.res[x].needDrain
    /\ Drains(w) /\ ph # "upgraded" =>
          /\ v.sock.paused => v.srv.outgoingData > HighWaterMark
          /\ v.sock.message # NoMessage /\ ~v.res[v.sock.message].finished
               => ~v.res[v.sock.message].needDrain

\* The requests that have not arrived are left alone.
LEMMA PopsFresh ==
  ASSUME NEW w, NEW v, NEW a, NEW ph, Pops(w, v, ph), FreshOK(w, a)
  PROVE  FreshOK(v, a)
<1>1. \A x \in Messages : x > a =>
          /\ v.res[x].keep
          /\ ~v.res[x].finished /\ ~v.res[x].destroyed
          /\ ~v.res[x].needDrain /\ ~v.res[x].last
          /\ Len(v.res[x].output) = 0
  BY DEF Pops, FreshOK, SameOutputs
<1> QED
  BY <1>1 DEF Pops, FreshOK, SameSock

\* The rest of the buffer keeps its form.
LEMMA PopsBuf ==
  ASSUME NEW w \in WorldType, NEW v, NEW a \in 0..N, NEW ph, Pops(w, v, ph), BufOK(w, a),
         Len(w.sock.buf) > 0
  PROVE  BufOK(v, a) /\ (EndHeads(w, ph) => EndHeads(v, ph))
<1>1. w.sock.buf \in Seq(Pieces)
  BY WorldFields
<1>2. PICK q : q = w.sock.buf
  OBVIOUS
<1>3. PICK p : p = v.sock.buf
  OBVIOUS
<1>4. /\ p \in Seq(Pieces) /\ Len(p) = Len(q) - 1 /\ Len(p) \in Nat /\ Len(q) \in Nat
      /\ \A i \in 1..Len(p) : i + 1 \in 1..Len(q) /\ p[i] = q[i + 1]
  BY <1>1, <1>2, <1>3, TailPieces DEF Pops
<1>5. \A x \in Messages : v.res[x].finished = w.res[x].finished
  BY DEF Pops
<1>6. Alive(v) <=> Alive(w)
  BY DEF Pops, SameSock, Alive
<1>7. 1..a \subseteq Messages
  BY ServerAssumption DEF Messages
<1>8. v.sock.message = w.sock.message /\ v.failed = w.failed /\ v.srv = w.srv
  BY DEF Pops, SameSock
<1>9. \A i \in 1..Len(p) : P!EndsResponse(p[i]) =>
        /\ p[i].of = v.sock.message /\ v.sock.message \in 1..a
        /\ v.res[v.sock.message].finished
  BY <1>2, <1>4, <1>5, <1>7, <1>8 DEF BufOK
<1>10. EndLast(p)
  <2>1. SUFFICES ASSUME NEW i \in 1..Len(p), P!EndsResponse(p[i])
                 PROVE  i = Len(p)
    BY DEF EndLast
  <2>2. i + 1 = Len(q)
    BY <1>2, <1>4, <2>1 DEF BufOK, EndLast
  <2> QED
    BY <1>4, <2>2
<1>11. Alive(v) => Tagged(p, v.sock.message)
  BY <1>2, <1>4, <1>6, <1>8 DEF BufOK, Tagged
<1>12. Alive(v) /\ Len(p) > 0 => v.sock.message # NoMessage
  BY <1>6, <1>8 DEF BufOK
<1>13. BufOK(v, a)
  BY <1>3, <1>8, <1>9, <1>10, <1>11, <1>12 DEF BufOK
<1>14. NoEnd(q) => NoEnd(p)
  BY <1>4 DEF NoEnd
<1> QED
  BY <1>2, <1>3, <1>8, <1>13, <1>14 DEF EndHeads

\* The socket has drained when its last piece goes, and only then.
LEMMA PopsDraining ==
  ASSUME NEW w \in WorldType, NEW v, NEW ph, Pops(w, v, ph), Len(w.sock.buf) > 0,
         v.sock.state = "open"
  PROVE  /\ Drains(w) => Draining(w) /\ ~v.sock.needDrain
         /\ Draining(w) /\ ~Drains(w) => Draining(v)
         /\ v.sock.needDrain => Draining(v) /\ Draining(w)
<1>1. PICK j \in Nat : j = Len(w.sock.buf)
  BY WorldFields
<1>2. Len(v.sock.buf) = j - 1
  BY <1>1, WorldFields, TailPieces DEF Pops
<1>3. w.sock.needDrain \in BOOLEAN
  BY WorldFields
<1>4. w.sock.state = "open"
  BY DEF Pops, SameSock
<1>5. v.sock.needDrain = (w.sock.needDrain /\ ~Drains(w))
  BY DEF Pops
<1>6. Drains(w) <=> j = 1 /\ w.sock.needDrain
  BY <1>1, <1>4 DEF Drains
<1>7. Draining(w) <=> w.sock.needDrain
  BY <1>1 DEF Draining
<1>8. v.sock.needDrain => j > 1
  <2>1. v.sock.needDrain => w.sock.needDrain /\ ~Drains(w)
    BY <1>5
  <2>2. j > 0
    BY <1>1
  <2>3. v.sock.needDrain => j # 1
    BY <1>6, <2>1
  <2> QED
    BY <2>2, <2>3
<1>9. v.sock.needDrain => Draining(v)
  BY <1>2, <1>8 DEF Draining
<1> QED
  BY <1>5, <1>6, <1>7, <1>9

\* Such a step keeps the invariant.
LEMMA PopsKeep ==
  ASSUME NEW w, NEW v, NEW a \in 0..N, NEW n \in Nat, NEW ph,
         WorldOK(w, a, n, ph), Pops(w, v, ph), Len(w.sock.buf) > 0
  PROVE  WorldOK(v, a, n, ph) /\ (Alive(v) => Numbered(v, a, n))
<1>1. w \in WorldType /\ v \in WorldType
  BY DEF WorldOK, Pops
<1>2. FreshOK(v, a)
  BY PopsFresh DEF WorldOK
<1>3. OutputsOK(v)
  BY DEF WorldOK, Pops, SameOutputs, OutputsOK
<1>4. BufOK(v, a) /\ EndHeads(v, ph)
  BY <1>1, PopsBuf DEF WorldOK
<1>5. v.sock.state = w.sock.state /\ v.srv = w.srv /\ v.sock.message = w.sock.message
      /\ v.sock.peerEnded = w.sock.peerEnded
  BY DEF Pops, SameSock
<1>6. Alive(v) => Numbered(v, a, n)
  <2>1. Alive(v) => InOrder(w)
    BY <1>5 DEF Alive, InOrder
  <2> QED
    BY <1>5, <2>1 DEF WorldOK, NumbersOK, Numbered
<1>7. NumbersOK(v, a, n)
  BY <1>6 DEF NumbersOK, InOrder, Alive
<1>8. CountOK(v)
  BY <1>5, SameCountKept DEF WorldOK, Pops
<1>9. TimerOK(v)
  BY <1>5 DEF WorldOK, TimerOK, Alive
<1>10. TurnsOK(v, n)
  <2>1. v.sock.state = "open" /\ v.sock.needDrain => Len(v.sock.buf) > 0
    BY <1>1, PopsDraining DEF Draining
  <2> QED
    BY <1>5, <2>1 DEF WorldOK, TurnsOK, Pops, SameOutputs
<1>11. PausedOK(v, ph)
  <2>1. SUFFICES ASSUME v.sock.state = "open", ph # "upgraded", v.sock.paused
                 PROVE  \/ Draining(v)
                        \/ \E i \in 1..Len(v.srv.outgoing) :
                              Len(v.res[v.srv.outgoing[i]].output) > 0
    BY DEF PausedOK
  <2>2. CASE Drains(w)
    <3>1. v.srv.outgoingData > HighWaterMark /\ v.srv.outgoingData \in Int
      BY <1>1, <2>1, <2>2, WorldFields DEF Pops
    <3>2. v.srv.outgoingData > 0
      BY <3>1, ServerAssumption
    <3> QED
      BY <1>1, <1>2, <1>7, <1>8, <1>10, <2>1, <3>2, CountedWaits
  <2>3. CASE ~Drains(w)
    <3>1. Draining(w) \/ \E i \in 1..Len(w.srv.outgoing) :
                            Len(w.res[w.srv.outgoing[i]].output) > 0
      BY <1>5, <2>1 DEF WorldOK, PausedOK, Pops
    <3>2. \A i \in 1..Len(w.srv.outgoing) : w.srv.outgoing[i] \in Messages
      BY <1>1, WorldFields
    <3>3. Draining(w) => Draining(v)
      BY <1>1, <2>1, <2>3, PopsDraining
    <3>4. \A i \in 1..Len(w.srv.outgoing) :
             v.res[w.srv.outgoing[i]].output = w.res[w.srv.outgoing[i]].output
      BY <3>2 DEF Pops, SameOutputs
    <3> QED
      BY <1>5, <3>1, <3>3, <3>4
  <2> QED
    BY <2>2, <2>3
<1>12. WaitingOK(v, a, ph)
  <2>1. SUFFICES ASSUME NEW x \in Messages, x <= a, v.sock.state = "open", ph # "upgraded",
                        v.res[x].needDrain, ~v.res[x].finished, ~v.res[x].destroyed
                 PROVE  IF v.sock.message = x THEN Draining(v) ELSE Len(v.res[x].output) > 0
    BY DEF WaitingOK
  <2>2. IF w.sock.message = x THEN Draining(w) ELSE Len(w.res[x].output) > 0
    BY <1>5, <2>1 DEF WorldOK, WaitingOK, Pops
  <2>3. CASE w.sock.message = x
    <3>1. x # NoMessage
      BY DEF Messages, NoMessage
    <3>2. ~Drains(w)
      BY <1>5, <2>1, <2>3, <3>1 DEF Pops
    <3> QED
      BY <1>1, <1>5, <2>1, <2>2, <2>3, <3>2, PopsDraining
  <2>4. CASE w.sock.message # x
    BY <1>5, <2>2, <2>4 DEF Pops, SameOutputs
  <2> QED
    BY <2>3, <2>4
<1>13. LastOK(v, a)
  BY <1>5 DEF WorldOK, LastOK, Pops
<1> QED
  BY <1>1, <1>2, <1>3, <1>4, <1>6, <1>7, <1>8, <1>9, <1>10, <1>11, <1>12, <1>13
  DEF WorldOK

-----------------------------------------------------------------------------
(* A response has been sent whole. *)

\* Response r has been sent whole: what ResOnFinish takes for granted.
Finishing(w, a, n, ph, r) ==
    /\ WorldOK(w, a, n, ph)
    /\ r \in Messages /\ r <= a
    /\ w.sock.message = r /\ Len(w.sock.buf) = 0
    /\ w.res[r].finished
    /\ Alive(w) => Numbered(w, a, n)
    /\ \/ Len(w.srv.incoming) > 0 /\ w.srv.incoming[1] = r
       \/ ph = "gone" /\ Len(w.srv.incoming) = 0

\* The connection between the detached response and the next one.
Between(w, a, n, ph) ==
    /\ w \in WorldType
    /\ FreshOK(w, a) /\ OutputsOK(w) /\ CountOK(w)
    /\ ~w.failed
    /\ Len(w.sock.buf) = 0 /\ w.sock.message = NoMessage
    /\ Alive(w) =>
         /\ n + 1 <= a
         /\ Len(w.srv.incoming) = a - n - 1
         /\ \A i \in 1..Len(w.srv.incoming) : w.srv.incoming[i] = n + 1 + i
         /\ Len(w.srv.outgoing) = a - n - 1
         /\ \A i \in 1..Len(w.srv.outgoing) : w.srv.outgoing[i] = n + 1 + i
         /\ ~w.srv.keepAliveTimeoutSet
         /\ w.sock.state = "ended" => w.sock.peerEnded
    /\ w.sock.state = "open" =>
         /\ \A x \in Messages : Len(w.res[x].output) > 0 => n + 1 < x
         /\ \A x \in Messages : x <= n + 1 => w.res[x].finished
         /\ ~w.sock.needDrain
    /\ w.sock.state = "open" /\ ph # "upgraded" =>
         /\ w.sock.paused => \E i \in 1..Len(w.srv.outgoing) :
                                Len(w.res[w.srv.outgoing[i]].output) > 0
         /\ \A x \in Messages :
               /\ x <= a
               /\ w.res[x].needDrain /\ ~w.res[x].finished /\ ~w.res[x].destroyed
               => Len(w.res[x].output) > 0
    /\ LastOK(w, a)

\* resOnFinish leads there.
LEMMA DetachedBetween ==
  ASSUME NEW w, NEW v, NEW a \in 0..N, NEW n \in Nat, NEW ph, NEW r,
         Finishing(w, a, n, ph, r), Detaches(w, v, r)
  PROVE  Between(v, a, n, ph)
<1>1. w \in WorldType /\ v \in WorldType /\ r \in Messages
  BY DEF Finishing, WorldOK, Detaches
<1>2. /\ v.sock.state = w.sock.state /\ v.sock.buf = w.sock.buf
      /\ v.sock.needDrain = w.sock.needDrain
      /\ v.sock.paused = w.sock.paused /\ v.sock.peerEnded = w.sock.peerEnded
      /\ v.sock.message = NoMessage
      /\ v.srv.outgoing = w.srv.outgoing /\ v.srv.outgoingData = w.srv.outgoingData
      /\ v.srv.keepAliveTimeoutSet = w.srv.keepAliveTimeoutSet
      /\ v.res = w.res /\ v.failed = w.failed
      /\ v.closing = w.closing \cup {r}
  BY DEF Detaches, SameBuf
<1>3. r <= a /\ w.sock.message = r /\ Len(w.sock.buf) = 0 /\ w.res[r].finished
  BY DEF Finishing
<1>4. r # NoMessage /\ 0 <= a
  BY <1>1 DEF Messages, NoMessage
<1>5. FreshOK(v, a)
  BY <1>2, <1>3, <1>4 DEF Finishing, WorldOK, FreshOK, NoMessage
<1>6. OutputsOK(v) /\ CountOK(v) /\ ~v.failed
  BY <1>2 DEF Finishing, WorldOK, OutputsOK, CountOK, Queued, BufOK
<1>7. ASSUME Alive(v)
      PROVE  /\ n + 1 <= a /\ r = n + 1
             /\ Len(v.srv.incoming) = a - n - 1
             /\ \A i \in 1..Len(v.srv.incoming) : v.srv.incoming[i] = n + 1 + i
             /\ Len(v.srv.outgoing) = a - n - 1
             /\ \A i \in 1..Len(v.srv.outgoing) : v.srv.outgoing[i] = n + 1 + i
             /\ ~v.srv.keepAliveTimeoutSet
             /\ v.sock.state = "ended" => v.sock.peerEnded
  <2>1. Alive(w)
    BY <1>2, <1>7 DEF Alive
  <2>2. Numbered(w, a, n)
    BY <2>1 DEF Finishing
  <2>3. r = n + 1 /\ Len(w.srv.incoming) = a - n
        /\ \A i \in 1..Len(w.srv.incoming) : w.srv.incoming[i] = n + i
    BY <1>3, <1>4, <2>2 DEF Numbered
  <2>4. a - n \in Nat /\ a - n > 0
    BY <1>3, <2>3
  <2>5. /\ Len(v.srv.incoming) = a - n - 1
        /\ \A i \in 1..Len(v.srv.incoming) : i + 1 \in 1..Len(w.srv.incoming)
                                           /\ v.srv.incoming[i] = w.srv.incoming[i + 1]
    BY <2>3, <2>4 DEF Detaches
  <2>6. \A i \in 1..Len(v.srv.incoming) : v.srv.incoming[i] = n + 1 + i
    BY <2>3, <2>5
  <2>7. ~w.srv.keepAliveTimeoutSet
    BY <1>3, <1>4, <2>1 DEF Finishing, WorldOK, TimerOK
  <2> QED
    BY <1>2, <1>3, <1>4, <2>2, <2>3, <2>4, <2>5, <2>6, <2>7 DEF Numbered
<1>8. ASSUME v.sock.state = "open"
      PROVE  /\ \A x \in Messages : Len(v.res[x].output) > 0 => n + 1 < x
             /\ \A x \in Messages : x <= n + 1 => v.res[x].finished
             /\ ~v.sock.needDrain
  <2>1. TurnsOK(w, n) /\ w.sock.state = "open"
    BY <1>2, <1>8 DEF Finishing, WorldOK
  <2>2. r = n + 1
    BY <1>7, <1>8 DEF Alive
  <2>3. \A x \in Messages : x <= n + 1 => x <= n \/ x = r
    BY <2>2 DEF Messages
  <2>4. \A x \in Messages : x <= n + 1 => v.res[x].finished
    BY <1>2, <1>3, <2>1, <2>3 DEF TurnsOK
  <2>5. ~(Len(w.sock.buf) > 0)
    BY <1>3
  <2>6. ~v.sock.needDrain
    BY <1>2, <2>1, <2>5 DEF TurnsOK
  <2> QED
    BY <1>2, <2>1, <2>4, <2>6 DEF TurnsOK
<1>9. ASSUME v.sock.state = "open", ph # "upgraded"
      PROVE  /\ v.sock.paused => \E i \in 1..Len(v.srv.outgoing) :
                                    Len(v.res[v.srv.outgoing[i]].output) > 0
             /\ \A x \in Messages :
                   /\ x <= a
                   /\ v.res[x].needDrain /\ ~v.res[x].finished /\ ~v.res[x].destroyed
                   => Len(v.res[x].output) > 0
  <2>1. ~Draining(w)
    BY <1>3 DEF Draining
  <2> QED
    BY <1>2, <1>3, <1>9, <2>1 DEF Finishing, WorldOK, PausedOK, WaitingOK
<1>10. LastOK(v, a)
  BY <1>2 DEF Finishing, WorldOK, LastOK
<1> QED
  BY <1>1, <1>2, <1>3, <1>5, <1>6, <1>7, <1>8, <1>9, <1>10 DEF Between

\* An empty buffer has every form.
LEMMA EmptyBuf ==
  ASSUME NEW b, Len(b) = 0
  PROVE  NoEnd(b) /\ EndLast(b) /\ \A r : Tagged(b, r)
BY DEF NoEnd, EndLast, Tagged

\* The last response: the server ends its side.
LEMMA FinishLast ==
  ASSUME NEW w, NEW v, NEW a \in 0..N, NEW n \in Nat, NEW ph, NEW k,
         Between(w, a, n, ph), Moves(w, v, k),
         k = IF w.sock.state = "open" THEN "ended" ELSE w.sock.state
  PROVE  WorldOK(v, a, n + 1, ph)
<1>1. v \in WorldType /\ v.sock.state = k /\ k # "open"
  BY DEF Moves
<1>2. FreshOK(v, a) /\ OutputsOK(v) /\ CountOK(v) /\ ~v.failed
  BY DEF Moves, Between, FreshOK, OutputsOK, CountOK, Queued
<1>3. Len(v.sock.buf) = 0 /\ v.sock.message = NoMessage
  BY DEF Moves, Between
<1>4. BufOK(v, a) /\ EndHeads(v, ph)
  BY <1>2, <1>3, EmptyBuf DEF BufOK, EndHeads
<1>5. ~InOrder(v)
  BY <1>1, <1>3 DEF InOrder
<1>6. TimerOK(v)
  <2>1. Alive(v) => Alive(w)
    BY <1>1 DEF Alive
  <2> QED
    BY <2>1 DEF Moves, Between, TimerOK
<1> QED
  BY <1>1, <1>2, <1>4, <1>5, <1>6
  DEF WorldOK, NumbersOK, TurnsOK, PausedOK, WaitingOK, LastOK

\* No response waits: the connection is idle.
LEMMA FinishIdle ==
  ASSUME NEW w, NEW v, NEW a \in 0..N, NEW n \in Nat, NEW ph,
         Between(w, a, n, ph), Len(w.srv.outgoing) = 0, v \in WorldType,
         v.sock = w.sock, v.res = w.res, v.closing = w.closing, v.failed = w.failed,
         v.srv.incoming = w.srv.incoming, v.srv.outgoing = w.srv.outgoing,
         v.srv.outgoingData = w.srv.outgoingData
  PROVE  WorldOK(v, a, n + 1, ph)
<1>1. w \in WorldType
  BY DEF Between
<1>2. FreshOK(v, a) /\ OutputsOK(v) /\ CountOK(v) /\ ~v.failed
  BY DEF Between, FreshOK, OutputsOK, CountOK, Queued
<1>3. Len(v.sock.buf) = 0 /\ v.sock.message = NoMessage
  BY DEF Between
<1>4. BufOK(v, a) /\ EndHeads(v, ph)
  BY <1>2, <1>3, EmptyBuf DEF BufOK, EndHeads
<1>5. Alive(v) => /\ a = n + 1 /\ Len(v.srv.incoming) = 0
                  /\ v.sock.state = "ended" => v.sock.peerEnded
  <2>1. Alive(v) => Alive(w)
    BY DEF Alive
  <2> QED
    BY <2>1 DEF Between
<1>6. TimerOK(v)
  BY <1>3, <1>5 DEF TimerOK
<1>7. NumbersOK(v, a, n + 1)
  <2>1. InOrder(v) => Alive(v)
    BY DEF InOrder, Alive
  <2> QED
    BY <1>3, <1>5, <2>1 DEF NumbersOK, Numbered
<1>8. TurnsOK(v, n + 1)
  <2>1. SUFFICES ASSUME v.sock.state = "open"
                 PROVE  /\ \A x \in Messages : Len(v.res[x].output) > 0 => n + 1 + 1 < x
                        /\ \A x \in Messages : x <= n + 1 => v.res[x].finished
                        /\ v.sock.needDrain => Len(v.sock.buf) > 0
    BY DEF TurnsOK
  <2>2. a = n + 1
    BY <1>5, <2>1 DEF Alive
  <2>3. ASSUME NEW x \in Messages, Len(v.res[x].output) > 0
        PROVE  FALSE
    <3>1. n + 1 < x
      BY <2>1, <2>3 DEF Between
    <3>2. x > a
      BY <2>2, <3>1
    <3> QED
      BY <1>2, <2>3, <3>2 DEF FreshOK
  <2> QED
    BY <2>1, <2>3 DEF Between
<1>9. PausedOK(v, ph)
  BY ServerAssumption DEF Between, PausedOK
<1>10. WaitingOK(v, a, ph)
  <2>1. \A x \in Messages : x # NoMessage
    BY DEF Messages, NoMessage
  <2> QED
    BY <1>3, <2>1 DEF Between, WaitingOK
<1>11. LastOK(v, a)
  BY DEF Between, LastOK
<1> QED
  BY <1>2, <1>4, <1>6, <1>7, <1>8, <1>9, <1>10, <1>11 DEF WorldOK

\* The next response gets the socket.
LEMMA FinishNext ==
  ASSUME NEW w, NEW u, NEW v, NEW a \in 0..N, NEW n \in Nat, NEW ph, NEW h \in Messages,
         Between(w, a, n, ph), Len(w.srv.outgoing) > 0, h = w.srv.outgoing[1],
         u \in WorldType, u.sock = w.sock, u.res = w.res, u.closing = w.closing,
         u.failed = w.failed, u.srv.incoming = w.srv.incoming,
         u.srv.outgoing = Tail(w.srv.outgoing), u.srv.outgoingData = w.srv.outgoingData,
         u.srv.keepAliveTimeoutSet = w.srv.keepAliveTimeoutSet,
         Assigns(u, v, h)
  PROVE  WorldOK(v, a, n + 1, ph)
<1>1. w \in WorldType /\ v \in WorldType
  BY DEF Between, Assigns
<1>2. PICK next : next = w.srv.outgoing
  OBVIOUS
<1>3. PICK rest : rest = Tail(next)
  OBVIOUS
<1>4. next \in Seq(Messages) /\ Len(next) > 0
  BY <1>1, <1>2, WorldFields
<1>5. /\ rest \in Seq(Messages) /\ Len(rest) = Len(next) - 1 /\ Len(next) \in Nat
      /\ \A i \in 1..Len(rest) : i + 1 \in 1..Len(next) /\ rest[i] = next[i + 1]
  BY <1>3, <1>4, TailPieces
<1>6. h = next[1] /\ h <= a
  BY <1>2, <1>4 DEF Between, FreshOK
<1>7. PICK out : out = w.res[h].output
  OBVIOUS
<1>8. out \in Seq(Pieces) /\ w.sock.buf \in Seq(Pieces) /\ Len(w.sock.buf) = 0
  BY <1>1, <1>7, WorldFields, ResFields DEF Between
<1>9. /\ v.sock.message = h /\ v.failed = w.failed /\ v.sock.peerEnded = w.sock.peerEnded
      /\ v.sock.state = IF w.res[h].destroyed /\ Alive(w) THEN "destroyed" ELSE w.sock.state
      /\ v.sock.paused => w.sock.paused
      /\ v.srv.incoming = w.srv.incoming /\ v.srv.outgoing = rest
      /\ v.srv.keepAliveTimeoutSet = w.srv.keepAliveTimeoutSet
      /\ v.closing = w.closing
  BY <1>2, <1>3 DEF Assigns, Alive
<1>10. \A x \in Messages :
          /\ v.res[x].keep = w.res[x].keep
          /\ v.res[x].finished = w.res[x].finished
          /\ v.res[x].destroyed = w.res[x].destroyed
          /\ v.res[x].last => w.res[x].last \/ ~w.res[x].keep
          /\ v.res[x].needDrain => w.res[x].needDrain
          /\ x # h => v.res[x].output = w.res[x].output
  BY DEF Assigns, SameOthers
<1>11. CASE v.sock.state # "open"
  <2>1. /\ v.sock.buf = w.sock.buf
        /\ \A x \in Messages : v.res[x].output = w.res[x].output
    BY <1>11 DEF Assigns, SameBuf, SameOutputs
  <2>2. FreshOK(v, a)
    <3>1. \A x \in Messages : x > a =>
            /\ v.res[x].keep
            /\ ~v.res[x].finished /\ ~v.res[x].destroyed
            /\ ~v.res[x].needDrain /\ ~v.res[x].last
            /\ Len(v.res[x].output) = 0
      BY <1>10, <2>1 DEF Between, FreshOK
    <3>2. \A i \in 1..Len(rest) : rest[i] <= a
      BY <1>2, <1>5 DEF Between, FreshOK
    <3> QED
      BY <1>6, <1>9, <3>1, <3>2 DEF Between, FreshOK
  <2>3. OutputsOK(v)
    BY <1>10, <2>1 DEF Between, OutputsOK
  <2>4. CountOK(v)
    <3>1. SameOthers(w, v, h) /\ Uncounted(v, h) = Uncounted(w, h)
      BY DEF Assigns, SameOthers, Uncounted
    <3> QED
      BY <1>1, <3>1, CountKept DEF Between
  <2>5. BufOK(v, a) /\ EndHeads(v, ph)
    <3>1. Len(v.sock.buf) = 0
      BY <1>8, <2>1
    <3> QED
      BY <1>9, <3>1, EmptyBuf DEF BufOK, EndHeads, Between
  <2>6. ~InOrder(v)
    BY <1>8, <1>11, <2>1 DEF InOrder
  <2>7. TimerOK(v)
    <3>1. Alive(v) => Alive(w)
      BY <1>9 DEF Alive
    <3> QED
      BY <1>9, <3>1 DEF Between, TimerOK
  <2> QED
    BY <1>1, <1>11, <2>2, <2>3, <2>4, <2>5, <2>6, <2>7
    DEF WorldOK, NumbersOK, TurnsOK, PausedOK, WaitingOK, LastOK
<1>12. CASE v.sock.state = "open"
  <2>1. w.sock.state = "open" /\ Alive(w)
    BY <1>9, <1>12 DEF Alive
  <2>2. /\ v.res[h].output \in Seq(Pieces) /\ Len(v.res[h].output) = 0
        /\ v.sock.buf = w.sock.buf \o out
        /\ v.sock.needDrain => w.sock.needDrain \/ Len(v.sock.buf) >= HighWaterMark
        /\ Len(out) > 0 /\ v.sock.paused => v.srv.outgoingData > HighWaterMark
        /\ Len(out) > 0 /\ v.res[h].needDrain /\ ~v.res[h].finished
             => v.sock.needDrain /\ Len(v.sock.buf) >= HighWaterMark
    BY <1>1, <1>7, <1>12, ResFields DEF Assigns
  <2>3. v.sock.buf = out
    BY <1>8, <2>2
  <2>4. /\ n + 1 <= a
        /\ Len(w.srv.incoming) = a - n - 1
        /\ \A i \in 1..Len(w.srv.incoming) : w.srv.incoming[i] = n + 1 + i
        /\ Len(next) = a - n - 1
        /\ \A i \in 1..Len(next) : next[i] = n + 1 + i
        /\ ~w.srv.keepAliveTimeoutSet
    BY <1>2, <2>1 DEF Between
  <2>5. h = n + 2 /\ a - n - 1 > 0 /\ w.srv.incoming[1] = h
    BY <1>4, <1>5, <1>6, <2>4
  <2>6. FreshOK(v, a)
    <3>1. \A x \in Messages : x > a => x # h
      BY <1>6 DEF Messages
    <3>2. \A x \in Messages : x > a =>
            /\ v.res[x].keep
            /\ ~v.res[x].finished /\ ~v.res[x].destroyed
            /\ ~v.res[x].needDrain /\ ~v.res[x].last
            /\ Len(v.res[x].output) = 0
      BY <1>10, <3>1 DEF Between, FreshOK
    <3>3. \A i \in 1..Len(rest) : rest[i] <= a
      BY <1>2, <1>5 DEF Between, FreshOK
    <3> QED
      BY <1>6, <1>9, <3>2, <3>3 DEF Between, FreshOK
  <2>7. OutputsOK(v)
    <3>1. \A x \in Messages : x # h =>
            /\ Tagged(v.res[x].output, x)
            /\ EndLast(v.res[x].output)
            /\ ~v.res[x].finished => NoEnd(v.res[x].output)
      BY <1>10 DEF Between, OutputsOK
    <3> QED
      BY <2>2, <3>1, EmptyBuf DEF OutputsOK
  <2>8. CountOK(v)
    <3>1. SameOthers(w, v, h) /\ Uncounted(v, h) = Uncounted(w, h)
      BY DEF Assigns, SameOthers, Uncounted
    <3> QED
      BY <1>1, <3>1, CountKept DEF Between
  <2>9. Tagged(out, h) /\ EndLast(out) /\ (~v.res[h].finished => NoEnd(out))
    BY <1>7, <1>10 DEF Between, OutputsOK
  <2>10. BufOK(v, a)
    <3>1. \A i \in 1..Len(out) : P!EndsResponse(out[i]) =>
            /\ out[i].of = h /\ h \in 1..a /\ v.res[h].finished
      BY <1>6, <2>9 DEF Tagged, NoEnd, Messages
    <3>2. h # NoMessage
      BY DEF Messages, NoMessage
    <3> QED
      BY <1>9, <2>3, <2>9, <3>1, <3>2 DEF BufOK, Between
  <2>11. EndHeads(v, ph)
    BY <1>9, <2>4, <2>5 DEF EndHeads
  <2>12. NumbersOK(v, a, n + 1)
    <3>1. Len(rest) = a - n - 2
      BY <1>5, <2>4
    <3>2. \A i \in 1..Len(rest) : rest[i] = n + 2 + i
      BY <1>5, <2>4
    <3>3. Numbered(v, a, n + 1)
      BY <1>9, <1>12, <2>4, <2>5, <3>1, <3>2 DEF Numbered, NoMessage
    <3> QED
      BY <3>3 DEF NumbersOK
  <2>13. TimerOK(v)
    BY <1>9, <2>4 DEF TimerOK
  <2>14. TurnsOK(v, n + 1)
    <3>1. ASSUME NEW x \in Messages, Len(v.res[x].output) > 0
          PROVE  n + 1 + 1 < x
      <4>1. x # h
        BY <2>2, <3>1
      <4>2. n + 1 < x
        BY <1>10, <2>1, <3>1, <4>1 DEF Between
      <4> QED
        BY <2>5, <4>1, <4>2 DEF Messages
    <3>2. \A x \in Messages : x <= n + 1 => v.res[x].finished
      BY <1>10, <2>1 DEF Between
    <3>3. v.sock.needDrain => Len(v.sock.buf) > 0
      <4>1. ~w.sock.needDrain
        BY <2>1 DEF Between
      <4>2. PICK k \in Nat : k = Len(v.sock.buf)
        BY <1>8, <2>3
      <4> QED
        BY <2>2, <4>1, <4>2, ServerAssumption
    <3> QED
      BY <3>1, <3>2, <3>3 DEF TurnsOK
  <2>15. PausedOK(v, ph)
    <3>1. SUFFICES ASSUME ph # "upgraded", v.sock.paused
                   PROVE  \E i \in 1..Len(rest) : Len(v.res[rest[i]].output) > 0
      BY <1>9 DEF PausedOK
    <3>2. PICK i \in 1..Len(next) : Len(w.res[next[i]].output) > 0
      BY <1>2, <1>9, <2>1, <3>1 DEF Between
    <3>3. CASE i = 1
      <4>1. Len(out) > 0
        BY <1>6, <1>7, <3>2, <3>3
      <4>2. v.srv.outgoingData > HighWaterMark /\ v.srv.outgoingData \in Int
        BY <1>1, <2>2, <3>1, <4>1, WorldFields
      <4>3. v.srv.outgoingData > 0
        BY <4>2, ServerAssumption
      <4>4. \E j \in 1..Len(v.srv.outgoing) : Len(v.res[v.srv.outgoing[j]].output) > 0
        BY <1>1, <1>12, <2>6, <2>8, <2>12, <2>14, <4>3, CountedWaits
      <4> QED
        BY <1>9, <4>4
    <3>4. CASE i # 1
      <4>1. PICK j \in Int : j = i - 1
        OBVIOUS
      <4>2. j \in 1..Len(rest) /\ i = j + 1
        BY <1>5, <3>4, <4>1
      <4>3. rest[j] = next[i] /\ next[i] \in Messages
        BY <1>4, <1>5, <4>2
      <4>4. next[i] = n + 1 + i
        BY <2>4
      <4>5. next[i] # h
        BY <2>5, <3>4, <4>4
      <4> QED
        BY <1>10, <3>2, <4>2, <4>3, <4>5
    <3> QED
      BY <3>3, <3>4
  <2>16. WaitingOK(v, a, ph)
    <3>1. SUFFICES ASSUME NEW x \in Messages, x <= a, ph # "upgraded",
                          v.res[x].needDrain, ~v.res[x].finished, ~v.res[x].destroyed
                   PROVE  IF v.sock.message = x THEN Draining(v) ELSE Len(v.res[x].output) > 0
      BY DEF WaitingOK
    <3>2. Len(w.res[x].output) > 0
      BY <1>10, <2>1, <3>1 DEF Between
    <3>3. CASE x = h
      <4>1. v.sock.needDrain /\ Len(v.sock.buf) > 0
        BY <1>7, <2>2, <2>3, <3>1, <3>2, <3>3
      <4> QED
        BY <1>9, <3>3, <4>1 DEF Draining
    <3>4. CASE x # h
      BY <1>9, <1>10, <3>2, <3>4
    <3> QED
      BY <3>3, <3>4
  <2>17. LastOK(v, a)
    BY <1>9, <1>10, <2>1 DEF Between, LastOK
  <2> QED
    BY <1>1, <2>6, <2>7, <2>8, <2>10, <2>11, <2>12, <2>13, <2>14, <2>15, <2>16, <2>17
    DEF WorldOK
<1> QED
  BY <1>11, <1>12

\* From w to v no message becomes complete, none that is not complete is answered,
\* and the socket gets rid of its response only between chunks, and then with the
\* keep-alive timer set.
Frame(w, v, executing) ==
    /\ SameComplete(w, v)
    /\ v.sock.state = "open" =>
         /\ w.sock.state = "open"
         /\ \A x \in Messages : v.res[x].finished => w.res[x].finished \/ w.req[x].complete
         /\ v.sock.message = NoMessage =>
               \/ v.srv.keepAliveTimeoutSet /\ ~executing
               \/ w.sock.message = NoMessage
                  /\ (w.srv.keepAliveTimeoutSet => v.srv.keepAliveTimeoutSet)

\* The 'finish' of a response that was sent whole: the count of responses sent
\* grows by one, and all that holds before holds again.
LEMMA ResOnFinishKeeps ==
  ASSUME NEW w, NEW a \in 0..N, NEW n \in Nat, NEW ph, NEW r, Finishing(w, a, n, ph, r)
  PROVE  /\ WorldOK(ResOnFinish(w, r), a, n + 1, ph)
         /\ Alive(ResOnFinish(w, r)) => Alive(w)
         /\ w.sock.state = "open" /\ ResOnFinish(w, r).sock.state = "ended" => w.res[r].last
         /\ Frame(w, ResOnFinish(w, r), FALSE)
<1>1. w \in WorldType /\ r \in Messages /\ w.sock.message = r
      /\ (Len(w.srv.incoming) > 0 => w.srv.incoming[1] = r)
  <2>1. w \in WorldType /\ r \in Messages /\ w.sock.message = r
    BY DEF Finishing, WorldOK
  <2>2. Len(w.srv.incoming) \in Nat
    BY <2>1, WorldFields
  <2>3. Len(w.srv.incoming) > 0 => w.srv.incoming[1] = r
    BY <2>2 DEF Finishing
  <2> QED
    BY <2>1, <2>3
<1>2. PICK d : d = Detached(w, r)
  OBVIOUS
<1>3. Detaches(w, d, r)
  BY <1>1, <1>2, DetachedEffect
<1>4. Between(d, a, n, ph)
  BY <1>3, DetachedBetween
<1>5. d \in WorldType /\ d.res = w.res /\ d.sock.state = w.sock.state /\ SameComplete(w, d)
  BY <1>3 DEF Detaches
<1>6. PICK v : v = ResOnFinish(w, r)
  OBVIOUS
<1>7. CASE d.res[r].last
  <2>1. PICK k : k = IF d.sock.state = "open" THEN "ended" ELSE d.sock.state
    OBVIOUS
  <2>2. v = EndSocket(d)
    BY <1>2, <1>6, <1>7 DEF ResOnFinish, TurnToNext
  <2>3. Moves(d, v, k)
    BY <1>5, <2>1, <2>2, EndSocketEffect
  <2>4. WorldOK(v, a, n + 1, ph)
    BY <1>4, <2>1, <2>3, FinishLast
  <2>5. Alive(v) => Alive(w)
    BY <1>5, <2>1, <2>3 DEF Moves, Alive
  <2>6. Frame(w, v, FALSE)
    BY <1>5, <2>1, <2>3 DEF Moves, Frame, SameComplete
  <2> QED
    BY <1>5, <1>6, <1>7, <2>4, <2>5, <2>6
<1>8. CASE ~d.res[r].last /\ d.srv.outgoing = <<>>
  <2>1. PICK b \in BOOLEAN : b = TRUE
    OBVIOUS
  <2>2. d.srv \in SrvType
    BY <1>5 DEF WorldType
  <2>3. PICK s : s = WithTimer(d.srv, b)
    OBVIOUS
  <2>4. s \in SrvType /\ s.incoming = d.srv.incoming /\ s.outgoing = d.srv.outgoing
        /\ s.outgoingData = d.srv.outgoingData
    BY <2>2, <2>3, SrvTimerType
  <2>5. s.keepAliveTimeoutSet
    BY <2>1, <2>2, <2>3, SrvTimerType
  <2>6. v = WithSrv(d, s)
    BY <1>2, <1>5, <1>6, <1>8, <2>1, <2>3
    DEF ResOnFinish, TurnToNext, WithSrv, WithTimer, WorldType
  <2>7. /\ v \in WorldType /\ v.srv = s /\ v.sock = d.sock /\ v.res = d.res /\ v.req = d.req
        /\ v.closing = d.closing /\ v.failed = d.failed
    BY <1>5, <2>4, <2>6, WithSrvType
  <2>8. Len(d.srv.outgoing) = 0
    BY <1>8
  <2>9. WorldOK(v, a, n + 1, ph)
    BY <1>4, <2>4, <2>7, <2>8, FinishIdle
  <2>10. v.sock.state = w.sock.state
    BY <1>5, <2>7
  <2>11. Frame(w, v, FALSE)
    BY <1>5, <2>7, <2>10, <2>5 DEF Frame, SameComplete
  <2> QED
    BY <1>6, <2>9, <2>10, <2>11 DEF Alive
<1>9. CASE ~d.res[r].last /\ d.srv.outgoing # <<>>
  <2>1. PICK next : next = d.srv.outgoing
    OBVIOUS
  <2>2. next \in Seq(Messages) /\ d.srv \in SrvType
    BY <1>5, <2>1, WorldFields DEF WorldType
  <2>3. Len(next) > 0
    BY <1>9, <2>1, <2>2
  <2>4. Tail(next) \in Seq(Messages) /\ Head(next) = next[1] /\ next[1] \in Messages
    BY <2>2, <2>3, TailPieces
  <2>5. PICK h \in Messages : h = next[1]
    BY <2>4
  <2>6. PICK rest \in Seq(Messages) : rest = Tail(next)
    BY <2>4
  <2>7. PICK s : s = WithOutgoing(d.srv, rest)
    OBVIOUS
  <2>8. s \in SrvType /\ s.incoming = d.srv.incoming /\ s.outgoing = rest
        /\ s.outgoingData = d.srv.outgoingData
        /\ s.keepAliveTimeoutSet = d.srv.keepAliveTimeoutSet
    BY <2>2, <2>7, SrvListsType
  <2>9. PICK u : u = WithSrv(d, s)
    OBVIOUS
  <2>10. /\ u \in WorldType /\ u.srv = s /\ u.sock = d.sock /\ u.res = d.res /\ u.req = d.req
         /\ u.closing = d.closing /\ u.failed = d.failed
    BY <1>5, <2>8, <2>9, WithSrvType
  <2>11. u = [d EXCEPT !.srv.outgoing = Tail(@)]
    BY <1>5, <2>1, <2>6, <2>7, <2>9 DEF WithSrv, WithOutgoing, WorldType
  <2>12. v = AssignSocket(u, h)
    BY <1>2, <1>6, <1>9, <2>1, <2>4, <2>5, <2>11 DEF ResOnFinish, TurnToNext
  <2>13. u.sock.message = NoMessage
    BY <1>4, <2>10 DEF Between
  <2>14. Assigns(u, v, h)
    BY <2>10, <2>12, <2>13, AssignSocketEffect
  <2>15. WorldOK(v, a, n + 1, ph)
    BY <1>4, <2>1, <2>3, <2>5, <2>6, <2>8, <2>10, <2>14, FinishNext
  <2>16. v.sock.state \in {"destroyed", w.sock.state}
    BY <1>5, <2>10, <2>14 DEF Assigns
  <2>17. v.sock.message # NoMessage
    BY <2>14 DEF Assigns, Messages, NoMessage
  <2>18. Frame(w, v, FALSE)
    <3>1. SameComplete(w, v)
      BY <1>5, <2>10, <2>14 DEF Assigns, SameComplete
    <3>2. \A x \in Messages : v.res[x].finished = w.res[x].finished
      BY <1>5, <2>10, <2>14 DEF Assigns
    <3> QED
      BY <2>16, <2>17, <3>1, <3>2 DEF Frame
  <2> QED
    BY <1>6, <2>15, <2>16, <2>18 DEF Alive
<1> QED
  BY <1>7, <1>8, <1>9

-----------------------------------------------------------------------------
(* A request comes. *)

\* From w to v the request r comes, and its response takes its place.
Arrives(w, v, r) ==
    /\ v \in WorldType
    /\ v.sock.state = w.sock.state /\ v.sock.peerEnded = w.sock.peerEnded
    /\ SameBuf(w, v)
    /\ v.sock.paused => \/ w.sock.paused \/ w.sock.needDrain
                        \/ w.srv.outgoingData >= HighWaterMark
    /\ v.srv.incoming = Append(w.srv.incoming, r)
    /\ v.srv.outgoingData = w.srv.outgoingData
    /\ ~v.srv.keepAliveTimeoutSet
    /\ v.closing = w.closing /\ v.failed = w.failed
    /\ \A x \in Messages :
          /\ v.res[x].output = w.res[x].output
          /\ v.res[x].finished = w.res[x].finished
          /\ v.res[x].destroyed = w.res[x].destroyed
          /\ v.res[x].needDrain => w.res[x].needDrain
          /\ v.res[x].last => w.res[x].last \/ ~v.res[x].keep
          /\ x # r => v.res[x].keep = w.res[x].keep
    /\ \/ /\ w.sock.message # NoMessage /\ v.sock.message = w.sock.message
          /\ v.srv.outgoing = Append(w.srv.outgoing, r)
       \/ /\ w.sock.message = NoMessage /\ v.sock.message = r
          /\ v.srv.outgoing = w.srv.outgoing

\* One more request or response at the end of a list.
LEMMA AppendMessage ==
  ASSUME NEW q \in Seq(Messages), NEW r \in Messages
  PROVE  /\ Append(q, r) \in Seq(Messages)
         /\ Len(Append(q, r)) = Len(q) + 1
         /\ \A i \in 1..Len(q) : Append(q, r)[i] = q[i]
         /\ Append(q, r)[Len(q) + 1] = r
         /\ \A i \in 1..Len(Append(q, r)) : i \in 1..Len(q) \/ i = Len(q) + 1
OBVIOUS

\* A request that arrives in its turn keeps the invariant.
LEMMA ArrivesKeeps ==
  ASSUME NEW w, NEW v, NEW a \in 0..N, NEW n \in Nat, NEW r \in Messages, r = a + 1,
         WorldOK(w, a, n, "head"), ~w.sock.peerEnded, Arrives(w, v, r)
  PROVE  WorldOK(v, r, n, "body")
<1>1. w \in WorldType /\ v \in WorldType /\ a \in Nat
  BY DEF WorldOK, Arrives
<1>2. /\ v.sock.state = w.sock.state /\ v.sock.peerEnded = w.sock.peerEnded
      /\ v.sock.buf = w.sock.buf /\ v.sock.needDrain = w.sock.needDrain
      /\ v.srv.outgoingData = w.srv.outgoingData
      /\ ~v.srv.keepAliveTimeoutSet
      /\ v.closing = w.closing /\ v.failed = w.failed
  BY DEF Arrives, SameBuf
<1>3. \A x \in Messages :
          /\ v.res[x].output = w.res[x].output
          /\ v.res[x].finished = w.res[x].finished
          /\ v.res[x].destroyed = w.res[x].destroyed
          /\ v.res[x].needDrain => w.res[x].needDrain
          /\ v.res[x].last => w.res[x].last \/ ~v.res[x].keep
          /\ x # r => v.res[x].keep = w.res[x].keep
  BY DEF Arrives
<1>4. PICK in : in = w.srv.incoming
  OBVIOUS
<1>5. PICK in2 : in2 = v.srv.incoming
  OBVIOUS
<1>6. in \in Seq(Messages) /\ in2 = Append(in, r)
  BY <1>1, <1>4, <1>5, WorldFields DEF Arrives
<1>7. /\ Len(in) \in Nat /\ Len(in2) = Len(in) + 1
      /\ \A i \in 1..Len(in) : in2[i] = in[i]
      /\ in2[Len(in) + 1] = r
      /\ \A i \in 1..Len(in2) : i \in 1..Len(in) \/ i = Len(in) + 1
  BY <1>6, AppendMessage
<1>8. PICK out : out = w.srv.outgoing
  OBVIOUS
<1>9. PICK out2 : out2 = v.srv.outgoing
  OBVIOUS
<1>10. out \in Seq(Messages) /\ Len(out) \in Nat
  BY <1>1, <1>8, WorldFields
<1>11. \/ /\ w.sock.message # NoMessage /\ v.sock.message = w.sock.message
          /\ Len(out2) = Len(out) + 1
          /\ \A i \in 1..Len(out) : out2[i] = out[i]
          /\ out2[Len(out) + 1] = r
          /\ \A i \in 1..Len(out2) : i \in 1..Len(out) \/ i = Len(out) + 1
       \/ /\ w.sock.message = NoMessage /\ v.sock.message = r /\ out2 = out
  <2>1. \/ /\ w.sock.message # NoMessage /\ v.sock.message = w.sock.message
           /\ out2 = Append(out, r)
        \/ /\ w.sock.message = NoMessage /\ v.sock.message = r /\ out2 = out
    BY <1>8, <1>9 DEF Arrives
  <2>2. out2 = Append(out, r) =>
          /\ Len(out2) = Len(out) + 1
          /\ \A i \in 1..Len(out) : out2[i] = out[i]
          /\ out2[Len(out) + 1] = r
          /\ \A i \in 1..Len(out2) : i \in 1..Len(out) \/ i = Len(out) + 1
    BY <1>10, AppendMessage
  <2> QED
    BY <2>1, <2>2
<1>12. \A i \in 1..Len(out2) : (i \in 1..Len(out) /\ out2[i] = out[i]) \/ out2[i] = r
  BY <1>11
<1>13. r > a
  BY <1>1
<1>14. FreshOK(v, r)
  <2>1. \A x \in Messages : x > r => x > a /\ x # r
    BY <1>1 DEF Messages
  <2>2. \A x \in Messages : x > r =>
          /\ v.res[x].keep
          /\ ~v.res[x].finished /\ ~v.res[x].destroyed
          /\ ~v.res[x].needDrain /\ ~v.res[x].last
          /\ Len(v.res[x].output) = 0
    BY <1>3, <2>1 DEF WorldOK, FreshOK
  <2>3. \A x \in w.closing : x <= a /\ x \in Messages
    BY <1>1, WorldFields DEF WorldOK, FreshOK
  <2>4. \A x \in v.closing : x <= r
    BY <1>1, <1>2, <2>3 DEF Messages
  <2>5. w.sock.message <= a /\ w.sock.message \in 0..N
    BY <1>1, WorldFields DEF WorldOK, FreshOK
  <2>6. v.sock.message <= r
    BY <1>1, <1>11, <2>5
  <2>7. \A i \in 1..Len(out) : out[i] <= a /\ out[i] \in Messages
    BY <1>8, <1>10 DEF WorldOK, FreshOK
  <2>8. \A i \in 1..Len(out) : out[i] <= r
    BY <1>1, <2>7 DEF Messages
  <2>9. r <= r
    BY <1>1
  <2>10. \A i \in 1..Len(out2) : out2[i] <= r
    BY <1>12, <2>8, <2>9
  <2> QED
    BY <1>9, <2>2, <2>4, <2>6, <2>10 DEF FreshOK
<1>15. OutputsOK(v)
  BY <1>3 DEF WorldOK, OutputsOK
<1>16. w.sock.message = NoMessage => NoEnd(w.sock.buf)
  <2>1. NoMessage \notin 1..a
    BY DEF NoMessage
  <2> QED
    BY <2>1 DEF WorldOK, BufOK, NoEnd
<1>17. Alive(w) /\ w.sock.message = NoMessage => Len(w.sock.buf) = 0
  <2>1. Len(w.sock.buf) \in Nat
    BY <1>1, WorldFields
  <2> QED
    BY <2>1 DEF WorldOK, BufOK
<1>18. Alive(v) <=> Alive(w)
  BY <1>2 DEF Alive
<1>19. BufOK(v, r)
  <2>1. 1..a \subseteq Messages /\ 1..a \subseteq 1..r
    BY <1>1, ServerAssumption DEF Messages
  <2>2. BufOK(w, a)
    BY DEF WorldOK
  <2>3. \A i \in 1..Len(v.sock.buf) : P!EndsResponse(v.sock.buf[i]) =>
          /\ v.sock.buf[i].of = v.sock.message
          /\ v.sock.message \in 1..r
          /\ v.res[v.sock.message].finished
    BY <1>2, <1>3, <1>11, <1>16, <2>1, <2>2 DEF BufOK, NoEnd
  <2>4. Alive(v) => Tagged(v.sock.buf, v.sock.message)
    <3>1. CASE w.sock.message = NoMessage
      BY <1>2, <1>17, <1>18, <3>1, EmptyBuf
    <3>2. CASE w.sock.message # NoMessage
      BY <1>2, <1>11, <1>18, <2>2, <3>2 DEF BufOK
    <3> QED
      BY <3>1, <3>2
  <2>5. v.sock.message # NoMessage
    BY <1>11 DEF Messages, NoMessage
  <2> QED
    BY <1>2, <2>2, <2>3, <2>4, <2>5 DEF BufOK
<1>20. EndHeads(v, "body")
  <2>1. CASE NoEnd(w.sock.buf)
    BY <1>2, <2>1 DEF EndHeads
  <2>2. CASE ~NoEnd(w.sock.buf)
    <3>1. Len(in) > 0 /\ in[1] = w.sock.message
      BY <1>4, <2>2 DEF WorldOK, EndHeads
    <3>2. Len(in2) > 0 /\ in2[1] = in[1]
      BY <1>7, <3>1
    <3>3. v.sock.message = w.sock.message
      BY <1>11, <1>16, <2>2
    <3> QED
      BY <1>5, <3>1, <3>2, <3>3 DEF EndHeads
  <2> QED
    BY <2>1, <2>2
<1>21. NumbersOK(v, r, n)
  <2>1. SUFFICES ASSUME InOrder(v)
                 PROVE  Numbered(v, r, n)
    BY DEF NumbersOK
  <2>2. Numbered(w, a, n)
    BY <1>2, <2>1 DEF WorldOK, NumbersOK, InOrder
  <2>3. Len(in) = a - n /\ \A i \in 1..Len(in) : in[i] = n + i
    BY <1>4, <2>2 DEF Numbered
  <2>4. Len(in2) = r - n
    BY <1>1, <1>7, <2>3
  <2>5. \A i \in 1..Len(in2) : in2[i] = n + i
    BY <1>1, <1>7, <2>3
  <2>6. v.sock.message # NoMessage
    BY <1>11 DEF Messages, NoMessage
  <2>7. /\ v.sock.message = n + 1
        /\ Len(out2) = r - n - 1
        /\ \A i \in 1..Len(out2) : out2[i] = n + 1 + i
    <3>1. CASE w.sock.message = NoMessage
      <4>1. Len(out) = 0 /\ a = n
        BY <1>8, <2>2, <3>1 DEF Numbered
      <4> QED
        BY <1>1, <1>11, <3>1, <4>1
    <3>2. CASE w.sock.message # NoMessage
      <4>1. w.sock.message = n + 1 /\ Len(out) = a - n - 1
            /\ \A i \in 1..Len(out) : out[i] = n + 1 + i
        BY <1>8, <2>2, <3>2 DEF Numbered
      <4> QED
        BY <1>1, <1>11, <3>2, <4>1
    <3> QED
      BY <3>1, <3>2
  <2> QED
    BY <1>2, <1>5, <1>9, <2>2, <2>4, <2>5, <2>6, <2>7 DEF Numbered
<1>22. CountOK(v)
  BY <1>2, <1>3, SameCountKept DEF WorldOK, SameOutputs
<1>23. TimerOK(v)
  BY <1>2 DEF TimerOK
<1>24. TurnsOK(v, n)
  BY <1>2, <1>3 DEF WorldOK, TurnsOK
<1>25. PausedOK(v, "body")
  <2>1. SUFFICES ASSUME v.sock.state = "open", v.sock.paused
                 PROVE  \/ Draining(v)
                        \/ \E i \in 1..Len(out2) : Len(v.res[out2[i]].output) > 0
    BY <1>9 DEF PausedOK
  <2>2. Draining(w) => Draining(v)
    BY <1>2 DEF Draining
  <2>3. w.sock.needDrain => Draining(w)
    BY <1>2, <2>1 DEF WorldOK, TurnsOK, Draining
  <2>4. w.srv.outgoingData >= HighWaterMark
          => \E i \in 1..Len(out) : Len(w.res[out[i]].output) > 0
    <3>1. w.srv.outgoingData \in Int
      BY <1>1, WorldFields
    <3>2. w.srv.outgoingData >= HighWaterMark => w.srv.outgoingData > 0
      BY <3>1, ServerAssumption
    <3> QED
      BY <1>1, <1>2, <1>8, <2>1, <3>2, CountedWaits DEF WorldOK
  <2>5. Draining(w) \/ \E i \in 1..Len(out) : Len(w.res[out[i]].output) > 0
    BY <1>2, <1>8, <2>1, <2>3, <2>4 DEF WorldOK, PausedOK, Arrives
  <2>6. ASSUME NEW i \in 1..Len(out), Len(w.res[out[i]].output) > 0
        PROVE  i \in 1..Len(out2) /\ Len(v.res[out2[i]].output) > 0
    <3>1. i \in 1..Len(out2) /\ out2[i] = out[i]
      BY <1>10, <1>11
    <3>2. out[i] \in Messages
      BY <1>10
    <3> QED
      BY <1>3, <2>6, <3>1, <3>2
  <2> QED
    BY <2>2, <2>5, <2>6
<1>26. WaitingOK(v, r, "body")
  <2>1. SUFFICES ASSUME NEW x \in Messages, x <= r, v.sock.state = "open",
                        v.res[x].needDrain, ~v.res[x].finished, ~v.res[x].destroyed
                 PROVE  IF v.sock.message = x THEN Draining(v) ELSE Len(v.res[x].output) > 0
    BY DEF WaitingOK
  <2>2. x # r
    BY <1>3, <1>13, <2>1 DEF WorldOK, FreshOK
  <2>3. x <= a
    BY <1>1, <2>1, <2>2 DEF Messages
  <2>4. IF w.sock.message = x THEN Draining(w) ELSE Len(w.res[x].output) > 0
    BY <1>2, <1>3, <2>1, <2>3 DEF WorldOK, WaitingOK
  <2>5. x # NoMessage
    BY DEF Messages, NoMessage
  <2> QED
    BY <1>2, <1>3, <1>11, <2>2, <2>4, <2>5 DEF Draining
<1>27. LastOK(v, r)
  <2>1. ~w.res[r].last
    BY <1>13 DEF WorldOK, FreshOK
  <2> QED
    BY <1>2, <1>3, <2>1 DEF WorldOK, LastOK
<1> QED
  BY <1>1, <1>14, <1>15, <1>19, <1>20, <1>21, <1>22, <1>23, <1>24, <1>25, <1>26, <1>27
  DEF WorldOK

-----------------------------------------------------------------------------
(* The connection ends. *)

\* From w to v the socket is dead, with nothing new to finish.
Dies(w, v, a, ph, q) ==
    /\ v \in WorldType
    /\ ~Alive(v)
    /\ v.sock.message = w.sock.message
    /\ v.sock.buf = w.sock.buf \/ NoEnd(v.sock.buf)
    /\ \/ v.srv.incoming = w.srv.incoming /\ (ph = "gone" => q = "gone")
       \/ Len(v.srv.incoming) = 0 /\ q = "gone"
    /\ v.srv.outgoing = w.srv.outgoing
    /\ v.srv.outgoingData = w.srv.outgoingData
    /\ v.failed = w.failed
    /\ v.closing \subseteq w.closing
    /\ \A x \in Messages :
          /\ v.res[x].output = w.res[x].output
          /\ v.res[x].keep = w.res[x].keep
          /\ v.res[x].last = w.res[x].last
          /\ v.res[x].finished = w.res[x].finished
          /\ v.res[x].needDrain = w.res[x].needDrain
          /\ v.res[x].destroyed => w.res[x].destroyed \/ x <= a

\* The death of the socket keeps what is left of the invariant.
LEMMA DiesKeeps ==
  ASSUME NEW w, NEW v, NEW a \in 0..N, NEW n, NEW ph, NEW q,
         WorldOK(w, a, n, ph), Dies(w, v, a, ph, q)
  PROVE  WorldOK(v, a, n, q)
<1>1. /\ v \in WorldType /\ ~Alive(v)
      /\ v.sock.message = w.sock.message
      /\ v.sock.buf = w.sock.buf \/ NoEnd(v.sock.buf)
      /\ v.srv.outgoing = w.srv.outgoing
      /\ v.srv.outgoingData = w.srv.outgoingData
      /\ v.failed = w.failed
      /\ v.closing \subseteq w.closing
  BY DEF Dies
<1>2. \A x \in Messages :
          /\ v.res[x].output = w.res[x].output
          /\ v.res[x].keep = w.res[x].keep
          /\ v.res[x].last = w.res[x].last
          /\ v.res[x].finished = w.res[x].finished
          /\ v.res[x].needDrain = w.res[x].needDrain
          /\ v.res[x].destroyed => w.res[x].destroyed \/ x <= a
  BY DEF Dies
<1>3. FreshOK(v, a)
  <2>1. FreshOK(w, a)
    BY DEF WorldOK
  <2>2. \A x \in Messages : x > a => ~(x <= a)
    BY DEF Messages
  <2>3. \A x \in Messages : x > a =>
          /\ v.res[x].keep
          /\ ~v.res[x].finished /\ ~v.res[x].destroyed
          /\ ~v.res[x].needDrain /\ ~v.res[x].last
          /\ Len(v.res[x].output) = 0
    BY <1>2, <2>1, <2>2 DEF FreshOK
  <2> QED
    BY <1>1, <2>1, <2>3 DEF FreshOK
<1>4. OutputsOK(v)
  BY <1>2 DEF WorldOK, OutputsOK
<1>5. ~v.failed
  BY <1>1 DEF WorldOK, BufOK
<1>6. EndLast(v.sock.buf)
  BY <1>1 DEF WorldOK, BufOK, EndLast, NoEnd
<1>7. \A i \in 1..Len(v.sock.buf) : P!EndsResponse(v.sock.buf[i]) =>
          /\ v.sock.buf[i].of = v.sock.message
          /\ v.sock.message \in 1..a
          /\ v.res[v.sock.message].finished
  <2>1. 1..a \subseteq Messages
    BY ServerAssumption DEF Messages
  <2>2. CASE NoEnd(v.sock.buf)
    BY <2>2 DEF NoEnd
  <2>3. CASE v.sock.buf = w.sock.buf
    BY <1>1, <1>2, <2>1, <2>3 DEF WorldOK, BufOK
  <2> QED
    BY <1>1, <2>2, <2>3
<1>8. EndHeads(v, q)
  <2>1. CASE NoEnd(v.sock.buf)
    BY <2>1 DEF EndHeads
  <2>2. CASE v.sock.buf = w.sock.buf
    BY <1>1, <2>2 DEF Dies, WorldOK, EndHeads
  <2> QED
    BY <1>1, <2>1, <2>2
<1>9. CountOK(v)
  BY <1>1, <1>2, SameCountKept DEF WorldOK, SameOutputs
<1> QED
  BY <1>1, <1>3, <1>4, <1>5, <1>6, <1>7, <1>8, <1>9, DeadOK

\* From w to v the client has ended its side: the server ends too, now or
\* after the response to the last request.
ClientEnds(w, v, a) ==
    /\ v \in WorldType
    /\ \/ v.sock.state = w.sock.state
       \/ w.sock.state = "open" /\ v.sock.state = "ended"
    /\ SameBuf(w, v)
    /\ v.sock.message = w.sock.message /\ v.sock.paused = w.sock.paused
    /\ v.sock.peerEnded
    /\ v.srv = w.srv /\ v.closing = w.closing /\ v.failed = w.failed
    /\ \A x \in Messages :
          /\ v.res[x].output = w.res[x].output
          /\ v.res[x].keep = w.res[x].keep
          /\ v.res[x].finished = w.res[x].finished
          /\ v.res[x].destroyed = w.res[x].destroyed
          /\ v.res[x].needDrain = w.res[x].needDrain
          /\ v.res[x].last => w.res[x].last \/ x <= a
          /\ v.res[x].last /\ v.sock.state = "open" => w.res[x].last \/ x = a

\* The client's end keeps the invariant.
LEMMA ClientEndsKeeps ==
  ASSUME NEW w, NEW v, NEW a \in 0..N, NEW n, NEW ph,
         WorldOK(w, a, n, ph), ~w.sock.peerEnded, ClientEnds(w, v, a)
  PROVE  WorldOK(v, a, n, ph)
<1>1. /\ v \in WorldType
      /\ \/ v.sock.state = w.sock.state
         \/ w.sock.state = "open" /\ v.sock.state = "ended"
      /\ v.sock.buf = w.sock.buf /\ v.sock.needDrain = w.sock.needDrain
      /\ v.sock.message = w.sock.message /\ v.sock.paused = w.sock.paused
      /\ v.sock.peerEnded
      /\ v.srv = w.srv /\ v.closing = w.closing /\ v.failed = w.failed
  BY DEF ClientEnds, SameBuf
<1>2. \A x \in Messages :
          /\ v.res[x].output = w.res[x].output
          /\ v.res[x].keep = w.res[x].keep
          /\ v.res[x].finished = w.res[x].finished
          /\ v.res[x].destroyed = w.res[x].destroyed
          /\ v.res[x].needDrain = w.res[x].needDrain
          /\ v.res[x].last => w.res[x].last \/ x <= a
          /\ v.res[x].last /\ v.sock.state = "open" => w.res[x].last \/ x = a
  BY DEF ClientEnds
<1>3. w \in WorldType
  BY DEF WorldOK
<1>4. Alive(v) <=> Alive(w)
  BY <1>1 DEF Alive
<1>5. FreshOK(v, a)
  <2>1. FreshOK(w, a)
    BY DEF WorldOK
  <2>2. \A x \in Messages : x > a => ~(x <= a)
    BY DEF Messages
  <2>3. \A x \in Messages : x > a =>
          /\ v.res[x].keep
          /\ ~v.res[x].finished /\ ~v.res[x].destroyed
          /\ ~v.res[x].needDrain /\ ~v.res[x].last
          /\ Len(v.res[x].output) = 0
    BY <1>2, <2>1, <2>2 DEF FreshOK
  <2> QED
    BY <1>1, <2>1, <2>3 DEF FreshOK
<1>6. OutputsOK(v)
  BY <1>2 DEF WorldOK, OutputsOK
<1>7. BufOK(v, a) /\ EndHeads(v, ph)
  <2>1. BufOK(w, a)
    BY DEF WorldOK
  <2>2. 1..a \subseteq Messages
    BY ServerAssumption DEF Messages
  <2>3. \A i \in 1..Len(v.sock.buf) : P!EndsResponse(v.sock.buf[i]) =>
          /\ v.sock.buf[i].of = v.sock.message
          /\ v.sock.message \in 1..a
          /\ v.res[v.sock.message].finished
    BY <1>1, <1>2, <2>1, <2>2 DEF BufOK
  <2> QED
    BY <1>1, <1>4, <2>1, <2>3 DEF BufOK, WorldOK, EndHeads
<1>8. NumbersOK(v, a, n)
  <2>1. InOrder(v) => InOrder(w)
    BY <1>1 DEF InOrder
  <2> QED
    BY <1>1, <2>1 DEF WorldOK, NumbersOK, Numbered
<1>9. CountOK(v)
  BY <1>1, <1>2, SameCountKept DEF WorldOK, SameOutputs
<1>10. TimerOK(v)
  BY <1>1, <1>4 DEF WorldOK, TimerOK
<1>11. v.sock.state = "open" => w.sock.state = "open"
  BY <1>1
<1>12. TurnsOK(v, n)
  BY <1>1, <1>2, <1>11 DEF WorldOK, TurnsOK
<1>13. LastOK(v, a)
  BY <1>1, <1>2, <1>11 DEF WorldOK, LastOK
<1>14. PausedOK(v, ph)
  <2>1. \A i \in 1..Len(w.srv.outgoing) : w.srv.outgoing[i] \in Messages
    BY <1>3, WorldFields
  <2>2. \A i \in 1..Len(w.srv.outgoing) :
           v.res[w.srv.outgoing[i]].output = w.res[w.srv.outgoing[i]].output
    BY <1>2, <2>1
  <2> QED
    BY <1>1, <1>11, <2>2 DEF WorldOK, PausedOK, Draining
<1>15. WaitingOK(v, a, ph)
  <2>1. SUFFICES ASSUME NEW x \in Messages, x <= a, v.sock.state = "open", ph # "upgraded",
                        v.res[x].needDrain, ~v.res[x].finished, ~v.res[x].destroyed
                 PROVE  IF v.sock.message = x THEN Draining(v) ELSE Len(v.res[x].output) > 0
    BY DEF WaitingOK
  <2>2. IF w.sock.message = x THEN Draining(w) ELSE Len(w.res[x].output) > 0
    BY <1>2, <1>11, <2>1 DEF WorldOK, WaitingOK
  <2> QED
    BY <1>1, <1>2, <2>2 DEF Draining
<1> QED
  BY <1>1, <1>5, <1>6, <1>7, <1>8, <1>9, <1>10, <1>12, <1>13, <1>14, <1>15 DEF WorldOK

WithLast(c, l) == [c EXCEPT !.last = l]

\* The fields of a response that is, or is not, the last.
LEMMA WithLastType ==
  ASSUME NEW c \in ResType, NEW l \in BOOLEAN
  PROVE  /\ WithLast(c, l) \in ResType
         /\ WithLast(c, l).output = c.output
         /\ WithLast(c, l).keep = c.keep
         /\ WithLast(c, l).last = l
         /\ WithLast(c, l).finished = c.finished
         /\ WithLast(c, l).destroyed = c.destroyed
         /\ WithLast(c, l).needDrain = c.needDrain
BY DEF WithLast, ResType

\* u is w once the client has ended its side.
LEMMA HalfCloseEffect ==
  ASSUME NEW w, NEW u, NEW a \in 0..N, NEW n \in Nat, NEW ph, WorldOK(w, a, n, ph), Alive(w),
         u \in WorldType, u.sock.state = w.sock.state, SameBuf(w, u),
         u.sock.message = w.sock.message, u.sock.paused = w.sock.paused, u.sock.peerEnded,
         u.srv = w.srv, u.res = w.res, u.closing = w.closing, u.failed = w.failed
  PROVE  ClientEnds(w, HalfClose(u), a)
<1>1. w \in WorldType
  BY DEF WorldOK
<1>2. PICK v : v = HalfClose(u)
  OBVIOUS
<1>3. CASE v = EndSocket(u)
  <2>1. PICK k : k = IF u.sock.state = "open" THEN "ended" ELSE u.sock.state
    OBVIOUS
  <2>2. Moves(u, v, k)
    BY <1>3, <2>1, EndSocketEffect
  <2>3. ClientEnds(w, v, a)
    BY <2>1, <2>2 DEF Moves, ClientEnds, SameBuf
  <2> QED
    BY <1>2, <2>3
<1>4. ASSUME NEW m \in Messages, m <= a, u.sock.state = "open" => m = a,
             v = [u EXCEPT !.res[m].last = TRUE]
      PROVE  ClientEnds(w, v, a)
  <2>1. PICK l \in BOOLEAN : l = TRUE
    OBVIOUS
  <2>2. PICK c : c = WithLast(u.res[m], l)
    OBVIOUS
  <2>3. u.res[m] \in ResType
    BY <1>4, ResFields
  <2>4. /\ c \in ResType /\ c.output = u.res[m].output /\ c.keep = u.res[m].keep
        /\ c.finished = u.res[m].finished /\ c.destroyed = u.res[m].destroyed
        /\ c.needDrain = u.res[m].needDrain
    BY <2>2, <2>3, WithLastType
  <2>5. v = WithRes(u, m, c)
    BY <1>4, <2>1, <2>2 DEF WithRes, WithLast
  <2>6. /\ v \in WorldType /\ v.res[m] = c
        /\ \A x \in Messages : x # m => v.res[x] = u.res[x]
        /\ v.sock = u.sock /\ v.srv = u.srv
        /\ v.closing = u.closing /\ v.failed = u.failed
    <3>1. c \in ResType
      BY <2>4
    <3> QED
      BY <2>5, <3>1, WithResType
  <2>7. \A x \in Messages :
          /\ v.res[x].output = w.res[x].output
          /\ v.res[x].keep = w.res[x].keep
          /\ v.res[x].finished = w.res[x].finished
          /\ v.res[x].destroyed = w.res[x].destroyed
          /\ v.res[x].needDrain = w.res[x].needDrain
          /\ v.res[x].last => w.res[x].last \/ x <= a
          /\ v.res[x].last /\ u.sock.state = "open" => w.res[x].last \/ x = a
    BY <1>4, <2>4, <2>6
  <2>8. /\ v.sock.state = w.sock.state /\ SameBuf(w, v)
        /\ v.sock.message = w.sock.message /\ v.sock.paused = w.sock.paused
        /\ v.sock.peerEnded
    BY <2>6 DEF SameBuf
  <2> QED
    BY <2>6, <2>7, <2>8 DEF ClientEnds
<1>5. CASE HttpAllowHalfOpen /\ u.srv.outgoing # <<>>
  <2>1. PICK out : out = w.srv.outgoing
    OBVIOUS
  <2>2. out \in Seq(Messages) /\ out # <<>>
    BY <1>1, <1>5, <2>1, WorldFields
  <2>3. PICK k \in Nat : k = Len(out)
    BY <2>2
  <2>4. k > 0 /\ k \in 1..Len(out)
    BY <2>2, <2>3
  <2>5. PICK m : m = out[k]
    OBVIOUS
  <2>6. m \in Messages /\ m <= a
    BY <2>1, <2>2, <2>4, <2>5 DEF WorldOK, FreshOK
  <2>7. u.sock.state = "open" => m = a
    <3>1. SUFFICES ASSUME u.sock.state = "open"
                   PROVE  m = a
      OBVIOUS
    <3>2. Numbered(w, a, n)
      BY <3>1 DEF WorldOK, NumbersOK, InOrder
    <3>3. w.sock.message # NoMessage
      BY <2>1, <2>3, <2>4, <3>2 DEF Numbered
    <3>4. k = a - n - 1 /\ m = n + 1 + k
      BY <2>1, <2>3, <2>4, <2>5, <3>2, <3>3 DEF Numbered
    <3> QED
      BY <3>4
  <2>8. v = [u EXCEPT !.res[m].last = TRUE]
    BY <1>2, <1>5, <2>1, <2>3, <2>5 DEF HalfClose
  <2>9. ClientEnds(w, v, a)
    BY <1>4, <2>6, <2>7, <2>8
  <2> QED
    BY <1>2, <2>9
<1>6. CASE HttpAllowHalfOpen /\ u.srv.outgoing = <<>> /\ u.sock.message # NoMessage
  <2>1. PICK m : m = w.sock.message
    OBVIOUS
  <2>2. m \in Messages /\ m <= a
    <3>1. m \in 0..N /\ m # 0
      BY <1>1, <1>6, <2>1, WorldFields DEF NoMessage
    <3> QED
      BY <2>1, <3>1 DEF Messages, WorldOK, FreshOK
  <2>3. u.sock.state = "open" => m = a
    <3>1. SUFFICES ASSUME u.sock.state = "open"
                   PROVE  m = a
      OBVIOUS
    <3>2. Numbered(w, a, n) /\ Len(w.srv.outgoing) = 0
      BY <1>6, <3>1 DEF WorldOK, NumbersOK, InOrder
    <3> QED
      BY <1>6, <2>1, <3>2 DEF Numbered
  <2>4. v = [u EXCEPT !.res[m].last = TRUE]
    BY <1>2, <1>6, <2>1 DEF HalfClose
  <2>5. ClientEnds(w, v, a)
    BY <1>4, <2>2, <2>3, <2>4
  <2> QED
    BY <1>2, <2>5
<1>7. CASE ~HttpAllowHalfOpen \/ (u.srv.outgoing = <<>> /\ u.sock.message = NoMessage)
  <2>1. v = EndSocket(u)
    BY <1>2, <1>7 DEF HalfClose
  <2> QED
    BY <1>3, <2>1
<1> QED
  BY <1>5, <1>6, <1>7, ServerAssumption

\* The bytes are no HTTP, or came too late.
LEMMA ErrorRequests ==
  ASSUME NEW u \in WorldType
  PROVE  ErrorUnsent(u).req = u.req /\ DestroySocket(u).req = u.req
BY DEF ErrorUnsent, DestroySocket, SocketWrite, WorldType

\* socketOnError writes its answer, if it may, and destroys the socket; whether
\* the answer leaves or not.
LEMMA ErrorEffect ==
  ASSUME NEW w, NEW u, NEW a, NEW ph, NEW q, u \in WorldType,
         u.sock.message = w.sock.message, u.sock.buf = w.sock.buf,
         u.srv.incoming = w.srv.incoming, u.srv.outgoing = w.srv.outgoing,
         u.srv.outgoingData = w.srv.outgoingData,
         u.res = w.res, u.closing = w.closing, u.failed = w.failed,
         ph = "gone" => q = "gone"
  PROVE  Dies(w, ErrorUnsent(u), a, ph, q) /\ Dies(w, DestroySocket(u), a, ph, q)
<1>1. PICK v : v = ErrorUnsent(u)
  OBVIOUS
<1>2. ASSUME CanAnswerError(u)
      PROVE  Dies(w, v, a, ph, q)
  <2>1. 0 \in 0..N /\ "error" \in P!Parts
    BY ServerAssumption DEF P!Parts
  <2>2. PICK e : e = P!Piece(0, "error")
    OBVIOUS
  <2>3. e \in Pieces /\ ~P!EndsResponse(e)
    BY <2>1, <2>2 DEF P!Piece, Pieces, P!EndsResponse
  <2>4. PICK s : s = <<e>> /\ s \in Seq(Pieces) /\ Len(s) = 1 /\ s[1] = e
    BY <2>3, OneElement
  <2>5. PICK x : x = SocketWrite(u, s)
    OBVIOUS
  <2>6. Sends(u, x, s)
    BY <2>4, <2>5, SocketWriteEffect
  <2>7. v = DestroySocket(x)
    BY <1>1, <1>2, <2>2, <2>4, <2>5 DEF ErrorUnsent
  <2>8. x \in WorldType /\ Alive(x)
    BY <1>2, <2>6 DEF Sends, SameSock, Alive, CanAnswerError
  <2>9. Moves(x, v, "destroyed")
    BY <2>7, <2>8, DestroySocketMoves
  <2>10. x.sock.buf = s
    BY <1>2, <2>4, <2>6 DEF Sends, CanAnswerError
  <2>11. NoEnd(v.sock.buf)
    BY <2>3, <2>4, <2>9, <2>10 DEF Moves, NoEnd
  <2> QED
    BY <2>6, <2>9, <2>11 DEF Dies, Sends, SameSock, Moves, Alive
<1>3. Dies(w, DestroySocket(u), a, ph, q)
  <2>1. PICK x : x = DestroySocket(u)
    OBVIOUS
  <2>2. PICK k : k = IF Alive(u) THEN "destroyed" ELSE u.sock.state
    OBVIOUS
  <2>3. Moves(u, x, k)
    BY <2>1, <2>2, DestroySocketMoves
  <2>4. k \notin {"open", "ended"}
    BY <2>2 DEF Alive
  <2>5. Dies(w, x, a, ph, q)
    BY <2>3, <2>4 DEF Dies, Moves, Alive
  <2> QED
    BY <2>1, <2>5
<1>4. ASSUME ~CanAnswerError(u)
      PROVE  Dies(w, v, a, ph, q)
  <2>1. v = DestroySocket(u)
    BY <1>1, <1>4 DEF ErrorUnsent
  <2> QED
    BY <1>3, <2>1
<1> QED
  BY <1>1, <1>2, <1>3, <1>4

=============================================================================
