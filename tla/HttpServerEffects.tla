------------------------- MODULE HttpServerEffects -------------------------
(***************************************************************************)
(* What each operator of HttpServer does to the state: a relation between  *)
(* the worlds before and after, with what the invariant needs to know of it. *)
(***************************************************************************)
EXTENDS HttpServer, FiniteSetTheorems, SequenceTheorems, TLAPS

-----------------------------------------------------------------------------
(* The world: the variables of a connection, as one record. *)

WorldType == [sock : SockType, srv : SrvType, req : [Messages -> ReqType],
              res : [Messages -> ResType], closing : SUBSET Messages, failed : BOOLEAN]

\* A sequence of one element.
LEMMA OneElement ==
  ASSUME NEW S, NEW e \in S
  PROVE  <<e>> \in Seq(S) /\ Len(<<e>>) = 1 /\ <<e>>[1] = e
OBVIOUS

\* socket.destroy(): the socket goes, everything else stays.
LEMMA DestroySocketEffect ==
  ASSUME NEW w \in WorldType
  PROVE  LET v == DestroySocket(w)
         IN  /\ v \in WorldType
             /\ v.srv = w.srv /\ v.req = w.req /\ v.res = w.res
             /\ v.closing = w.closing /\ v.failed = w.failed
             /\ v.sock.state = IF Alive(w) THEN "destroyed" ELSE w.sock.state
             /\ v.sock.buf = w.sock.buf /\ v.sock.needDrain = w.sock.needDrain
             /\ v.sock.paused = w.sock.paused /\ v.sock.message = w.sock.message
             /\ v.sock.peerEnded = w.sock.peerEnded
BY DEF WorldType, DestroySocket, Alive, SockType

WithBuf(s, b, d) == [s EXCEPT !.buf = b, !.needDrain = d]

\* The fields of a socket whose buffer is set.
LEMMA WithBufType ==
  ASSUME NEW s \in SockType, NEW b \in Seq(Pieces), NEW d \in BOOLEAN
  PROVE  /\ WithBuf(s, b, d) \in SockType
         /\ WithBuf(s, b, d).state = s.state
         /\ WithBuf(s, b, d).buf = b
         /\ WithBuf(s, b, d).needDrain = d
         /\ WithBuf(s, b, d).paused = s.paused
         /\ WithBuf(s, b, d).message = s.message
         /\ WithBuf(s, b, d).peerEnded = s.peerEnded
BY DEF WithBuf, SockType

WithSock(w, s) == [w EXCEPT !.sock = s]

\* The fields of a world whose socket is set.
LEMMA WithSockType ==
  ASSUME NEW w \in WorldType, NEW s \in SockType
  PROVE  /\ WithSock(w, s) \in WorldType
         /\ WithSock(w, s).sock = s
         /\ WithSock(w, s).srv = w.srv /\ WithSock(w, s).req = w.req
         /\ WithSock(w, s).res = w.res
         /\ WithSock(w, s).closing = w.closing /\ WithSock(w, s).failed = w.failed
BY DEF WithSock, WorldType

SameSock(s, t) ==
    /\ t.state = s.state /\ t.message = s.message
    /\ t.peerEnded = s.peerEnded

Sends(w, v, q) ==
    /\ v \in WorldType
    /\ v.srv = w.srv /\ v.req = w.req /\ v.res = w.res
    /\ v.closing = w.closing /\ v.failed = w.failed
    /\ SameSock(w.sock, v.sock)
    /\ v.sock.paused = w.sock.paused
    /\ v.sock.buf = w.sock.buf \o q
    /\ v.sock.needDrain = (w.sock.needDrain \/ Len(v.sock.buf) >= HighWaterMark)

\* socket.write() of the pieces q appends them and may ask to wait for 'drain'.
LEMMA SocketWriteEffect ==
  ASSUME NEW w \in WorldType, NEW q \in Seq(Pieces)
  PROVE  Sends(w, SocketWrite(w, q), q)
<1>1. w.sock \in SockType /\ w.sock.buf \in Seq(Pieces) /\ w.sock.needDrain \in BOOLEAN
  BY DEF WorldType, SockType
<1>2. w.sock.buf \o q \in Seq(Pieces)
  BY ONLY <1>1, q \in Seq(Pieces), ConcatProperties
<1>3. PICK b \in Seq(Pieces) : b = w.sock.buf \o q
  BY <1>2
<1>4. PICK d \in BOOLEAN : d = (w.sock.needDrain \/ Len(b) >= HighWaterMark)
  BY <1>1
<1>5. SocketWrite(w, q) = WithSock(w, WithBuf(w.sock, b, d))
  BY <1>3, <1>4 DEF SocketWrite, WithSock, WithBuf
<1>6. PICK t : t = WithBuf(w.sock, b, d)
  OBVIOUS
<1>7. w.sock \in SockType
  BY <1>1
<1>8. t \in SockType /\ t.state = w.sock.state /\ t.buf = b /\ t.needDrain = d
      /\ t.paused = w.sock.paused /\ t.message = w.sock.message
      /\ t.peerEnded = w.sock.peerEnded
  BY ONLY <1>3, <1>4, <1>6, <1>7, WithBufType, ZenonT(60)
<1>9. PICK v : v = WithSock(w, t)
  OBVIOUS
<1>10. v \in WorldType /\ v.sock = t /\ v.srv = w.srv /\ v.req = w.req /\ v.res = w.res
       /\ v.closing = w.closing /\ v.failed = w.failed
  BY ONLY <1>8, <1>9, w \in WorldType, WithSockType
<1>11. Sends(w, v, q)
  BY <1>3, <1>4, <1>8, <1>10 DEF Sends, SameSock
<1> QED
  BY <1>5, <1>6, <1>9, <1>11

WithRes(w, r, c) == [w EXCEPT !.res[r] = c]
WithOutput(w, r, q) == [w EXCEPT !.res[r].output = q]
WithCount(w, d) == [w EXCEPT !.srv.outgoingData = d]

\* The fields of a world one response of which is set.
LEMMA WithResType ==
  ASSUME NEW w \in WorldType, NEW r \in Messages, NEW c \in ResType
  PROVE  /\ WithRes(w, r, c) \in WorldType
         /\ WithRes(w, r, c).res[r] = c
         /\ \A x \in Messages : x # r => WithRes(w, r, c).res[x] = w.res[x]
         /\ WithRes(w, r, c).sock = w.sock /\ WithRes(w, r, c).srv = w.srv
         /\ WithRes(w, r, c).req = w.req
         /\ WithRes(w, r, c).closing = w.closing /\ WithRes(w, r, c).failed = w.failed
BY DEF WithRes, WorldType

SameRes(c, d) == /\ d.keep = c.keep /\ d.last = c.last /\ d.writes = c.writes
                 /\ d.finished = c.finished /\ d.destroyed = c.destroyed

\* The fields of a response whose queue is set.
LEMMA OutputType ==
  ASSUME NEW c \in ResType, NEW q \in Seq(Pieces)
  PROVE  /\ [c EXCEPT !.output = q] \in ResType
         /\ [c EXCEPT !.output = q].output = q
         /\ [c EXCEPT !.output = q].needDrain = c.needDrain
         /\ SameRes(c, [c EXCEPT !.output = q])
BY DEF ResType, SameRes

\* The fields of a response that waits, or no longer waits.
LEMMA NeedDrainType ==
  ASSUME NEW c \in ResType, NEW d \in BOOLEAN
  PROVE  /\ [c EXCEPT !.needDrain = d] \in ResType
         /\ [c EXCEPT !.needDrain = d].output = c.output
         /\ [c EXCEPT !.needDrain = d].needDrain = d
         /\ SameRes(c, [c EXCEPT !.needDrain = d])
BY DEF ResType, SameRes

\* The fields of a world whose outgoingData is set.
LEMMA CountType ==
  ASSUME NEW w \in WorldType, NEW d \in Int
  PROVE  /\ WithCount(w, d) \in WorldType
         /\ WithCount(w, d).sock = w.sock /\ WithCount(w, d).req = w.req
         /\ WithCount(w, d).res = w.res
         /\ WithCount(w, d).closing = w.closing /\ WithCount(w, d).failed = w.failed
         /\ WithCount(w, d).srv.outgoingData = d
         /\ WithCount(w, d).srv.incoming = w.srv.incoming
         /\ WithCount(w, d).srv.outgoing = w.srv.outgoing
         /\ WithCount(w, d).srv.keepAliveTimeoutSet = w.srv.keepAliveTimeoutSet
BY DEF WithCount, WorldType, SrvType

\* From w to v responses write and sockets drain: nothing else changes.
Tells(w, v) ==
    /\ v \in WorldType
    /\ SameSock(w.sock, v.sock)
    /\ v.sock.paused => w.sock.paused
    /\ v.srv.incoming = w.srv.incoming /\ v.srv.outgoing = w.srv.outgoing
    /\ v.srv.keepAliveTimeoutSet = w.srv.keepAliveTimeoutSet
    /\ v.req = w.req /\ v.closing = w.closing /\ v.failed = w.failed
    /\ \A x \in Messages :
          /\ v.res[x].keep = w.res[x].keep
          /\ v.res[x].finished = w.res[x].finished
          /\ v.res[x].destroyed = w.res[x].destroyed
          /\ v.res[x].writes = w.res[x].writes
          /\ v.res[x].last => w.res[x].last \/ ~w.res[x].keep
          /\ v.res[x].needDrain => w.res[x].needDrain

SameBuf(w, v) == v.sock.buf = w.sock.buf /\ v.sock.needDrain = w.sock.needDrain
SameOutputs(w, v) == \A x \in Messages : v.res[x].output = w.res[x].output

Counts(w, v, d) ==
    /\ Tells(w, v)
    /\ SameBuf(w, v)
    /\ SameOutputs(w, v)
    /\ v.srv.outgoingData = w.srv.outgoingData + d
    /\ v.sock.paused => v.srv.outgoingData > HighWaterMark
    /\ v.sock.message # NoMessage /\ ~v.res[v.sock.message].finished
         => ~v.res[v.sock.message].needDrain

\* Nothing happening is a step of this kind.
LEMMA TellsReflexive ==
  ASSUME NEW w \in WorldType
  PROVE  Tells(w, w)
BY DEF Tells, SameSock

\* Two steps of this kind make one.
LEMMA TellsTransitive ==
  ASSUME NEW u, NEW v, NEW w, Tells(u, v), Tells(v, w)
  PROVE  Tells(u, w)
<1>1. \A x \in Messages :
          /\ w.res[x].keep = u.res[x].keep
          /\ w.res[x].finished = u.res[x].finished
          /\ w.res[x].destroyed = u.res[x].destroyed
          /\ w.res[x].writes = u.res[x].writes
          /\ w.res[x].last => u.res[x].last \/ ~u.res[x].keep
          /\ w.res[x].needDrain => u.res[x].needDrain
  BY DEF Tells
<1> QED
  BY <1>1 DEF Tells, SameSock

\* The fields of a socket that is paused or resumed.
LEMMA PausedType ==
  ASSUME NEW s \in SockType, NEW p \in BOOLEAN
  PROVE  /\ [s EXCEPT !.paused = p] \in SockType
         /\ SameSock(s, [s EXCEPT !.paused = p])
         /\ [s EXCEPT !.paused = p].paused = p
         /\ [s EXCEPT !.paused = p].buf = s.buf
         /\ [s EXCEPT !.paused = p].needDrain = s.needDrain
BY DEF SockType, SameSock

\* socketOnDrain resumes the socket when the counter allows, and tells 'drain'
\* to the response that has it.
LEMMA SocketOnDrainEffect ==
  ASSUME NEW w \in WorldType
  PROVE  Counts(w, SocketOnDrain(w), 0)
<1> DEFINE m == w.sock.message
<1>1. /\ w.sock \in SockType /\ m \in 0..N /\ w.sock.paused \in BOOLEAN
      /\ w.srv.outgoingData \in Int
  BY DEF WorldType, SockType, SrvType
<1>2. PICK p \in BOOLEAN : p = (w.sock.paused /\ w.srv.outgoingData > HighWaterMark)
  BY <1>1
<1>3. PICK s : s = [w.sock EXCEPT !.paused = p]
  OBVIOUS
<1>4. s \in SockType /\ SameSock(w.sock, s) /\ s.paused = p
      /\ s.buf = w.sock.buf /\ s.needDrain = w.sock.needDrain
  BY <1>1, <1>3, PausedType
<1>5. PICK u : u = WithSock(w, s)
  OBVIOUS
<1>6. u \in WorldType /\ u.sock = s /\ u.srv = w.srv /\ u.req = w.req /\ u.res = w.res
      /\ u.closing = w.closing /\ u.failed = w.failed
  BY <1>4, <1>5, WithSockType
<1>7. CASE m # NoMessage /\ ~w.res[m].finished
  <2>1. m \in Messages
    BY <1>1, <1>7 DEF Messages, NoMessage
  <2>2. PICK d \in BOOLEAN : d = FALSE
    OBVIOUS
  <2>3. PICK c : c = [w.res[m] EXCEPT !.needDrain = d]
    OBVIOUS
  <2>4. w.res[m] \in ResType
    BY <2>1 DEF WorldType
  <2>5. c \in ResType /\ c.output = w.res[m].output /\ c.needDrain = d /\ SameRes(w.res[m], c)
    BY <2>3, <2>4, NeedDrainType
  <2>6. PICK v : v = WithRes(u, m, c)
    OBVIOUS
  <2>7. /\ v \in WorldType
        /\ v.res[m] = c
        /\ \A x \in Messages : x # m => v.res[x] = w.res[x]
        /\ v.sock = s /\ v.srv = w.srv
        /\ v.req = w.req
        /\ v.closing = w.closing /\ v.failed = w.failed
    BY <1>6, <2>1, <2>5, <2>6, WithResType
  <2>8. SocketOnDrain(w) = v
    BY <1>2, <1>3, <1>5, <1>7, <2>2, <2>3, <2>6
    DEF SocketOnDrain, WithSock, WithRes, WorldType
  <2> HIDE DEF m
  <2>9. \A x \in Messages :
          /\ v.res[x].keep = w.res[x].keep
          /\ v.res[x].finished = w.res[x].finished
          /\ v.res[x].destroyed = w.res[x].destroyed
          /\ v.res[x].writes = w.res[x].writes
          /\ v.res[x].last => w.res[x].last \/ ~w.res[x].keep
          /\ v.res[x].needDrain => w.res[x].needDrain
          /\ v.res[x].output = w.res[x].output
    BY <2>2, <2>5, <2>7 DEF SameRes
  <2>10. v.sock.message = m
    BY <1>4, <2>7 DEF SameSock, m
  <2>11. Counts(w, v, 0)
    BY <1>1, <1>2, <1>4, <2>2, <2>5, <2>7, <2>9, <2>10
    DEF Counts, Tells, SameBuf, SameOutputs, SameSock, SameRes
  <2> QED
    BY <2>8, <2>11
<1>8. CASE ~(m # NoMessage /\ ~w.res[m].finished)
  <2>1. SocketOnDrain(w) = u
    BY <1>2, <1>3, <1>5, <1>8 DEF SocketOnDrain, WithSock, WorldType
  <2>2. Tells(w, u)
    BY <1>2, <1>4, <1>6 DEF Tells, SameSock
  <2>3. u.srv.outgoingData = w.srv.outgoingData + 0
    BY <1>1, <1>6
  <2>4. u.sock.paused => u.srv.outgoingData > HighWaterMark
    BY <1>2, <1>4, <1>6
  <2>5. u.sock.message = m
    BY <1>4, <1>6 DEF SameSock
  <2> HIDE DEF m
  <2>6. Counts(w, u, 0)
    BY <1>4, <1>6, <1>8, <2>2, <2>3, <2>4, <2>5 DEF Counts, SameBuf, SameOutputs
  <2> QED
    BY <2>1, <2>6
<1> QED
  BY <1>7, <1>8

\* updateOutgoingData adds d to the counter, and drains at once when it can.
LEMMA UpdateOutgoingDataEffect ==
  ASSUME NEW w \in WorldType, NEW d \in Int
  PROVE  Counts(w, UpdateOutgoingData(w, d), d)
<1>1. w.srv.outgoingData \in Int
  BY DEF WorldType, SrvType
<1>2. PICK k \in Int : k = w.srv.outgoingData + d
  BY <1>1
<1>3. PICK u : u = WithCount(w, k)
  OBVIOUS
<1>4. /\ u \in WorldType
      /\ u.sock = w.sock /\ u.req = w.req
      /\ u.res = w.res
      /\ u.closing = w.closing /\ u.failed = w.failed
      /\ u.srv.outgoingData = k
      /\ u.srv.incoming = w.srv.incoming
      /\ u.srv.outgoing = w.srv.outgoing
      /\ u.srv.keepAliveTimeoutSet = w.srv.keepAliveTimeoutSet
  BY <1>3, CountType
<1>5. UpdateOutgoingData(w, d) = SocketOnDrain(u)
  BY <1>2, <1>3 DEF UpdateOutgoingData, WithCount
<1>6. PICK v : v = SocketOnDrain(u)
  OBVIOUS
<1>7. Counts(u, v, 0)
  BY <1>4, <1>6, SocketOnDrainEffect
<1>8. Counts(w, v, d)
  <2>1. v.srv.outgoingData = w.srv.outgoingData + d
    BY <1>1, <1>2, <1>4, <1>7 DEF Counts
  <2>2. Tells(w, v)
    BY <1>4, <1>7 DEF Counts, Tells, SameSock
  <2> QED
    BY <1>4, <1>7, <2>1, <2>2 DEF Counts, SameBuf, SameOutputs
<1> QED
  BY <1>5, <1>6, <1>8

SameOthers(w, v, r) == \A x \in Messages : x # r => v.res[x].output = w.res[x].output

\* What the counter of queued pieces is off by, but for the queue of r.
Uncounted(w, r) == w.srv.outgoingData - Len(w.res[r].output)

Flushes(w, v, r) ==
    LET out == w.res[r].output
    IN  /\ Tells(w, v)
        /\ SameOthers(w, v, r)
        /\ v.res[r].output \in Seq(Pieces) /\ Len(v.res[r].output) = 0
        /\ v.srv.outgoingData = w.srv.outgoingData - Len(out)
        /\ v.sock.buf = w.sock.buf \o out
        /\ w.sock.needDrain => v.sock.needDrain
        /\ v.sock.needDrain => w.sock.needDrain \/ Len(v.sock.buf) >= HighWaterMark
        /\ Len(out) > 0 /\ Len(v.sock.buf) >= HighWaterMark => v.sock.needDrain
        /\ Len(out) > 0 /\ v.sock.paused => v.srv.outgoingData > HighWaterMark
        /\ Len(out) = 0 => v = w

\* The types of the fields.
LEMMA WorldFields ==
  ASSUME NEW w \in WorldType
  PROVE  /\ w.sock \in SockType
         /\ w.sock.buf \in Seq(Pieces) /\ w.sock.needDrain \in BOOLEAN
         /\ w.sock.message \in 0..N
         /\ w.sock.state \in {"open", "ended", "destroyed", "closed"}
         /\ w.srv.incoming \in Seq(Messages) /\ w.srv.outgoing \in Seq(Messages)
         /\ w.srv.outgoingData \in Int
         /\ w.srv.keepAliveTimeoutSet \in BOOLEAN
         /\ w.closing \in SUBSET Messages
         /\ w.failed \in BOOLEAN
BY DEF WorldType, SockType, SrvType

\* The types of the fields of a response.
LEMMA ResFields ==
  ASSUME NEW w \in WorldType, NEW r \in Messages
  PROVE  /\ w.res[r] \in ResType
         /\ w.res[r].output \in Seq(Pieces)
         /\ w.res[r].keep \in BOOLEAN /\ w.res[r].last \in BOOLEAN
         /\ w.res[r].header \in BOOLEAN /\ w.res[r].needDrain \in BOOLEAN
         /\ w.res[r].finished \in BOOLEAN /\ w.res[r].destroyed \in BOOLEAN
         /\ w.res[r].writes \in 0..MaxWrites
BY DEF WorldType, ResType

\* A response whose queue is set.
LEMMA WithOutputEffect ==
  ASSUME NEW w \in WorldType, NEW r \in Messages, NEW q \in Seq(Pieces)
  PROVE  /\ Tells(w, WithOutput(w, r, q))
         /\ SameBuf(w, WithOutput(w, r, q))
         /\ SameOthers(w, WithOutput(w, r, q), r)
         /\ WithOutput(w, r, q).res[r].output = q
         /\ WithOutput(w, r, q).srv.outgoingData = w.srv.outgoingData
         /\ WithOutput(w, r, q).sock.paused = w.sock.paused
<1>1. w.res[r] \in ResType
  BY ResFields
<1>2. PICK c : c = [w.res[r] EXCEPT !.output = q]
  OBVIOUS
<1>3. c \in ResType /\ c.output = q /\ c.needDrain = w.res[r].needDrain /\ SameRes(w.res[r], c)
  BY <1>1, <1>2, OutputType
<1>4. PICK v : v = WithRes(w, r, c)
  OBVIOUS
<1>5. /\ v \in WorldType
      /\ v.res[r] = c
      /\ \A x \in Messages : x # r => v.res[x] = w.res[x]
      /\ v.sock = w.sock /\ v.srv = w.srv
      /\ v.req = w.req
      /\ v.closing = w.closing /\ v.failed = w.failed
  BY <1>3, <1>4, WithResType
<1>6. WithOutput(w, r, q) = v
  BY <1>2, <1>4 DEF WithOutput, WithRes
<1>7. \A x \in Messages :
          /\ v.res[x].keep = w.res[x].keep
          /\ v.res[x].finished = w.res[x].finished
          /\ v.res[x].destroyed = w.res[x].destroyed
          /\ v.res[x].writes = w.res[x].writes
          /\ v.res[x].last => w.res[x].last \/ ~w.res[x].keep
          /\ v.res[x].needDrain => w.res[x].needDrain
  BY <1>3, <1>5 DEF SameRes
<1>8. Tells(w, v)
  BY <1>5, <1>7 DEF Tells, SameSock
<1>9. SameBuf(w, v) /\ SameOthers(w, v, r) /\ v.res[r].output = q
      /\ v.srv.outgoingData = w.srv.outgoingData /\ v.sock.paused = w.sock.paused
  BY <1>3, <1>5 DEF SameBuf, SameOthers
<1> QED
  BY <1>6, <1>8, <1>9

\* _flushOutput moves the queue of r to the socket and takes it off the counter.
LEMMA FlushOutputEffect ==
  ASSUME NEW w \in WorldType, NEW r \in Messages
  PROVE  Flushes(w, FlushOutput(w, r), r)
<1>1. PICK out : out = w.res[r].output
  OBVIOUS
<1>2. out \in Seq(Pieces) /\ w.sock.buf \in Seq(Pieces) /\ Len(out) \in Nat
      /\ w.srv.outgoingData \in Int
  BY <1>1, ResFields, WorldFields
<1>3. CASE out = <<>>
  <2>1. FlushOutput(w, r) = w
    BY <1>1, <1>3 DEF FlushOutput
  <2>2. Len(out) = 0 /\ w.sock.buf \o out = w.sock.buf
    BY <1>2, <1>3
  <2>3. Tells(w, w)
    BY TellsReflexive
  <2>4. Flushes(w, w, r)
    BY <1>1, <1>2, <2>2, <2>3 DEF Flushes, SameOthers
  <2> QED
    BY <2>1, <2>4
<1>4. CASE out # <<>>
  <2>1. PICK u : u = SocketWrite(w, out)
    OBVIOUS
  <2>2. Sends(w, u, out)
    BY <1>2, <2>1, SocketWriteEffect
  <2>3. u \in WorldType
    BY <2>2 DEF Sends
  <2>4. <<>> \in Seq(Pieces) /\ Len(<<>>) = 0
    OBVIOUS
  <2>5. PICK e : e = <<>> /\ e \in Seq(Pieces)
    BY <2>4
  <2>6. PICK t : t = WithOutput(u, r, e)
    OBVIOUS
  <2>7. /\ Tells(u, t) /\ SameBuf(u, t) /\ SameOthers(u, t, r)
        /\ t.res[r].output = e /\ t.srv.outgoingData = u.srv.outgoingData
    BY <2>3, <2>5, <2>6, WithOutputEffect
  <2>8. t \in WorldType
    BY <2>7 DEF Tells
  <2>9. PICK d \in Int : d = -Len(out)
    BY <1>2
  <2>10. PICK v : v = UpdateOutgoingData(t, d)
    OBVIOUS
  <2>11. Counts(t, v, d)
    BY <2>8, <2>10, UpdateOutgoingDataEffect
  <2>12. FlushOutput(w, r) = v
    BY <1>1, <1>4, <2>1, <2>5, <2>6, <2>9, <2>10 DEF FlushOutput, WithOutput
  <2>13. Tells(w, u)
    BY <2>2 DEF Sends, Tells
  <2>14. Tells(w, v)
    <3>1. Tells(t, v)
      BY <2>11 DEF Counts
    <3>2. Tells(w, t)
      BY <2>7, <2>13, TellsTransitive
    <3> QED
      BY <3>1, <3>2, TellsTransitive
  <2>15. v.sock.buf = w.sock.buf \o out
         /\ v.sock.needDrain = (w.sock.needDrain \/ Len(v.sock.buf) >= HighWaterMark)
    BY <2>2, <2>7, <2>11 DEF Sends, SameBuf, Counts
  <2>16. SameOthers(w, v, r) /\ v.res[r].output = e
    BY <2>2, <2>7, <2>11 DEF Sends, SameOthers, Counts, SameOutputs
  <2>17. v.srv.outgoingData = w.srv.outgoingData - Len(out)
    BY <1>2, <2>2, <2>7, <2>9, <2>11 DEF Sends, Counts
  <2>18. v.sock.paused => v.srv.outgoingData > HighWaterMark
    BY <2>11 DEF Counts
  <2>19. Len(out) # 0 /\ Len(e) = 0
    BY <1>2, <1>4, <2>5
  <2>20. Flushes(w, v, r)
    BY <1>1, <1>2, <2>5, <2>14, <2>15, <2>16, <2>17, <2>18, <2>19 DEF Flushes
  <2> QED
    BY <2>12, <2>20
<1> QED
  BY <1>3, <1>4

HasTurn(w, r) == w.sock.message = r /\ w.sock.state = "open"
Gone(w, r) == w.sock.message = r /\ ~Alive(w)

Raw(w, v, r, piece) ==
    LET out == w.res[r].output
    IN  /\ Tells(w, v)
        /\ SameOthers(w, v, r)
        /\ Uncounted(v, r) = Uncounted(w, r)
        /\ Gone(w, r) => v = w
        /\ HasTurn(w, r) =>
             /\ Len(v.res[r].output) = 0
             /\ v.sock.buf = (w.sock.buf \o out) \o <<piece>>
             /\ w.sock.needDrain => v.sock.needDrain
             /\ Len(v.sock.buf) >= HighWaterMark => v.sock.needDrain
        /\ ~HasTurn(w, r) => SameBuf(w, v)
        /\ ~HasTurn(w, r) /\ ~Gone(w, r) => v.res[r].output = Append(out, piece)

\* _writeRaw: piece goes to the socket when r has it, and to r's queue otherwise.
LEMMA WriteRawEffect ==
  ASSUME NEW w \in WorldType, NEW r \in Messages, NEW piece \in Pieces
  PROVE  Raw(w, WriteRaw(w, r, piece), r, piece)
<1>1. PICK out : out = w.res[r].output
  OBVIOUS
<1>2. out \in Seq(Pieces) /\ w.sock.buf \in Seq(Pieces) /\ Len(out) \in Nat
      /\ w.srv.outgoingData \in Int
  BY <1>1, ResFields, WorldFields
<1>3. CASE Gone(w, r)
  <2>1. WriteRaw(w, r, piece) = w
    BY <1>3 DEF Gone, WriteRaw
  <2>2. Tells(w, w)
    BY TellsReflexive
  <2>3. ~HasTurn(w, r)
    BY <1>3 DEF Gone, HasTurn, Alive
  <2>4. Raw(w, w, r, piece)
    BY <1>3, <2>2, <2>3 DEF Raw, SameOthers, SameBuf
  <2> QED
    BY <2>1, <2>4
<1>4. CASE ~Gone(w, r) /\ HasTurn(w, r)
  <2>1. PICK u : u = FlushOutput(w, r)
    OBVIOUS
  <2>2. Flushes(w, u, r)
    BY <2>1, FlushOutputEffect
  <2>3. u \in WorldType
    BY <2>2 DEF Flushes, Tells
  <2>4. PICK q : q = <<piece>> /\ q \in Seq(Pieces)
    BY OneElement
  <2>5. PICK v : v = SocketWrite(u, q)
    OBVIOUS
  <2>6. Sends(u, v, q)
    BY <2>3, <2>4, <2>5, SocketWriteEffect
  <2>7. WriteRaw(w, r, piece) = v
    BY <1>4, <2>1, <2>4, <2>5 DEF Gone, HasTurn, WriteRaw
  <2>8. Tells(w, v)
    <3>1. Tells(w, u)
      BY <2>2 DEF Flushes
    <3>2. Tells(u, v)
      BY <2>6 DEF Sends, Tells
    <3> QED
      BY <3>1, <3>2, TellsTransitive
  <2>9. /\ v.sock.buf = (w.sock.buf \o out) \o q
        /\ w.sock.needDrain => v.sock.needDrain
        /\ Len(v.sock.buf) >= HighWaterMark => v.sock.needDrain
    BY <1>1, <2>2, <2>6 DEF Flushes, Sends
  <2>10. SameOthers(w, v, r) /\ Len(v.res[r].output) = 0
         /\ v.srv.outgoingData = w.srv.outgoingData - Len(out)
    BY <1>1, <2>2, <2>6 DEF Flushes, Sends, SameOthers
  <2>11. Uncounted(v, r) = Uncounted(w, r)
    BY <1>1, <1>2, <2>10 DEF Uncounted
  <2>12. Raw(w, v, r, piece)
    BY <1>1, <1>4, <2>4, <2>8, <2>9, <2>10, <2>11 DEF Raw
  <2> QED
    BY <2>7, <2>12
<1>5. CASE ~Gone(w, r) /\ ~HasTurn(w, r)
  <2>1. PICK q : q = Append(out, piece)
    OBVIOUS
  <2>2. q \in Seq(Pieces) /\ Len(q) = Len(out) + 1
    BY <1>2, <2>1
  <2>3. PICK u : u = WithOutput(w, r, q)
    OBVIOUS
  <2>4. /\ Tells(w, u) /\ SameBuf(w, u) /\ SameOthers(w, u, r)
        /\ u.res[r].output = q /\ u.srv.outgoingData = w.srv.outgoingData
    BY <2>2, <2>3, WithOutputEffect
  <2>5. u \in WorldType
    BY <2>4 DEF Tells
  <2>6. PICK d \in Int : d = 1
    OBVIOUS
  <2>7. PICK v : v = UpdateOutgoingData(u, d)
    OBVIOUS
  <2>8. Counts(u, v, d)
    BY <2>5, <2>7, UpdateOutgoingDataEffect
  <2>9. WriteRaw(w, r, piece) = v
    BY <1>1, <1>5, <2>1, <2>3, <2>6, <2>7 DEF Gone, HasTurn, WriteRaw, WithOutput
  <2>10. Tells(w, v)
    <3>1. Tells(u, v)
      BY <2>8 DEF Counts
    <3> QED
      BY <2>4, <3>1, TellsTransitive
  <2>11. SameBuf(w, v) /\ SameOthers(w, v, r) /\ v.res[r].output = q
    BY <2>4, <2>8 DEF SameBuf, SameOthers, Counts, SameOutputs
  <2>12. Uncounted(v, r) = Uncounted(w, r)
    <3>1. v.srv.outgoingData = w.srv.outgoingData + 1
      BY <2>4, <2>6, <2>8 DEF Counts
    <3>2. Len(v.res[r].output) = Len(out) + 1
      BY <2>2, <2>11
    <3>3. PICK k \in Int : k = w.srv.outgoingData
      BY <1>2
    <3>4. PICK l \in Nat : l = Len(out)
      BY <1>2
    <3>5. Uncounted(v, r) = (k + 1) - (l + 1) /\ Uncounted(w, r) = k - l
      BY <1>1, <3>1, <3>2, <3>3, <3>4 DEF Uncounted
    <3> QED
      BY <3>5
  <2>13. Raw(w, v, r, piece)
    BY <1>1, <1>5, <2>1, <2>10, <2>11, <2>12 DEF Raw
  <2> QED
    BY <2>9, <2>13
<1> QED
  BY <1>3, <1>4, <1>5

WithHeader(c, h, l) == [c EXCEPT !.header = h, !.last = l]

\* The fields of a response whose header is set.
LEMMA WithHeaderType ==
  ASSUME NEW c \in ResType, NEW h \in BOOLEAN, NEW l \in BOOLEAN
  PROVE  /\ WithHeader(c, h, l) \in ResType
         /\ WithHeader(c, h, l).output = c.output
         /\ WithHeader(c, h, l).needDrain = c.needDrain
         /\ WithHeader(c, h, l).keep = c.keep
         /\ WithHeader(c, h, l).writes = c.writes
         /\ WithHeader(c, h, l).last = l
         /\ WithHeader(c, h, l).finished = c.finished
         /\ WithHeader(c, h, l).destroyed = c.destroyed
BY DEF ResType, WithHeader

\* _storeHeader may make the response the last one, if it does not keep alive.
LEMMA StoreHeaderEffect ==
  ASSUME NEW w \in WorldType, NEW r \in Messages
  PROVE  LET v == StoreHeader(w, r)
         IN  /\ Tells(w, v)
             /\ SameBuf(w, v) /\ SameOutputs(w, v)
             /\ v.srv.outgoingData = w.srv.outgoingData
<1>1. w.res[r] \in ResType
  BY ResFields
<1>2. PICK l \in BOOLEAN : l = (w.res[r].last \/ ~w.res[r].keep)
  BY ResFields
<1>3. PICK h \in BOOLEAN : h = TRUE
  OBVIOUS
<1>4. PICK c : c = WithHeader(w.res[r], h, l)
  OBVIOUS
<1>5. /\ c \in ResType
      /\ c.output = w.res[r].output /\ c.needDrain = w.res[r].needDrain
      /\ c.keep = w.res[r].keep /\ c.writes = w.res[r].writes /\ c.last = l
      /\ c.finished = w.res[r].finished /\ c.destroyed = w.res[r].destroyed
  BY <1>1, <1>4, WithHeaderType
<1>6. PICK v : v = WithRes(w, r, c)
  OBVIOUS
<1>7. /\ v \in WorldType
      /\ v.res[r] = c
      /\ \A x \in Messages : x # r => v.res[x] = w.res[x]
      /\ v.sock = w.sock /\ v.srv = w.srv
      /\ v.req = w.req
      /\ v.closing = w.closing /\ v.failed = w.failed
  BY <1>5, <1>6, WithResType
<1>8. StoreHeader(w, r) = v
  BY <1>2, <1>3, <1>4, <1>6 DEF StoreHeader, WithHeader, WithRes, WorldType
<1>9. \A x \in Messages :
          /\ v.res[x].keep = w.res[x].keep
          /\ v.res[x].finished = w.res[x].finished
          /\ v.res[x].destroyed = w.res[x].destroyed
          /\ v.res[x].writes = w.res[x].writes
          /\ v.res[x].last => w.res[x].last \/ ~w.res[x].keep
          /\ v.res[x].needDrain => w.res[x].needDrain
          /\ v.res[x].output = w.res[x].output
  BY <1>2, <1>5, <1>7
<1>10. Tells(w, v)
  BY <1>7, <1>9 DEF Tells, SameSock
<1>11. SameBuf(w, v) /\ SameOutputs(w, v) /\ v.srv.outgoingData = w.srv.outgoingData
  BY <1>7, <1>9 DEF SameBuf, SameOutputs
<1> QED
  BY <1>8, <1>10, <1>11

\* Pieces of the response r, of which only the last one may end it.
Tagged(q, r) == \A i \in 1..Len(q) : q[i].of = r /\ q[i].part # "error"
NoEnd(q) == \A i \in 1..Len(q) : ~P!EndsResponse(q[i])
EndLast(q) == \A i \in 1..Len(q) : P!EndsResponse(q[i]) => i = Len(q)

\* Pieces of one response, the last of which is piece.
Pieces1(q, piece) == /\ Tagged(q, piece.of) /\ EndLast(q)
                     /\ ~P!EndsResponse(piece) => NoEnd(q)

\* A response puts pieces on the socket, or on its queue; the last is piece.
Emission(w, v, piece) ==
    LET r == piece.of
    IN  /\ SameOthers(w, v, r)
        /\ Uncounted(v, r) = Uncounted(w, r)
        /\ Pieces1(v.res[r].output, piece)
        /\ HasTurn(w, r) =>
             /\ Len(v.res[r].output) = 0
             /\ w.sock.needDrain => v.sock.needDrain
             /\ Len(v.sock.buf) >= HighWaterMark => v.sock.needDrain
             /\ \E q \in Seq(Pieces) : /\ Pieces1(q, piece) /\ Len(q) > 0
                                       /\ v.sock.buf = w.sock.buf \o q
        /\ ~HasTurn(w, r) => SameBuf(w, v) /\ Len(v.res[r].output) >= Len(w.res[r].output)
        /\ w.sock.message # r => Len(v.res[r].output) > 0

\* One more piece at the end of a queue of the same response.
LEMMA AppendPiece ==
  ASSUME NEW q \in Seq(Pieces), NEW piece \in Pieces, Tagged(q, piece.of), NoEnd(q),
         piece.part # "error"
  PROVE  /\ Append(q, piece) \in Seq(Pieces)
         /\ Len(Append(q, piece)) = Len(q) + 1
         /\ Append(q, piece) = q \o <<piece>>
         /\ Pieces1(Append(q, piece), piece)
<1>1. PICK t : t = Append(q, piece)
  OBVIOUS
<1>2. /\ t \in Seq(Pieces) /\ Len(t) = Len(q) + 1 /\ t = q \o <<piece>>
      /\ \A i \in 1..Len(q) : t[i] = q[i]
      /\ t[Len(q) + 1] = piece
  BY <1>1
<1>3. \A i \in 1..Len(t) : i = Len(t) \/ i \in 1..Len(q)
  BY <1>2
<1>4. Tagged(t, piece.of) /\ EndLast(t)
  BY <1>2, <1>3 DEF Tagged, EndLast, NoEnd
<1>5. ~P!EndsResponse(piece) => NoEnd(t)
  BY <1>2, <1>3 DEF NoEnd
<1> QED
  BY <1>1, <1>2, <1>4, <1>5 DEF Pieces1

\* Concatenation is associative.
LEMMA PiecesConcat ==
  ASSUME NEW a \in Seq(Pieces), NEW b \in Seq(Pieces), NEW c \in Seq(Pieces)
  PROVE  (a \o b) \o c = a \o (b \o c)
OBVIOUS

\* What _writeRaw does, in the terms of the invariant.
LEMMA RawEmission ==
  ASSUME NEW w \in WorldType, NEW v, NEW piece \in Pieces, piece.of \in Messages,
         piece.part # "error",
         Tagged(w.res[piece.of].output, piece.of), NoEnd(w.res[piece.of].output),
         Raw(w, v, piece.of, piece)
  PROVE  Emission(w, v, piece)
<1>1. PICK r : r = piece.of /\ r \in Messages
  OBVIOUS
<1>2. PICK out : out = w.res[r].output
  OBVIOUS
<1>3. out \in Seq(Pieces) /\ w.sock.buf \in Seq(Pieces) /\ Tagged(out, r) /\ NoEnd(out)
      /\ Len(out) \in Nat
  BY <1>1, <1>2, ResFields, WorldFields
<1>4. PICK t : t = Append(out, piece)
  OBVIOUS
<1>5. /\ t \in Seq(Pieces) /\ Len(t) = Len(out) + 1 /\ t = out \o <<piece>>
      /\ Pieces1(t, piece)
  BY <1>1, <1>3, <1>4, AppendPiece
<1>6. v \in WorldType
  BY DEF Raw, Tells
<1>7. PICK new : new = v.res[r].output
  OBVIOUS
<1>8. new \in Seq(Pieces)
  BY <1>1, <1>6, <1>7, ResFields
<1>9. \A q \in Seq(Pieces) : Len(q) = 0 => Pieces1(q, piece)
  BY DEF Pieces1, Tagged, EndLast, NoEnd
<1>10. Pieces1(out, piece)
  BY <1>1, <1>3 DEF Pieces1, EndLast, NoEnd
<1>11. CASE HasTurn(w, r)
  <2>1. /\ Len(new) = 0
        /\ v.sock.buf = (w.sock.buf \o out) \o <<piece>>
        /\ w.sock.needDrain => v.sock.needDrain
        /\ Len(v.sock.buf) >= HighWaterMark => v.sock.needDrain
    BY <1>1, <1>2, <1>7, <1>11 DEF Raw
  <2>2. <<piece>> \in Seq(Pieces)
    BY OneElement
  <2>3. v.sock.buf = w.sock.buf \o t
    <3>1. PICK one : one = <<piece>> /\ one \in Seq(Pieces)
      BY <2>2
    <3>2. w.sock.buf \in Seq(Pieces) /\ out \in Seq(Pieces) /\ one \in Seq(Pieces)
      BY <1>3, <3>1
    <3>3. (w.sock.buf \o out) \o one = w.sock.buf \o (out \o one)
      BY <3>2, PiecesConcat
    <3> QED
      BY <1>5, <2>1, <3>1, <3>3
  <2>4. Len(t) > 0
    BY <1>3, <1>5
  <2>5. \E q \in Seq(Pieces) : /\ Pieces1(q, piece) /\ Len(q) > 0
                               /\ v.sock.buf = w.sock.buf \o q
    BY <1>5, <2>3, <2>4
  <2>6. w.sock.message = r
    BY <1>11 DEF HasTurn
  <2> QED
    BY <1>1, <1>7, <1>8, <1>9, <1>11, <2>1, <2>5, <2>6 DEF Emission, Raw
<1>12. CASE ~HasTurn(w, r)
  <2>1. SameBuf(w, v)
    BY <1>1, <1>12 DEF Raw
  <2>2. Gone(w, r) => new = out
    BY <1>1, <1>2, <1>7 DEF Raw
  <2>3. ~Gone(w, r) => new = t
    BY <1>1, <1>2, <1>4, <1>7, <1>12 DEF Raw
  <2>4. Pieces1(new, piece) /\ Len(new) >= Len(out)
    <3>1. CASE Gone(w, r)
      BY <1>3, <1>10, <2>2, <3>1
    <3>2. CASE ~Gone(w, r)
      <4>1. Len(new) = Len(out) + 1
        BY <1>5, <2>3, <3>2
      <4>2. Len(new) >= Len(out)
        BY <1>3, <4>1
      <4> QED
        BY <1>5, <2>3, <3>2, <4>2
    <3> QED
      BY <3>1, <3>2
  <2>5. w.sock.message # r => Len(new) > 0
    BY <1>3, <1>5, <2>3 DEF Gone
  <2> QED
    BY <1>1, <1>2, <1>7, <1>12, <2>1, <2>4, <2>5 DEF Emission, Raw
<1> QED
  BY <1>11, <1>12

\* The same, of the operator itself.
LEMMA WriteRawEmission ==
  ASSUME NEW w \in WorldType, NEW piece \in Pieces, piece.of \in Messages,
         piece.part # "error",
         Tagged(w.res[piece.of].output, piece.of), NoEnd(w.res[piece.of].output)
  PROVE  /\ Tells(w, WriteRaw(w, piece.of, piece))
         /\ Emission(w, WriteRaw(w, piece.of, piece), piece)
<1>1. Raw(w, WriteRaw(w, piece.of, piece), piece.of, piece)
  BY WriteRawEffect
<1>2. Emission(w, WriteRaw(w, piece.of, piece), piece)
  BY <1>1, RawEmission
<1> QED
  BY <1>1, <1>2 DEF Raw

\* What emits after a step that moves nothing to the socket emits all the same.
LEMMA EmissionAfter ==
  ASSUME NEW u, NEW v, NEW w, NEW piece, Tells(u, v), SameBuf(u, v),
         SameOthers(u, v, piece.of), Uncounted(v, piece.of) = Uncounted(u, piece.of),
         Len(v.res[piece.of].output) >= Len(u.res[piece.of].output),
         Len(u.res[piece.of].output) \in Nat, Len(v.res[piece.of].output) \in Nat,
         Len(w.res[piece.of].output) \in Nat,
         Emission(v, w, piece)
  PROVE  Emission(u, w, piece)
<1>1. HasTurn(v, piece.of) <=> HasTurn(u, piece.of)
  BY DEF HasTurn, Tells, SameSock
<1>2. SameOthers(u, w, piece.of) /\ Uncounted(w, piece.of) = Uncounted(u, piece.of)
      /\ Pieces1(w.res[piece.of].output, piece)
  BY DEF SameOthers, Emission
<1>3. HasTurn(u, piece.of) =>
             /\ Len(w.res[piece.of].output) = 0
             /\ u.sock.needDrain => w.sock.needDrain
             /\ Len(w.sock.buf) >= HighWaterMark => w.sock.needDrain
             /\ \E q \in Seq(Pieces) : /\ Pieces1(q, piece) /\ Len(q) > 0
                                       /\ w.sock.buf = u.sock.buf \o q
  BY <1>1 DEF Emission, SameBuf
<1>4. ~HasTurn(u, piece.of) => SameBuf(u, w)
                               /\ Len(w.res[piece.of].output) >= Len(u.res[piece.of].output)
  <2>1. SUFFICES ASSUME ~HasTurn(u, piece.of)
                 PROVE  SameBuf(u, w)
                        /\ Len(w.res[piece.of].output) >= Len(u.res[piece.of].output)
    OBVIOUS
  <2>2. SameBuf(v, w) /\ Len(w.res[piece.of].output) >= Len(v.res[piece.of].output)
    BY <1>1, <2>1 DEF Emission
  <2>3. SameBuf(u, w)
    BY <2>2 DEF SameBuf
  <2>4. \A i, j, k \in Nat : k >= j /\ j >= i => k >= i
    OBVIOUS
  <2> QED
    BY <2>2, <2>3, <2>4
<1>5. u.sock.message # piece.of => Len(w.res[piece.of].output) > 0
  BY DEF Emission, Tells, SameSock
<1> QED
  BY <1>2, <1>3, <1>4, <1>5 DEF Emission

\* What the program is told when it may not go on writing.
Full(w, r) == IF w.sock.message = r
              THEN w.sock.state = "open" => Len(w.sock.buf) >= HighWaterMark
              ELSE Len(w.res[r].output) >= HighWaterMark

\* A call of the program on a response, whose last piece is piece.
Writes(w, v, piece) ==
    LET r == piece.of
    IN  /\ v \in WorldType
        /\ SameSock(w.sock, v.sock)
        /\ v.sock.paused => w.sock.paused
        /\ v.srv.incoming = w.srv.incoming /\ v.srv.outgoing = w.srv.outgoing
        /\ v.srv.keepAliveTimeoutSet = w.srv.keepAliveTimeoutSet
        /\ v.req = w.req /\ v.closing = w.closing /\ v.failed = w.failed
        /\ \A x \in Messages :
              /\ v.res[x].keep = w.res[x].keep
              /\ v.res[x].destroyed = w.res[x].destroyed
              /\ v.res[x].last => w.res[x].last \/ ~w.res[x].keep
              /\ x # r => /\ v.res[x].finished = w.res[x].finished
                          /\ v.res[x].needDrain => w.res[x].needDrain
        /\ P!EndsResponse(piece) => v.res[r].finished
        /\ ~P!EndsResponse(piece) =>
              /\ v.res[r].finished = w.res[r].finished
              /\ v.res[r].needDrain => w.res[r].needDrain \/ Full(v, r)
        /\ Emission(w, v, piece)

\* What the pieces of a response are.
LEMMA PieceType ==
  ASSUME NEW r \in Messages, NEW part \in P!Parts
  PROVE  P!Piece(r, part) \in Pieces /\ P!Piece(r, part).of = r /\ P!Piece(r, part).part = part
BY ServerAssumption DEF P!Piece, Pieces, Messages

\* The header goes before the first piece.
LEMMA PrependPiece ==
  ASSUME NEW q \in Seq(Pieces), NEW piece \in Pieces, Tagged(q, piece.of), NoEnd(q),
         piece.part # "error", ~P!EndsResponse(piece)
  PROVE  /\ <<piece>> \o q \in Seq(Pieces)
         /\ Len(<<piece>> \o q) = Len(q) + 1
         /\ Tagged(<<piece>> \o q, piece.of) /\ NoEnd(<<piece>> \o q)
<1>1. PICK one : one = <<piece>> /\ one \in Seq(Pieces) /\ Len(one) = 1 /\ one[1] = piece
  BY OneElement
<1>2. PICK t : t = one \o q
  OBVIOUS
<1>3. t \in Seq(Pieces) /\ Len(t) = Len(q) + 1
  BY <1>1, <1>2
<1>4. \A i \in 1..Len(t) : t[i] = piece \/ \E j \in 1..Len(q) : t[i] = q[j]
  <2>1. SUFFICES ASSUME NEW i \in 1..Len(t)
                 PROVE  t[i] = piece \/ \E j \in 1..Len(q) : t[i] = q[j]
    OBVIOUS
  <2>2. CASE i = 1
    BY <1>1, <1>2, <2>2
  <2>3. CASE i > 1
    <3>1. i - 1 \in 1..Len(q) /\ t[i] = q[i - 1]
      BY <1>1, <1>2, <1>3, <2>3
    <3> QED
      BY <3>1
  <2> QED
    BY <2>2, <2>3
<1>5. Tagged(t, piece.of) /\ NoEnd(t)
  BY <1>4 DEF Tagged, NoEnd
<1> QED
  BY <1>1, <1>2, <1>3, <1>5

\* _send: the header, if it is not sent yet, then the piece.
LEMMA SendEmission ==
  ASSUME NEW w \in WorldType, NEW r \in Messages, NEW buffer,
         NEW part \in P!Parts, NEW whole \in P!Parts,
         part # "error", whole # "error",
         Tagged(w.res[r].output, r), NoEnd(w.res[r].output)
  PROVE  \E piece \in Pieces : /\ piece.of = r /\ piece.part \in {part, whole}
                               /\ Tells(w, Send(w, r, buffer, part, whole))
                               /\ Emission(w, Send(w, r, buffer, part, whole), piece)
<1>1. PICK p \in Pieces : p = P!Piece(r, part) /\ p.of = r /\ p.part = part
  BY PieceType
<1>2. PICK h \in Pieces : h = P!Piece(r, whole) /\ h.of = r /\ h.part = whole
  BY PieceType
<1>3. PICK out : out = w.res[r].output
  OBVIOUS
<1>4. out \in Seq(Pieces) /\ Tagged(out, r) /\ NoEnd(out) /\ Len(out) \in Nat
  BY <1>3, ResFields
<1>5. CASE w.res[r].header
  <2>1. Send(w, r, buffer, part, whole) = WriteRaw(w, r, p)
    BY <1>1, <1>5 DEF Send
  <2>2. Tells(w, WriteRaw(w, r, p)) /\ Emission(w, WriteRaw(w, r, p), p)
    BY <1>1, <1>3, <1>4, WriteRawEmission
  <2> QED
    BY <1>1, <2>1, <2>2
<1>6. PICK u : u = StoreHeader(w, r)
  OBVIOUS
<1>7. /\ Tells(w, u)
      /\ SameBuf(w, u) /\ SameOutputs(w, u)
      /\ u.srv.outgoingData = w.srv.outgoingData
  BY <1>6, StoreHeaderEffect
<1>8. u \in WorldType /\ u.res[r].output = out
  BY <1>3, <1>7 DEF Tells, SameOutputs
<1>9. SameOthers(w, u, r) /\ Uncounted(u, r) = Uncounted(w, r)
  BY <1>7 DEF SameOthers, SameOutputs, Uncounted
<1>10. CASE ~w.res[r].header /\ buffer
  <2>1. PICK d \in Pieces : d = P!Piece(r, "head") /\ d.of = r /\ d.part = "head"
    BY PieceType DEF P!Parts
  <2>2. ~P!EndsResponse(d) /\ d.part # "error"
    BY <2>1 DEF P!EndsResponse
  <2>3. PICK q : q = <<d>> \o out
    OBVIOUS
  <2>4. q \in Seq(Pieces) /\ Len(q) = Len(out) + 1 /\ Tagged(q, r) /\ NoEnd(q)
    BY <1>4, <2>1, <2>2, <2>3, PrependPiece
  <2>5. PICK t : t = WithOutput(u, r, q)
    OBVIOUS
  <2>6. /\ Tells(u, t) /\ SameBuf(u, t) /\ SameOthers(u, t, r)
        /\ t.res[r].output = q /\ t.srv.outgoingData = u.srv.outgoingData
    BY <1>8, <2>4, <2>5, WithOutputEffect
  <2>7. t \in WorldType
    BY <2>6 DEF Tells
  <2>8. PICK k \in Int : k = 1
    OBVIOUS
  <2>9. PICK c : c = UpdateOutgoingData(t, k)
    OBVIOUS
  <2>10. Counts(t, c, k)
    BY <2>7, <2>9, UpdateOutgoingDataEffect
  <2>11. Tells(w, c)
    <3>1. Tells(w, t)
      BY <1>7, <2>6, TellsTransitive
    <3>2. Tells(t, c)
      BY <2>10 DEF Counts
    <3> QED
      BY <3>1, <3>2, TellsTransitive
  <2>12. c \in WorldType /\ c.res[r].output = q
    BY <2>6, <2>10, <2>11 DEF Tells, Counts, SameOutputs
  <2>13. PICK v : v = WriteRaw(c, r, p)
    OBVIOUS
  <2>14. Tells(c, v) /\ Emission(c, v, p)
    BY <1>1, <2>4, <2>12, <2>13, WriteRawEmission
  <2>15. SameBuf(w, c) /\ SameOthers(w, c, r)
    BY <1>7, <2>6, <2>10 DEF SameBuf, SameOthers, SameOutputs, Counts
  <2>16. Uncounted(c, r) = Uncounted(w, r)
    <3>1. c.srv.outgoingData = w.srv.outgoingData + 1
      BY <1>7, <2>6, <2>8, <2>10 DEF Counts
    <3>2. Len(c.res[r].output) = Len(out) + 1
      BY <2>4, <2>12
    <3>3. PICK i \in Int : i = w.srv.outgoingData
      BY WorldFields
    <3>4. PICK l \in Nat : l = Len(out)
      BY <1>4
    <3>5. Uncounted(c, r) = (i + 1) - (l + 1) /\ Uncounted(w, r) = i - l
      BY <1>3, <3>1, <3>2, <3>3, <3>4 DEF Uncounted
    <3> QED
      BY <3>5
  <2>17. Tells(w, v)
    BY <2>11, <2>14, TellsTransitive
  <2>18. Len(v.res[r].output) \in Nat
    <3>1. v \in WorldType
      BY <2>17 DEF Tells
    <3>2. v.res[r].output \in Seq(Pieces)
      BY <3>1, ResFields
    <3> QED
      BY <3>2
  <2>19. Len(c.res[r].output) >= Len(w.res[r].output) /\ Len(c.res[r].output) \in Nat
         /\ Len(w.res[r].output) \in Nat
    BY <1>3, <1>4, <2>4, <2>12
  <2>20. Emission(w, v, p)
    BY <1>1, <2>11, <2>14, <2>15, <2>16, <2>18, <2>19, EmissionAfter
  <2>21. Send(w, r, buffer, part, whole) = v
    <3>1. t = [StoreHeader(w, r) EXCEPT !.res[r].output = <<P!Piece(r, "head")>> \o @]
      BY <1>6, <1>8, <2>1, <2>3, <2>5 DEF WithOutput
    <3> QED
      BY <1>1, <1>10, <2>8, <2>9, <2>13, <3>1 DEF Send
  <2> QED
    BY <1>1, <2>17, <2>20, <2>21
<1>11. CASE ~w.res[r].header /\ ~buffer
  <2>1. PICK v : v = WriteRaw(u, r, h)
    OBVIOUS
  <2>2. Send(w, r, buffer, part, whole) = v
    BY <1>2, <1>6, <1>11, <2>1 DEF Send
  <2>3. Tells(u, v) /\ Emission(u, v, h)
    BY <1>2, <1>4, <1>8, <2>1, WriteRawEmission
  <2>4. Tells(w, v)
    BY <1>7, <2>3, TellsTransitive
  <2>5. Len(v.res[r].output) \in Nat
    <3>1. v \in WorldType
      BY <2>4 DEF Tells
    <3>2. v.res[r].output \in Seq(Pieces)
      BY <3>1, ResFields
    <3> QED
      BY <3>2
  <2>6. Len(u.res[r].output) >= Len(w.res[r].output) /\ Len(u.res[r].output) \in Nat
         /\ Len(w.res[r].output) \in Nat
    BY <1>3, <1>4, <1>8
  <2>7. Emission(w, v, h)
    BY <1>2, <1>7, <1>9, <2>3, <2>5, <2>6, EmissionAfter
  <2> QED
    BY <1>2, <2>2, <2>4, <2>7
<1> QED
  BY <1>5, <1>10, <1>11

\* Changes of the response r that touch neither its queue nor the socket.
LEMMA WritesAfter ==
  ASSUME NEW w, NEW u, NEW v, NEW piece, piece.of \in Messages, Tells(w, u), Emission(w, u, piece),
         v \in WorldType, v.sock = u.sock, v.srv = u.srv, v.req = u.req,
         v.closing = u.closing, v.failed = u.failed,
         \A x \in Messages : /\ v.res[x].output = u.res[x].output
                             /\ v.res[x].keep = u.res[x].keep
                             /\ v.res[x].last = u.res[x].last
                             /\ v.res[x].destroyed = u.res[x].destroyed
                             /\ x # piece.of => v.res[x] = u.res[x],
         P!EndsResponse(piece) => v.res[piece.of].finished,
         ~P!EndsResponse(piece) =>
            /\ v.res[piece.of].finished = u.res[piece.of].finished
            /\ v.res[piece.of].needDrain => u.res[piece.of].needDrain \/ Full(u, piece.of)
  PROVE  Writes(w, v, piece)
<1>1. Emission(w, v, piece)
  BY DEF Emission, SameOthers, SameBuf, Uncounted
<1>2. Full(v, piece.of) <=> Full(u, piece.of)
  BY DEF Full
<1>3. /\ SameSock(w.sock, v.sock)
      /\ v.sock.paused => w.sock.paused
      /\ v.srv.incoming = w.srv.incoming /\ v.srv.outgoing = w.srv.outgoing
      /\ v.srv.keepAliveTimeoutSet = w.srv.keepAliveTimeoutSet
      /\ v.req = w.req /\ v.closing = w.closing /\ v.failed = w.failed
  BY DEF Tells
<1>4. \A x \in Messages :
              /\ v.res[x].keep = w.res[x].keep
              /\ v.res[x].destroyed = w.res[x].destroyed
              /\ v.res[x].last => w.res[x].last \/ ~w.res[x].keep
              /\ x # piece.of => /\ v.res[x].finished = w.res[x].finished
                                 /\ v.res[x].needDrain => w.res[x].needDrain
  BY DEF Tells
<1>5. ~P!EndsResponse(piece) =>
              /\ v.res[piece.of].finished = w.res[piece.of].finished
              /\ v.res[piece.of].needDrain => w.res[piece.of].needDrain \/ Full(v, piece.of)
  BY <1>2 DEF Tells
<1> QED
  BY <1>1, <1>3, <1>4, <1>5 DEF Writes

\* A call that emits a piece which does not end the response.
LEMMA TellsWrites ==
  ASSUME NEW w, NEW v, NEW piece, piece.of \in Messages, Tells(w, v), Emission(w, v, piece),
         ~P!EndsResponse(piece)
  PROVE  Writes(w, v, piece)
<1>1. v \in WorldType
  BY DEF Tells
<1> QED
  BY <1>1, WritesAfter

WithWrite(c, k, d) == [c EXCEPT !.writes = k, !.needDrain = d]
WithFinished(c, f) == [c EXCEPT !.finished = f]

\* The fields of a response that has been written to.
LEMMA WithWriteType ==
  ASSUME NEW c \in ResType, NEW k \in 0..MaxWrites, NEW d \in BOOLEAN
  PROVE  /\ WithWrite(c, k, d) \in ResType
         /\ WithWrite(c, k, d).output = c.output
         /\ WithWrite(c, k, d).needDrain = d
         /\ WithWrite(c, k, d).keep = c.keep
         /\ WithWrite(c, k, d).last = c.last
         /\ WithWrite(c, k, d).finished = c.finished
         /\ WithWrite(c, k, d).destroyed = c.destroyed
BY DEF ResType, WithWrite

\* The fields of a response that has ended.
LEMMA WithFinishedType ==
  ASSUME NEW c \in ResType, NEW f \in BOOLEAN
  PROVE  /\ WithFinished(c, f) \in ResType
         /\ WithFinished(c, f).output = c.output
         /\ WithFinished(c, f).keep = c.keep
         /\ WithFinished(c, f).last = c.last
         /\ WithFinished(c, f).finished = f
         /\ WithFinished(c, f).destroyed = c.destroyed
BY DEF ResType, WithFinished

\* write() returns false only where the buffer it fills is over the mark.
LEMMA WriteRetFull ==
  ASSUME NEW w \in WorldType, NEW r \in Messages, ~WriteRet(w, r)
  PROVE  Full(w, r)
<1>1. Len(w.sock.buf) \in Nat /\ Len(w.res[r].output) \in Nat
  <2>1. w.sock.buf \in Seq(Pieces) /\ w.res[r].output \in Seq(Pieces)
    BY WorldFields, ResFields
  <2> QED
    BY <2>1
<1>2. CASE w.sock.message = r /\ w.sock.state = "open"
  <2>1. ~(Len(w.sock.buf) < HighWaterMark)
    BY <1>2 DEF WriteRet, Alive
  <2> QED
    BY <1>1, <1>2, <2>1, ServerAssumption DEF Full
<1>3. CASE w.sock.message = r /\ w.sock.state # "open"
  BY <1>3 DEF Full
<1>4. CASE w.sock.message # r
  <2>1. ~(Len(w.res[r].output) < HighWaterMark)
    BY <1>4 DEF WriteRet
  <2> QED
    BY <1>1, <1>4, <2>1, ServerAssumption DEF Full
<1> QED
  BY <1>2, <1>3, <1>4

\* response.write(): at most MaxWrites of them, none of which ends the response.
LEMMA WriteResponseEffect ==
  ASSUME NEW w \in WorldType, NEW r \in Messages, NEW buffer, w.res[r].writes < MaxWrites,
         Tagged(w.res[r].output, r), NoEnd(w.res[r].output)
  PROVE  \E piece \in Pieces : /\ piece.of = r /\ ~P!EndsResponse(piece)
                               /\ Writes(w, WriteResponse(w, r, buffer), piece)
<1>1. PICK u : u = Send(w, r, buffer, "data", "head")
  OBVIOUS
<1>2. PICK piece \in Pieces : /\ piece.of = r /\ piece.part \in {"data", "head"}
                              /\ Tells(w, u) /\ Emission(w, u, piece)
  <2>1. "data" \in P!Parts /\ "head" \in P!Parts
    BY DEF P!Parts
  <2> QED
    BY <1>1, <2>1, SendEmission
<1>3. ~P!EndsResponse(piece)
  BY <1>2 DEF P!EndsResponse
<1>4. u \in WorldType
  BY <1>2 DEF Tells
<1>5. u.res[r] \in ResType
  BY <1>4, ResFields
<1>6. PICK k \in 0..MaxWrites : k = u.res[r].writes + 1
  <2>1. u.res[r].writes = w.res[r].writes
    BY <1>2 DEF Tells
  <2>2. w.res[r].writes \in 0..MaxWrites
    BY ResFields
  <2> QED
    BY <2>1, <2>2, ServerAssumption
<1>7. PICK d \in BOOLEAN : d = (u.res[r].needDrain \/ ~WriteRet(u, r))
  BY <1>4, ResFields
<1>8. PICK c : c = WithWrite(u.res[r], k, d)
  OBVIOUS
<1>9. /\ c \in ResType
      /\ c.output = u.res[r].output
      /\ c.needDrain = d
      /\ c.keep = u.res[r].keep
      /\ c.last = u.res[r].last
      /\ c.finished = u.res[r].finished
      /\ c.destroyed = u.res[r].destroyed
  BY <1>5, <1>8, WithWriteType
<1>10. PICK v : v = WithRes(u, r, c)
  OBVIOUS
<1>11. /\ v \in WorldType
       /\ v.res[r] = c
       /\ \A x \in Messages : x # r => v.res[x] = u.res[x]
       /\ v.sock = u.sock /\ v.srv = u.srv
       /\ v.req = u.req
       /\ v.closing = u.closing /\ v.failed = u.failed
  BY <1>4, <1>9, <1>10, WithResType
<1>12. WriteResponse(w, r, buffer) = v
  BY <1>1, <1>4, <1>6, <1>7, <1>8, <1>10
  DEF WriteResponse, WithWrite, WithRes, WorldType
<1>13. d => u.res[r].needDrain \/ Full(u, r)
  BY <1>4, <1>7, WriteRetFull
<1>14. \A x \in Messages : /\ v.res[x].output = u.res[x].output
                           /\ v.res[x].keep = u.res[x].keep
                           /\ v.res[x].last = u.res[x].last
                           /\ v.res[x].destroyed = u.res[x].destroyed
                           /\ x # piece.of => v.res[x] = u.res[x]
  BY <1>2, <1>9, <1>11
<1>15. /\ v.res[piece.of].finished = u.res[piece.of].finished
       /\ v.res[piece.of].needDrain => u.res[piece.of].needDrain \/ Full(u, piece.of)
  BY <1>2, <1>9, <1>11, <1>13
<1>16. Writes(w, v, piece)
  BY <1>2, <1>3, <1>11, <1>14, <1>15, WritesAfter
<1> QED
  BY <1>2, <1>3, <1>12, <1>16

\* response.end(): the last piece ends the response.
LEMMA EndResponseEffect ==
  ASSUME NEW w \in WorldType, NEW r \in Messages,
         Tagged(w.res[r].output, r), NoEnd(w.res[r].output)
  PROVE  \E piece \in Pieces : /\ piece.of = r /\ P!EndsResponse(piece)
                               /\ Writes(w, EndResponse(w, r), piece)
<1>1. PICK u : u = Send(w, r, FALSE, "end", "whole")
  OBVIOUS
<1>2. PICK piece \in Pieces : /\ piece.of = r /\ piece.part \in {"end", "whole"}
                              /\ Tells(w, u) /\ Emission(w, u, piece)
  <2>1. "end" \in P!Parts /\ "whole" \in P!Parts
    BY DEF P!Parts
  <2> QED
    BY <1>1, <2>1, SendEmission
<1>3. P!EndsResponse(piece)
  BY <1>2 DEF P!EndsResponse
<1>4. u \in WorldType
  BY <1>2 DEF Tells
<1>5. u.res[r] \in ResType
  BY <1>4, ResFields
<1>6. PICK f \in BOOLEAN : f = TRUE
  OBVIOUS
<1>7. PICK c : c = WithFinished(u.res[r], f)
  OBVIOUS
<1>8. /\ c \in ResType
      /\ c.output = u.res[r].output
      /\ c.keep = u.res[r].keep
      /\ c.last = u.res[r].last
      /\ c.finished = f
      /\ c.destroyed = u.res[r].destroyed
  BY <1>5, <1>7, WithFinishedType
<1>9. PICK v : v = WithRes(u, r, c)
  OBVIOUS
<1>10. /\ v \in WorldType
       /\ v.res[r] = c
       /\ \A x \in Messages : x # r => v.res[x] = u.res[x]
       /\ v.sock = u.sock /\ v.srv = u.srv
       /\ v.req = u.req
       /\ v.closing = u.closing /\ v.failed = u.failed
  BY <1>4, <1>8, <1>9, WithResType
<1>11. EndResponse(w, r) = v
  BY <1>1, <1>4, <1>6, <1>7, <1>9 DEF EndResponse, WithFinished, WithRes, WorldType
<1>12. \A x \in Messages : /\ v.res[x].output = u.res[x].output
                           /\ v.res[x].keep = u.res[x].keep
                           /\ v.res[x].last = u.res[x].last
                           /\ v.res[x].destroyed = u.res[x].destroyed
                           /\ x # piece.of => v.res[x] = u.res[x]
  BY <1>2, <1>8, <1>10
<1>13. v.res[piece.of].finished
  BY <1>2, <1>6, <1>8, <1>10
<1>14. Writes(w, v, piece)
  BY <1>2, <1>3, <1>10, <1>12, <1>13, WritesAfter
<1> QED
  BY <1>2, <1>3, <1>11, <1>14

-----------------------------------------------------------------------------
(* A response gets the socket. *)

\* From w to v response r gets the socket, and what it queued goes there.
Assigns(w, v, r) ==
    LET out == w.res[r].output
    IN  /\ v \in WorldType
        /\ v.sock.message = r
        /\ v.failed = w.failed
        /\ v.sock.peerEnded = w.sock.peerEnded
        /\ v.sock.state = IF w.res[r].destroyed /\ Alive(w) THEN "destroyed" ELSE w.sock.state
        /\ v.sock.paused => w.sock.paused
        /\ v.srv.incoming = w.srv.incoming /\ v.srv.outgoing = w.srv.outgoing
        /\ v.srv.keepAliveTimeoutSet = w.srv.keepAliveTimeoutSet
        /\ v.req = w.req /\ v.closing = w.closing
        /\ \A x \in Messages :
              /\ v.res[x].keep = w.res[x].keep
              /\ v.res[x].finished = w.res[x].finished
              /\ v.res[x].destroyed = w.res[x].destroyed
              /\ v.res[x].last => w.res[x].last \/ ~w.res[x].keep
              /\ v.res[x].needDrain => w.res[x].needDrain
        /\ SameOthers(w, v, r)
        /\ Uncounted(v, r) = Uncounted(w, r)
        /\ v.sock.state # "open" => SameBuf(w, v) /\ SameOutputs(w, v)
        /\ Len(out) = 0 => /\ SameBuf(w, v) /\ SameOutputs(w, v)
                           /\ v.srv.outgoingData = w.srv.outgoingData
        /\ v.sock.state = "open" =>
             /\ Len(v.res[r].output) = 0
             /\ v.sock.buf = w.sock.buf \o out
             /\ w.sock.needDrain => v.sock.needDrain
             /\ v.sock.needDrain => w.sock.needDrain \/ Len(v.sock.buf) >= HighWaterMark
             /\ Len(out) > 0 /\ v.sock.paused => v.srv.outgoingData > HighWaterMark
             /\ Len(out) > 0 /\ v.res[r].needDrain /\ ~v.res[r].finished
                  => v.sock.needDrain /\ Len(v.sock.buf) >= HighWaterMark

WithMessage(s, m) == [s EXCEPT !.message = m]

\* The fields of a socket that a response gets or leaves.
LEMMA WithMessageType ==
  ASSUME NEW s \in SockType, NEW m \in 0..N
  PROVE  /\ WithMessage(s, m) \in SockType
         /\ WithMessage(s, m).message = m
         /\ WithMessage(s, m).state = s.state
         /\ WithMessage(s, m).buf = s.buf
         /\ WithMessage(s, m).needDrain = s.needDrain
         /\ WithMessage(s, m).paused = s.paused
         /\ WithMessage(s, m).peerEnded = s.peerEnded
BY DEF WithMessage, SockType

\* The first step: the socket is the response's.
LEMMA AssignedEffect ==
  ASSUME NEW w \in WorldType, NEW r \in Messages, w.sock.message = NoMessage
  PROVE  [w EXCEPT !.sock.message = r, !.failed = @ \/ w.sock.message # NoMessage]
            = WithSock(w, WithMessage(w.sock, r))
<1>1. w.failed \in BOOLEAN
  BY WorldFields
<1>2. (w.failed \/ w.sock.message # NoMessage) = w.failed
  BY <1>1
<1> QED
  BY <1>2 DEF WithSock, WithMessage, WorldType

\* assignSocket, the flush of the queue and the destroy of a response destroyed
\* before its turn.
LEMMA AssignSocketEffect ==
  ASSUME NEW w \in WorldType, NEW r \in Messages, w.sock.message = NoMessage
  PROVE  Assigns(w, AssignSocket(w, r), r)
<1>1. PICK assigned : assigned = WithSock(w, WithMessage(w.sock, r))
  OBVIOUS
<1>2. w.sock \in SockType /\ r \in 0..N
  BY WorldFields DEF Messages
<1>3. PICK s : s = WithMessage(w.sock, r)
  OBVIOUS
<1>4. /\ s \in SockType
      /\ s.message = r
      /\ s.state = w.sock.state
      /\ s.buf = w.sock.buf
      /\ s.needDrain = w.sock.needDrain
      /\ s.paused = w.sock.paused
      /\ s.peerEnded = w.sock.peerEnded
  BY <1>2, <1>3, WithMessageType
<1>5. /\ assigned \in WorldType
      /\ assigned.sock = s
      /\ assigned.srv = w.srv /\ assigned.req = w.req
      /\ assigned.res = w.res
      /\ assigned.closing = w.closing /\ assigned.failed = w.failed
  BY <1>1, <1>3, <1>4, WithSockType
<1>6. PICK told : told = IF w.res[r].destroyed THEN DestroySocket(assigned) ELSE assigned
  OBVIOUS
<1>7. /\ told \in WorldType
      /\ told.srv = w.srv /\ told.req = w.req /\ told.res = w.res
      /\ told.closing = w.closing /\ told.failed = w.failed
      /\ told.sock.state = IF w.res[r].destroyed /\ Alive(w) THEN "destroyed" ELSE w.sock.state
      /\ told.sock.buf = w.sock.buf /\ told.sock.needDrain = w.sock.needDrain
      /\ told.sock.paused = w.sock.paused /\ told.sock.message = r
      /\ told.sock.peerEnded = w.sock.peerEnded
  <2>1. Alive(assigned) <=> Alive(w)
    BY <1>4, <1>5 DEF Alive
  <2>2. CASE w.res[r].destroyed
    <3>1. told = DestroySocket(assigned)
      BY <1>6, <2>2
    <3> QED
      BY <1>4, <1>5, <2>1, <2>2, <3>1, DestroySocketEffect
  <2>3. CASE ~w.res[r].destroyed
    BY <1>4, <1>5, <1>6, <2>3
  <2> QED
    BY <2>2, <2>3
<1>8. PICK out : out = w.res[r].output
  OBVIOUS
<1>9. out \in Seq(Pieces) /\ w.srv.outgoingData \in Int /\ w.res[r].finished \in BOOLEAN
  BY <1>8, WorldFields, ResFields
<1>10. CASE told.sock.state # "open"
  <2>1. AssignSocket(w, r) = told
    BY <1>1, <1>6, <1>10, AssignedEffect DEF AssignSocket
  <2>2. Len(out) = 0 => SameBuf(w, told) /\ SameOutputs(w, told)
                        /\ told.srv.outgoingData = w.srv.outgoingData
    BY <1>7 DEF SameOutputs, SameBuf
  <2>3. Assigns(w, told, r)
    BY <1>7, <1>8, <1>10, <2>2 DEF Assigns, SameOthers, SameOutputs, SameBuf, Uncounted
  <2> QED
    BY <2>1, <2>3
<1>11. CASE told.sock.state = "open"
  <2>1. PICK f : f = FlushOutput(told, r)
    OBVIOUS
  <2>2. Flushes(told, f, r)
    BY <1>7, <2>1, FlushOutputEffect
  <2>3. /\ f \in WorldType /\ SameOthers(w, f, r)
        /\ f.sock.state = told.sock.state /\ f.sock.message = r
        /\ f.sock.peerEnded = w.sock.peerEnded
        /\ f.sock.paused => w.sock.paused
        /\ f.srv.incoming = w.srv.incoming /\ f.srv.outgoing = w.srv.outgoing
        /\ f.srv.keepAliveTimeoutSet = w.srv.keepAliveTimeoutSet
        /\ f.req = w.req /\ f.closing = w.closing /\ f.failed = w.failed
    BY <1>7, <2>2 DEF Flushes, Tells, SameSock, SameOthers
  <2>4. \A x \in Messages :
          /\ f.res[x].keep = w.res[x].keep
          /\ f.res[x].finished = w.res[x].finished
          /\ f.res[x].destroyed = w.res[x].destroyed
          /\ f.res[x].last => w.res[x].last \/ ~w.res[x].keep
          /\ f.res[x].needDrain => w.res[x].needDrain
    BY <1>7, <2>2 DEF Flushes, Tells
  <2>5. /\ f.res[r].output \in Seq(Pieces) /\ Len(f.res[r].output) = 0
        /\ f.srv.outgoingData = w.srv.outgoingData - Len(out)
        /\ f.sock.buf = w.sock.buf \o out
        /\ w.sock.needDrain => f.sock.needDrain
        /\ f.sock.needDrain => w.sock.needDrain \/ Len(f.sock.buf) >= HighWaterMark
        /\ Len(out) > 0 /\ Len(f.sock.buf) >= HighWaterMark => f.sock.needDrain
        /\ Len(out) > 0 /\ f.sock.paused => f.srv.outgoingData > HighWaterMark
    BY <1>7, <1>8, <2>2 DEF Flushes
  <2>6. Uncounted(f, r) = Uncounted(w, r)
    <3>1. PICK k \in Nat : k = Len(out)
      BY <1>9
    <3>2. f.srv.outgoingData = w.srv.outgoingData - k /\ Len(f.res[r].output) = 0
      BY <2>5, <3>1
    <3> QED
      BY <1>8, <1>9, <3>1, <3>2 DEF Uncounted
  <2>7. CASE ~w.res[r].finished /\ out # <<>> /\ WriteRet(f, r)
    <3>1. PICK d \in BOOLEAN : d = FALSE
      OBVIOUS
    <3>2. PICK c : c = [f.res[r] EXCEPT !.needDrain = d]
      OBVIOUS
    <3>3. f.res[r] \in ResType
      BY <2>3, ResFields
    <3>4. c \in ResType /\ c.output = f.res[r].output /\ c.needDrain = d
          /\ SameRes(f.res[r], c)
      BY <3>2, <3>3, NeedDrainType
    <3>5. PICK v : v = WithRes(f, r, c)
      OBVIOUS
    <3>6. /\ v \in WorldType
          /\ v.res[r] = c
          /\ \A x \in Messages : x # r => v.res[x] = f.res[x]
          /\ v.sock = f.sock /\ v.srv = f.srv
          /\ v.req = f.req
          /\ v.closing = f.closing /\ v.failed = f.failed
      BY <2>3, <3>4, <3>5, WithResType
    <3>7. AssignSocket(w, r) = [f EXCEPT !.res[r].needDrain = FALSE]
      <4>1. AssignSocket(w, r) =
              IF ~w.res[r].finished /\ out # <<>> /\ WriteRet(f, r)
              THEN [f EXCEPT !.res[r].needDrain = FALSE] ELSE f
        BY <1>1, <1>6, <1>8, <1>11, <2>1, AssignedEffect DEF AssignSocket
      <4> QED
        BY <2>7, <4>1
    <3>8. v = [f EXCEPT !.res[r].needDrain = FALSE]
      BY <3>1, <3>2, <3>5 DEF WithRes
    <3>9. \A x \in Messages :
            /\ v.res[x].keep = w.res[x].keep
            /\ v.res[x].finished = w.res[x].finished
            /\ v.res[x].destroyed = w.res[x].destroyed
            /\ v.res[x].last => w.res[x].last \/ ~w.res[x].keep
            /\ v.res[x].needDrain => w.res[x].needDrain
      BY <2>4, <3>1, <3>4, <3>6 DEF SameRes
    <3>10. SameOthers(w, v, r)
      BY <2>3, <3>6 DEF SameOthers
    <3>11. Uncounted(v, r) = Uncounted(w, r)
      BY <2>6, <3>4, <3>6 DEF Uncounted
    <3>12. ~v.res[r].needDrain
      BY <3>1, <3>4, <3>6
    <3>13. Len(v.res[r].output) = 0
      BY <2>5, <3>4, <3>6
    <3>14. Len(out) > 0 /\ ~(Len(out) = 0)
      BY <1>9, <2>7
    <3>15. Assigns(w, v, r)
      BY <1>7, <1>8, <1>11, <2>3, <2>5, <3>6, <3>9, <3>10, <3>11, <3>12, <3>13, <3>14
      DEF Assigns
    <3> QED
      BY <3>7, <3>8, <3>15
  <2>8. CASE ~(~w.res[r].finished /\ out # <<>> /\ WriteRet(f, r))
    <3>1. AssignSocket(w, r) = f
      BY <1>1, <1>6, <1>7, <1>8, <1>11, <2>1, <2>8, AssignedEffect DEF AssignSocket
    <3>2. Len(out) > 0 => out # <<>>
      BY <1>9
    <3>3. Len(out) > 0 /\ ~f.res[r].finished => Full(f, r)
      BY <2>3, <2>4, <2>8, <3>2, WriteRetFull
    <3>4. Len(out) > 0 /\ f.res[r].needDrain /\ ~f.res[r].finished
            => f.sock.needDrain /\ Len(f.sock.buf) >= HighWaterMark
      BY <1>11, <2>3, <2>5, <3>3 DEF Full
    <3>5. Len(out) = 0 => SameBuf(w, f) /\ SameOutputs(w, f)
                          /\ f.srv.outgoingData = w.srv.outgoingData
      BY <1>7, <1>8, <2>2 DEF Flushes, SameBuf, SameOutputs
    <3>6. Assigns(w, f, r)
      BY <1>7, <1>8, <1>11, <2>3, <2>4, <2>5, <2>6, <3>4, <3>5 DEF Assigns
    <3> QED
      BY <3>1, <3>6
  <2> QED
    BY <2>7, <2>8
<1> QED
  BY <1>10, <1>11

-----------------------------------------------------------------------------
(* A response leaves it. *)

\* The elements of a tail.
LEMMA TailPieces ==
  ASSUME NEW S, NEW q \in Seq(S), Len(q) > 0
  PROVE  /\ Tail(q) \in Seq(S) /\ Len(Tail(q)) = Len(q) - 1
         /\ \A i \in 1..Len(Tail(q)) : i + 1 \in 1..Len(q) /\ Tail(q)[i] = q[i + 1]
         /\ Head(q) = q[1] /\ q[1] \in S /\ q # <<>>
OBVIOUS

WithSrv(w, s) == [w EXCEPT !.srv = s]
WithIncoming(s, q) == [s EXCEPT !.incoming = q]
WithOutgoing(s, q) == [s EXCEPT !.outgoing = q]
WithTimer(s, b) == [s EXCEPT !.keepAliveTimeoutSet = b]
WithAnswered(w, R, c) == [w EXCEPT !.req = R, !.closing = c]

\* The fields of a world whose server state is set.
LEMMA WithSrvType ==
  ASSUME NEW w \in WorldType, NEW s \in SrvType
  PROVE  /\ WithSrv(w, s) \in WorldType
         /\ WithSrv(w, s).srv = s
         /\ WithSrv(w, s).sock = w.sock /\ WithSrv(w, s).req = w.req
         /\ WithSrv(w, s).res = w.res
         /\ WithSrv(w, s).closing = w.closing /\ WithSrv(w, s).failed = w.failed
BY DEF WithSrv, WorldType

\* The fields of a server state one list of which is set.
LEMMA SrvListsType ==
  ASSUME NEW s \in SrvType, NEW q \in Seq(Messages)
  PROVE  /\ WithIncoming(s, q) \in SrvType
         /\ WithIncoming(s, q).incoming = q
         /\ WithIncoming(s, q).outgoing = s.outgoing
         /\ WithIncoming(s, q).outgoingData = s.outgoingData
         /\ WithIncoming(s, q).keepAliveTimeoutSet = s.keepAliveTimeoutSet
         /\ WithOutgoing(s, q) \in SrvType
         /\ WithOutgoing(s, q).outgoing = q
         /\ WithOutgoing(s, q).incoming = s.incoming
         /\ WithOutgoing(s, q).outgoingData = s.outgoingData
         /\ WithOutgoing(s, q).keepAliveTimeoutSet = s.keepAliveTimeoutSet
BY DEF WithIncoming, WithOutgoing, SrvType

\* The fields of a server state whose timer flag is set.
LEMMA SrvTimerType ==
  ASSUME NEW s \in SrvType, NEW b \in BOOLEAN
  PROVE  /\ WithTimer(s, b) \in SrvType
         /\ WithTimer(s, b).incoming = s.incoming
         /\ WithTimer(s, b).outgoing = s.outgoing
         /\ WithTimer(s, b).outgoingData = s.outgoingData
         /\ WithTimer(s, b).keepAliveTimeoutSet = b
BY DEF WithTimer, SrvType

\* The fields of a world a request of which is answered.
LEMMA WithAnsweredType ==
  ASSUME NEW w \in WorldType, NEW R \in [Messages -> ReqType], NEW c \in SUBSET Messages
  PROVE  /\ WithAnswered(w, R, c) \in WorldType
         /\ WithAnswered(w, R, c).sock = w.sock /\ WithAnswered(w, R, c).srv = w.srv
         /\ WithAnswered(w, R, c).res = w.res
         /\ WithAnswered(w, R, c).req = R
         /\ WithAnswered(w, R, c).closing = c /\ WithAnswered(w, R, c).failed = w.failed
BY DEF WithAnswered, WorldType

SameComplete(w, v) == \A x \in Messages : v.req[x].complete = w.req[x].complete

\* From w to v response r, sent whole, lets go of the socket and its request.
Detaches(w, v, r) ==
    /\ v \in WorldType
    /\ v.sock.state = w.sock.state /\ SameBuf(w, v)
    /\ v.sock.paused = w.sock.paused /\ v.sock.peerEnded = w.sock.peerEnded
    /\ v.sock.message = NoMessage
    /\ Len(w.srv.incoming) = 0 => Len(v.srv.incoming) = 0
    /\ Len(w.srv.incoming) > 0 =>
         /\ Len(v.srv.incoming) = Len(w.srv.incoming) - 1
         /\ \A i \in 1..Len(v.srv.incoming) : i + 1 \in 1..Len(w.srv.incoming)
                                            /\ v.srv.incoming[i] = w.srv.incoming[i + 1]
    /\ v.srv.outgoing = w.srv.outgoing /\ v.srv.outgoingData = w.srv.outgoingData
    /\ v.srv.keepAliveTimeoutSet = w.srv.keepAliveTimeoutSet
    /\ v.res = w.res /\ v.failed = w.failed
    /\ v.closing = w.closing \cup {r}
    /\ SameComplete(w, v)

\* The first half of resOnFinish: detachSocket and the request off the list.
LEMMA DetachedEffect ==
  ASSUME NEW w \in WorldType, NEW r \in Messages, w.sock.message = r,
         Len(w.srv.incoming) > 0 => w.srv.incoming[1] = r
  PROVE  Detaches(w, Detached(w, r), r)
<1>1. PICK in : in = w.srv.incoming
  OBVIOUS
<1>2. in \in Seq(Messages) /\ w.sock \in SockType /\ w.srv \in SrvType
      /\ w.req \in [Messages -> ReqType] /\ w.closing \in SUBSET Messages
  BY <1>1, WorldFields DEF WorldType
<1>3. PICK q : q = IF in = <<>> THEN in ELSE Tail(in)
  OBVIOUS
<1>4. /\ q \in Seq(Messages)
      /\ Len(in) = 0 => Len(q) = 0
      /\ Len(in) > 0 => /\ Len(q) = Len(in) - 1
                        /\ \A i \in 1..Len(q) : i + 1 \in 1..Len(in) /\ q[i] = in[i + 1]
      /\ in # <<>> => Head(in) = r
  <2>1. CASE in = <<>>
    BY <1>2, <1>3, <2>1
  <2>2. CASE in # <<>>
    <3>1. Len(in) > 0 /\ q = Tail(in)
      BY <1>2, <1>3, <2>2
    <3>2. PICK j \in Nat : j = Len(in)
      BY <1>2
    <3> QED
      BY <1>1, <1>2, <3>1, <3>2, TailPieces
  <2> QED
    BY <2>1, <2>2
<1>5. (w.failed \/ (in # <<>> /\ Head(in) # r) \/ w.sock.message # r) = w.failed
  BY <1>4, WorldFields
<1>6. 0 \in 0..N /\ NoMessage = 0
  BY ServerAssumption DEF NoMessage
<1>7. PICK s : s = WithMessage(w.sock, NoMessage)
  OBVIOUS
<1>8. /\ s \in SockType /\ s.message = NoMessage /\ s.state = w.sock.state
      /\ s.buf = w.sock.buf /\ s.needDrain = w.sock.needDrain
      /\ s.paused = w.sock.paused /\ s.peerEnded = w.sock.peerEnded
  BY <1>2, <1>6, <1>7, WithMessageType
<1>9. PICK u : u = WithSock(w, s)
  OBVIOUS
<1>10. /\ u \in WorldType /\ u.sock = s /\ u.srv = w.srv /\ u.req = w.req /\ u.res = w.res
       /\ u.closing = w.closing /\ u.failed = w.failed
  BY <1>8, <1>9, WithSockType
<1>11. PICK t : t = WithIncoming(w.srv, q)
  OBVIOUS
<1>12. /\ t \in SrvType /\ t.incoming = q /\ t.outgoing = w.srv.outgoing
       /\ t.outgoingData = w.srv.outgoingData
       /\ t.keepAliveTimeoutSet = w.srv.keepAliveTimeoutSet
  BY <1>2, <1>4, <1>11, SrvListsType
<1>13. PICK x : x = WithSrv(u, t)
  OBVIOUS
<1>14. /\ x \in WorldType /\ x.sock = s /\ x.srv = t /\ x.req = w.req /\ x.res = w.res
       /\ x.closing = w.closing /\ x.failed = w.failed
  BY <1>10, <1>12, <1>13, WithSrvType
<1>15. PICK R : R = [w.req EXCEPT ![r].timer = FALSE]
  OBVIOUS
<1>16. R \in [Messages -> ReqType]
  BY <1>2, <1>15 DEF ReqType
<1>17. PICK c : c = w.closing \cup {r}
  OBVIOUS
<1>18. c \in SUBSET Messages
  BY <1>2, <1>17
<1>19. PICK v : v = WithAnswered(x, R, c)
  OBVIOUS
<1>20. /\ v \in WorldType /\ v.sock = s /\ v.srv = t /\ v.res = w.res /\ v.req = R
       /\ v.closing = c /\ v.failed = w.failed
  BY <1>14, <1>16, <1>18, <1>19, WithAnsweredType
<1>21. Detached(w, r) = v
  <2>1. Detached(w, r) = [w EXCEPT !.failed = w.failed, !.srv.incoming = q,
                                   !.req[r].timer = FALSE, !.sock.message = NoMessage,
                                   !.closing = c]
    BY <1>1, <1>3, <1>5, <1>17 DEF Detached
  <2> QED
    BY <1>7, <1>9, <1>11, <1>13, <1>15, <1>19, <2>1, ZenonT(60)
    DEF WithAnswered, WithSrv, WithIncoming, WithSock, WithMessage, WorldType
<1>22. SameComplete(w, v)
  <2>1. \A y \in Messages : R[y].complete = w.req[y].complete
    BY <1>2, <1>15 DEF ReqType
  <2> QED
    BY <1>20, <2>1 DEF SameComplete
<1>23. Detaches(w, v, r)
  BY <1>1, <1>4, <1>8, <1>12, <1>17, <1>20, <1>22 DEF Detaches, SameBuf
<1> QED
  BY <1>21, <1>23

-----------------------------------------------------------------------------
(* The socket ends, or is destroyed. *)

WithState(s, k) == [s EXCEPT !.state = k]

\* The fields of a socket whose state is set.
LEMMA WithStateType ==
  ASSUME NEW s \in SockType, NEW k \in {"open", "ended", "destroyed", "closed"}
  PROVE  /\ WithState(s, k) \in SockType
         /\ WithState(s, k).state = k
         /\ WithState(s, k).buf = s.buf
         /\ WithState(s, k).needDrain = s.needDrain
         /\ WithState(s, k).paused = s.paused
         /\ WithState(s, k).message = s.message
         /\ WithState(s, k).peerEnded = s.peerEnded
BY DEF WithState, SockType

\* From w to v only the state of the socket changes.
Moves(w, v, k) ==
    /\ v \in WorldType
    /\ v.srv = w.srv /\ v.req = w.req /\ v.res = w.res
    /\ v.closing = w.closing /\ v.failed = w.failed
    /\ v.sock.state = k
    /\ v.sock.buf = w.sock.buf /\ v.sock.needDrain = w.sock.needDrain
    /\ v.sock.paused = w.sock.paused /\ v.sock.message = w.sock.message
    /\ v.sock.peerEnded = w.sock.peerEnded

\* socket.end(): an open socket ends its side.
LEMMA EndSocketEffect ==
  ASSUME NEW w \in WorldType
  PROVE  Moves(w, EndSocket(w), IF w.sock.state = "open" THEN "ended" ELSE w.sock.state)
<1>1. CASE w.sock.state = "open"
  <2>1. PICK k \in {"open", "ended", "destroyed", "closed"} : k = "ended"
    OBVIOUS
  <2>2. PICK s : s = WithState(w.sock, k)
    OBVIOUS
  <2>3. w.sock \in SockType
    BY WorldFields
  <2>4. /\ s \in SockType /\ s.state = k /\ s.buf = w.sock.buf
        /\ s.needDrain = w.sock.needDrain /\ s.paused = w.sock.paused
        /\ s.message = w.sock.message /\ s.peerEnded = w.sock.peerEnded
    BY <2>2, <2>3, WithStateType
  <2>5. PICK v : v = WithSock(w, s)
    OBVIOUS
  <2>6. Moves(w, v, k)
    BY <2>4, <2>5, WithSockType DEF Moves
  <2>7. EndSocket(w) = v
    BY <1>1, <2>1, <2>2, <2>5 DEF EndSocket, WithSock, WithState, WorldType
  <2> QED
    BY <1>1, <2>1, <2>6, <2>7
<1>2. CASE w.sock.state # "open"
  BY <1>2 DEF EndSocket, Moves
<1> QED
  BY <1>1, <1>2

\* socket.destroy() is such a step.
LEMMA DestroySocketMoves ==
  ASSUME NEW w \in WorldType
  PROVE  Moves(w, DestroySocket(w), IF Alive(w) THEN "destroyed" ELSE w.sock.state)
BY DestroySocketEffect DEF Moves

=============================================================================
