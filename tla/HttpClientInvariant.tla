------------------------ MODULE HttpClientInvariant ------------------------
(***************************************************************************)
(* The inductive invariant of the HTTP client and what the agent does to   *)
(* it: an account of what each listener, each queued tick and each list of *)
(* the agent says about the requests and the sockets.                      *)
(***************************************************************************)
EXTENDS HttpClientProofs

\* A request that no socket has touched: nothing has come of it yet.
Untouched(q) == q.socket = None /\ q.errors = 0 /\ ~q.closed /\ q.res = "none"

\* The exchange of a request is over and its socket may be used again.
Done(q, keep) == q.finished /\ q.res = "ended" /\ keep

\* Of a socket: no request and no idle socket's listener hears it.
Bare(c) == /\ "request" \notin c.listeners
           /\ "reader" \notin c.listeners
           /\ "idle" \notin c.listeners

Unclosed(c) == c.state \in {"open", "ended", "destroyed"}

\* The last request of the socket, if it had one, is done with it.
Reusable(c, rq, ka) == /\ Bare(c)
                       /\ c.message = None \/ Done(rq[c.message], ka[c.message])

Attached(w, rq, r) == /\ rq[r].socket \in Sockets
                      /\ w.conn[rq[r].socket].message = r
                      /\ "request" \in w.conn[rq[r].socket].listeners

Queued(w, r) ==
    \E n \in Origins : \E i \in 1..Len(w.pool.requests[n]) : w.pool.requests[n][i] = r

\* A socket in a list of the agent is there under the name of its target, the
\* agent listens to it and it has yet to close; an idle one is heard.
ListedOK(w, n, s) ==
    /\ s \in w.pool.sockets[n] \/ s \in w.pool.freeSockets[n] =>
          /\ n = GetName(w.conn[s].target)
          /\ "agent" \in w.conn[s].listeners
          /\ Unclosed(w.conn[s])
    /\ s \in w.pool.freeSockets[n] => "idle" \in w.conn[s].listeners

\* What the listeners of a socket say of it and of the request they are of.
SocketOK(w, rq, s) ==
    /\ w.conn[s].state = "unused" => w.conn[s].listeners = {}
    /\ w.conn[s].state \in {"open", "ended"} => ~w.conn[s].hadError
    /\ "reader" \in w.conn[s].listeners => "request" \in w.conn[s].listeners
    /\ "idle" \in w.conn[s].listeners => "request" \notin w.conn[s].listeners
    /\ "request" \in w.conn[s].listeners =>
          /\ w.conn[s].message \in Requests
          /\ rq[w.conn[s].message].socket = s
          /\ rq[w.conn[s].message].closed <=> w.conn[s].state = "closed"
          /\ rq[w.conn[s].message].errors > 0 => w.conn[s].hadError

\* What a queued tick says of its request and its socket.
OnSocketOK(w, rq, ka, og, r, s) ==
    /\ r \in Requests /\ s \in Sockets
    /\ og[r] # None
    /\ Untouched(rq[r])
    /\ Unclosed(w.conn[s])
    /\ Reusable(w.conn[s], rq, ka)

EmitFreeOK(w, rq, ka, r, s) ==
    /\ r \in Requests /\ s \in Sockets
    /\ rq[r].socket = s
    /\ Done(rq[r], ka[r])
    /\ w.conn[s].message = r
    /\ Bare(w.conn[s])
    /\ w.conn[s].state # "unused"

HangUpOK(rq, og, r) == r \in Requests /\ og[r] # None /\ Untouched(rq[r])

ErrorOK(w, s) == s \in Sockets /\ w.conn[s].state = "destroyed" /\ ~w.conn[s].hadError

CloseOK(w, s) == s \in Sockets /\ w.conn[s].state = "destroyed"

TickOK(w, rq, ka, og, t) ==
    /\ t.fn = "onSocket" => OnSocketOK(w, rq, ka, og, t.req, t.sock)
    /\ t.fn = "emitFree" => EmitFreeOK(w, rq, ka, t.req, t.sock)
    /\ t.fn = "hangUp" => HangUpOK(rq, og, t.req)
    /\ t.fn = "end" => t.req \in Requests /\ rq[t.req].res = "read"
    /\ t.fn = "error" => ErrorOK(w, t.sock)
    /\ t.fn = "close" => CloseOK(w, t.sock)

ReqOK(w, rq, og, r) ==
    /\ rq[r].errors <= 1
    /\ rq[r].res \in {"complete", "read"} => Attached(w, rq, r)
    /\ og[r] = None => Untouched(rq[r])

\* Nothing has come yet of a request that waits in the queue of the agent.
QueueOK(w, rq, r) == Queued(w, r) =>
    /\ Untouched(rq[r])
    /\ \A t \in ToSet(w.ticks) : t.fn \in {"onSocket", "hangUp"} => t.req # r

\* Two ticks that are never both queued, the first before the second.
Clash(a, b) ==
    \/ /\ a.fn \in {"onSocket", "emitFree"} /\ b.fn \in {"onSocket", "emitFree"}
       /\ a.sock = b.sock
    \/ /\ a.fn \in {"onSocket", "hangUp"} /\ b.fn \in {"onSocket", "hangUp"}
       /\ a.req = b.req
    \/ a.fn = "end" /\ b.fn = "end" /\ a.req = b.req
    \/ a.fn = "error" /\ b.fn = "error" /\ a.sock = b.sock
    \/ a.fn = "close" /\ b.fn \in {"close", "error", "onSocket"} /\ a.sock = b.sock

Ordered(q) == \A i, j \in 1..Len(q) : i < j => ~Clash(q[i], q[j])

Safe(w, rq, ka, og) ==
    /\ \A n \in Origins, s \in Sockets : ListedOK(w, n, s)
    /\ \A s \in Sockets : SocketOK(w, rq, s)
    /\ \A t \in ToSet(w.ticks) : TickOK(w, rq, ka, og, t)
    /\ Ordered(w.ticks)
    /\ \A r \in Requests : ReqOK(w, rq, og, r)
    /\ \A r \in Requests : QueueOK(w, rq, r)
    /\ \A n \in Origins : NoRepeats(w.pool.requests[n])
    /\ QueuedByName(w, og)

\* A live socket of the agent is heard, or a tick will see to it.
Taking(t, s) == t.sock = s /\ t.fn \in {"onSocket", "emitFree"}

Heard(w, s) ==
    /\ w.conn[s].state \in {"open", "ended"}
    /\ "agent" \in w.conn[s].listeners
    /\ "request" \notin w.conn[s].listeners
    /\ "idle" \notin w.conn[s].listeners
    => \E t \in ToSet(w.ticks) : Taking(t, s)

\* A request that was made and has yet to close is not lost.
Kept(w, rq, og, r) == og[r] # None /\ ~rq[r].closed =>
    \/ Queued(w, r)
    \/ \E t \in ToSet(w.ticks) : t.req = r
    \/ Attached(w, rq, r) /\ Unclosed(w.conn[rq[r].socket])

ReqMap == [Requests -> ReqType]
KeepMap == [Requests -> BOOLEAN]

-----------------------------------------------------------------------------
(* The queue of ticks. *)

\* A tick that clashes with none that is queued goes to the end of the queue.
LEMMA AppendedTick ==
  ASSUME NEW S, NEW q \in Seq(S), NEW t \in S
  PROVE  /\ Append(q, t) \in Seq(S)
         /\ ToSet(Append(q, t)) = ToSet(q) \cup {t}
         /\ Ordered(q) /\ (\A a \in ToSet(q) : ~Clash(a, t)) => Ordered(Append(q, t))
<1> DEFINE p == Append(q, t)
<1>1. /\ p \in Seq(S) /\ Len(p) = Len(q) + 1 /\ p[Len(q) + 1] = t
      /\ \A i \in 1..Len(q) : p[i] = q[i]
      /\ Len(q) \in Nat
  OBVIOUS
<1> HIDE DEF p
<1>2. /\ ToSet(p) = {p[i] : i \in 1..Len(p)}
      /\ ToSet(q) = {q[i] : i \in 1..Len(q)}
  BY <1>1 DEF ToSet
<1>3. \A i \in 1..Len(p) : i \in 1..Len(q) \/ i = Len(q) + 1
  BY <1>1
<1>4. ToSet(p) = ToSet(q) \cup {t}
  <2>1. \A x \in ToSet(p) : x \in ToSet(q) \cup {t}
    BY <1>1, <1>2, <1>3
  <2>2. \A x \in ToSet(q) : x \in ToSet(p)
    BY <1>1, <1>2
  <2>3. t \in ToSet(p)
    BY <1>1, <1>2
  <2> QED
    BY <2>1, <2>2, <2>3
<1>5. ASSUME Ordered(q), \A a \in ToSet(q) : ~Clash(a, t)
      PROVE  Ordered(p)
  <2> SUFFICES ASSUME NEW i \in 1..Len(p), NEW j \in 1..Len(p), i < j
               PROVE  ~Clash(p[i], p[j])
    BY DEF Ordered
  <2>1. i \in 1..Len(q)
    BY <1>1
  <2>2. CASE j \in 1..Len(q)
    BY <2>1, <2>2, <1>1, <1>5 DEF Ordered
  <2>3. CASE j = Len(q) + 1
    <3>1. p[i] \in ToSet(q) /\ p[j] = t
      BY <2>1, <2>3, <1>1, <1>2
    <3> QED
      BY <3>1, <1>5
  <2> QED
    BY <2>2, <2>3, <1>3
<1> QED
  BY <1>1, <1>4, <1>5 DEF p

LEMMA AppendedSet ==
  ASSUME NEW S, NEW q \in Seq(S), NEW t
  PROVE  \A a \in ToSet(Append(q, t)) : a \in ToSet(q) \/ a = t
<1> DEFINE p == Append(q, t)
<1>1. \A i \in 1..Len(p) : (i \in 1..Len(q) /\ p[i] = q[i]) \/ p[i] = t
  OBVIOUS
<1> HIDE DEF p
<1>2. \A a \in ToSet(p) : a \in ToSet(q) \/ a = t
  BY <1>1 DEF ToSet
<1> QED
  BY <1>2 DEF p

\* The tick that runs leaves a queue in order.
LEMMA PoppedTick ==
  ASSUME NEW S, NEW q \in Seq(S), q # <<>>, Ordered(q)
  PROVE  /\ Tail(q) \in Seq(S) /\ Head(q) \in ToSet(q)
         /\ \A t \in ToSet(Tail(q)) : t \in ToSet(q) /\ ~Clash(Head(q), t)
         /\ \A t \in ToSet(q) : t \in ToSet(Tail(q)) \/ t = Head(q)
         /\ Ordered(Tail(q))
<1> DEFINE p == Tail(q)
           h == Head(q)
<1>1. /\ p \in Seq(S) /\ Len(q) = Len(p) + 1 /\ h = q[1] /\ Len(p) \in Nat
      /\ \A i \in 1..Len(p) : i + 1 \in 1..Len(q) /\ p[i] = q[i + 1]
  OBVIOUS
<1> HIDE DEF p, h
<1>2. /\ ToSet(p) = {p[i] : i \in 1..Len(p)}
      /\ ToSet(q) = {q[i] : i \in 1..Len(q)}
  BY <1>1 DEF ToSet
<1>3. 1 \in 1..Len(q) /\ h \in ToSet(q)
  BY <1>1, <1>2
<1>4. ASSUME NEW t \in ToSet(p)
      PROVE  t \in ToSet(q) /\ ~Clash(h, t)
  <2>1. PICK i \in 1..Len(p) : t = p[i]
    BY <1>2
  <2>2. i + 1 \in 1..Len(q) /\ t = q[i + 1] /\ 1 < i + 1
    BY <2>1, <1>1
  <2> QED
    BY <2>2, <1>1, <1>2, <1>3 DEF Ordered
<1>5. ASSUME NEW t \in ToSet(q)
      PROVE  t \in ToSet(p) \/ t = h
  <2>1. PICK i \in 1..Len(q) : t = q[i]
    BY <1>2
  <2>2. CASE i = 1
    BY <2>1, <2>2, <1>1
  <2>3. CASE i # 1
    <3>1. i - 1 \in 1..Len(p) /\ (i - 1) + 1 = i
      BY <2>3, <1>1
    <3>2. p[i - 1] = t
      BY <3>1, <2>1, <1>1
    <3> QED
      BY <3>1, <3>2, <1>2
  <2> QED
    BY <2>2, <2>3
<1>6. Ordered(p)
  <2> SUFFICES ASSUME NEW i \in 1..Len(p), NEW j \in 1..Len(p), i < j
               PROVE  ~Clash(p[i], p[j])
    BY DEF Ordered
  <2>1. /\ i + 1 \in 1..Len(q) /\ p[i] = q[i + 1]
        /\ j + 1 \in 1..Len(q) /\ p[j] = q[j + 1] /\ i + 1 < j + 1
    BY <1>1
  <2> QED
    BY <2>1 DEF Ordered
<1> QED
  BY <1>1, <1>3, <1>4, <1>5, <1>6 DEF p, h

-----------------------------------------------------------------------------
(* Steps that change one socket and one request. *)

\* From w to v only socket s changes, only request r does, and no list of the
\* agent gets another socket; r has no other socket, and what it is done with
\* it stays done with; another request that s serves stays on it.
Near(w, v, rq, rq2, ka, ka2, s, r) ==
    /\ \A z \in Sockets : z # s => v.conn[z] = w.conn[z]
    /\ \A q \in Requests : q # r => rq2[q] = rq[q] /\ ka2[q] = ka[q]
    /\ \A q \in Requests : q = r => /\ rq[q].socket \in {s, None}
                                    /\ Done(rq[q], ka[q]) => Done(rq2[q], ka2[q])
    /\ \A n \in Origins : v.pool.requests[n] = w.pool.requests[n]
    /\ \A n \in Origins, z \in Sockets : z # s =>
          /\ z \in v.pool.sockets[n] => z \in w.pool.sockets[n]
          /\ z \in v.pool.freeSockets[n] => z \in w.pool.freeSockets[n]
    /\ \A q \in Requests :
          /\ q # r /\ s \in Sockets
          /\ w.conn[s].message = q /\ "request" \in w.conn[s].listeners
          => /\ v.conn[s].message = q /\ "request" \in v.conn[s].listeners
             /\ Unclosed(w.conn[s]) => Unclosed(v.conn[s])

\* A tick is about neither of them.
Apart(t, s, r) == (s = None \/ t.sock # s) /\ (r = None \/ t.req # r)

LEMMA NearQueued ==
  ASSUME NEW w, NEW v, NEW q, \A n \in Origins : v.pool.requests[n] = w.pool.requests[n]
  PROVE  Queued(v, q) <=> Queued(w, q)
BY DEF Queued

LEMMA NearTick ==
  ASSUME NEW w \in WorldType, NEW v \in WorldType, NEW rq \in ReqMap, NEW rq2 \in ReqMap,
         NEW ka \in KeepMap, NEW ka2 \in KeepMap, NEW og,
         NEW s \in Sockets \cup {None}, NEW r \in Requests \cup {None},
         Near(w, v, rq, rq2, ka, ka2, s, r),
         NEW t \in TickType, TickOK(w, rq, ka, og, t), Apart(t, s, r)
  PROVE  TickOK(v, rq2, ka2, og, t)
<1>1. None \notin Requests /\ None \notin Sockets
  BY AgentAssumption
<1>2. t.sock \in Sockets => v.conn[t.sock] = w.conn[t.sock]
  BY <1>1 DEF Near, Apart
<1>3. t.req \in Requests => rq2[t.req] = rq[t.req] /\ ka2[t.req] = ka[t.req]
  BY <1>1 DEF Near, Apart
<1>4. ASSUME t.fn = "onSocket"
      PROVE  OnSocketOK(v, rq2, ka2, og, t.req, t.sock)
  <2>1. OnSocketOK(w, rq, ka, og, t.req, t.sock)
    BY <1>4 DEF TickOK
  <2> DEFINE c == w.conn[t.sock]
             m == w.conn[t.sock].message
  <2>2. c \in ConnType /\ m \in Requests \cup {None}
    BY <2>1 DEF OnSocketOK, WorldType, ConnType
  <2>3. m \in Requests /\ Done(rq[m], ka[m]) => Done(rq2[m], ka2[m])
    BY DEF Near
  <2>4. Reusable(c, rq2, ka2)
    BY <2>1, <2>2, <2>3, <1>1 DEF OnSocketOK, Reusable
  <2> QED
    BY <2>1, <2>4, <1>2, <1>3 DEF OnSocketOK
<1>5. t.fn = "emitFree" => EmitFreeOK(v, rq2, ka2, t.req, t.sock)
  BY <1>2, <1>3 DEF TickOK, EmitFreeOK
<1>6. t.fn = "hangUp" => HangUpOK(rq2, og, t.req)
  BY <1>3 DEF TickOK, HangUpOK
<1>7. t.fn = "end" => t.req \in Requests /\ rq2[t.req].res = "read"
  BY <1>3 DEF TickOK
<1>8. t.fn = "error" => ErrorOK(v, t.sock)
  BY <1>2 DEF TickOK, ErrorOK
<1>9. t.fn = "close" => CloseOK(v, t.sock)
  BY <1>2 DEF TickOK, CloseOK
<1> QED
  BY <1>4, <1>5, <1>6, <1>7, <1>8, <1>9 DEF TickOK

LEMMA NearSocket ==
  ASSUME NEW w \in WorldType, NEW v \in WorldType, NEW rq \in ReqMap, NEW rq2 \in ReqMap,
         NEW ka \in KeepMap, NEW ka2 \in KeepMap,
         NEW s \in Sockets \cup {None}, NEW r \in Requests \cup {None},
         Near(w, v, rq, rq2, ka, ka2, s, r),
         NEW z \in Sockets, z # s, SocketOK(w, rq, z)
  PROVE  SocketOK(v, rq2, z)
<1>1. None \notin Sockets /\ v.conn[z] = w.conn[z]
  BY AgentAssumption DEF Near
<1>2. ASSUME "request" \in w.conn[z].listeners
      PROVE  w.conn[z].message \in Requests /\ w.conn[z].message # r
  BY <1>1, <1>2 DEF SocketOK, Near
<1>3. "request" \in w.conn[z].listeners => rq2[w.conn[z].message] = rq[w.conn[z].message]
  BY <1>2 DEF Near
<1> QED
  BY <1>1, <1>3 DEF SocketOK

LEMMA NearAttached ==
  ASSUME NEW w \in WorldType, NEW v \in WorldType, NEW rq \in ReqMap, NEW rq2 \in ReqMap,
         NEW ka \in KeepMap, NEW ka2 \in KeepMap,
         NEW s \in Sockets \cup {None}, NEW r \in Requests \cup {None},
         Near(w, v, rq, rq2, ka, ka2, s, r),
         NEW q \in Requests, q # r, Attached(w, rq, q)
  PROVE  /\ Attached(v, rq2, q)
         /\ Unclosed(w.conn[rq[q].socket]) => Unclosed(v.conn[rq2[q].socket])
<1>1. rq2[q] = rq[q]
  BY DEF Near
<1>2. CASE rq[q].socket # s
  <2>1. v.conn[rq[q].socket] = w.conn[rq[q].socket]
    BY <1>2 DEF Near, Attached
  <2> QED
    BY <2>1, <1>1 DEF Attached
<1>3. CASE rq[q].socket = s
  BY <1>1, <1>3 DEF Attached, Near
<1> QED
  BY <1>2, <1>3

\* Such a step keeps the invariant if the socket, the request and the ticks
\* about them are in order after it.
LEMMA NearSafe ==
  ASSUME NEW w \in WorldType, NEW v \in WorldType, NEW rq \in ReqMap, NEW rq2 \in ReqMap,
         NEW ka \in KeepMap, NEW ka2 \in KeepMap, NEW og,
         NEW s \in Sockets \cup {None}, NEW r \in Requests \cup {None},
         Safe(w, rq, ka, og), Near(w, v, rq, rq2, ka, ka2, s, r),
         Ordered(v.ticks),
         \A t \in ToSet(v.ticks) : \/ t \in ToSet(w.ticks) /\ Apart(t, s, r)
                                   \/ TickOK(v, rq2, ka2, og, t),
         \A t \in ToSet(v.ticks) : \/ t \in ToSet(w.ticks)
                                   \/ t.fn \notin {"onSocket", "hangUp"}
                                   \/ ~Queued(v, t.req),
         s \in Sockets => /\ \A n \in Origins : ListedOK(v, n, s)
                          /\ SocketOK(v, rq2, s),
         r \in Requests => /\ ReqOK(v, rq2, og, r)
                           /\ Queued(v, r) => Untouched(rq2[r])
  PROVE  Safe(v, rq2, ka2, og)
<1>1. \A n \in Origins : v.pool.requests[n] = w.pool.requests[n]
  BY DEF Near
<1>2. ASSUME NEW n \in Origins, NEW z \in Sockets
      PROVE  ListedOK(v, n, z)
  <2>1. CASE z # s
    BY <2>1 DEF Safe, ListedOK, Near
  <2> QED
    BY <2>1
<1>3. ASSUME NEW z \in Sockets
      PROVE  SocketOK(v, rq2, z)
  <2>1. CASE z # s
    <3>1. SocketOK(w, rq, z)
      BY DEF Safe
    <3> QED
      BY <2>1, <3>1, NearSocket
  <2> QED
    BY <2>1
<1>4. ASSUME NEW t \in ToSet(v.ticks)
      PROVE  TickOK(v, rq2, ka2, og, t)
  <2>1. CASE t \in ToSet(w.ticks) /\ Apart(t, s, r)
    <3>1. w.ticks \in Seq(TickType)
      BY DEF WorldType
    <3>2. t \in TickType
      BY <3>1, <2>1 DEF ToSet
    <3>3. TickOK(w, rq, ka, og, t)
      BY <2>1 DEF Safe
    <3> QED
      BY <2>1, <3>2, <3>3, NearTick
  <2> QED
    BY <2>1
<1>5. ASSUME NEW q \in Requests
      PROVE  ReqOK(v, rq2, og, q)
  <2>1. CASE q # r
    <3>1. ReqOK(w, rq, og, q) /\ rq2[q] = rq[q]
      BY <2>1 DEF Safe, Near
    <3>2. Attached(w, rq, q) => Attached(v, rq2, q)
      BY <2>1, NearAttached
    <3> QED
      BY <3>1, <3>2 DEF ReqOK
  <2> QED
    BY <2>1
<1>6. ASSUME NEW q \in Requests
      PROVE  QueueOK(v, rq2, q)
  <2> SUFFICES ASSUME Queued(v, q)
               PROVE  /\ Untouched(rq2[q])
                      /\ \A t \in ToSet(v.ticks) : t.fn \in {"onSocket", "hangUp"} => t.req # q
    BY DEF QueueOK
  <2>1. Queued(w, q)
    BY <1>1, NearQueued
  <2>2. /\ Untouched(rq[q])
        /\ \A t \in ToSet(w.ticks) : t.fn \in {"onSocket", "hangUp"} => t.req # q
    BY <2>1 DEF Safe, QueueOK
  <2>3. Untouched(rq2[q])
    BY <2>2 DEF Near
  <2> QED
    BY <2>2, <2>3
<1>7. \A n \in Origins : NoRepeats(v.pool.requests[n])
  BY <1>1 DEF Safe
<1>8. QueuedByName(v, og)
  BY <1>1 DEF Safe, QueuedByName
<1> QED
  BY <1>2, <1>3, <1>4, <1>5, <1>6, <1>7, <1>8 DEF Safe

\* From w to v no socket but s goes unheard and no request but r is lost.
Spares(w, v, rq, rq2, og, s, r) ==
    /\ \A z \in Sockets : z # s /\ Heard(w, z) => Heard(v, z)
    /\ \A q \in Requests : q # r /\ Kept(w, rq, og, q) => Kept(v, rq2, og, q)

LEMMA NearSpares ==
  ASSUME NEW w \in WorldType, NEW v \in WorldType, NEW rq \in ReqMap, NEW rq2 \in ReqMap,
         NEW ka \in KeepMap, NEW ka2 \in KeepMap, NEW og,
         NEW s \in Sockets \cup {None}, NEW r \in Requests \cup {None},
         Near(w, v, rq, rq2, ka, ka2, s, r),
         \A t \in ToSet(w.ticks) : t \in ToSet(v.ticks)
  PROVE  Spares(w, v, rq, rq2, og, s, r)
<1>1. ASSUME NEW z \in Sockets, z # s, Heard(w, z)
      PROVE  Heard(v, z)
  <2>1. v.conn[z] = w.conn[z]
    BY <1>1 DEF Near
  <2> QED
    BY <2>1, <1>1 DEF Heard
<1>2. ASSUME NEW q \in Requests, q # r, Kept(w, rq, og, q)
      PROVE  Kept(v, rq2, og, q)
  <2>1. rq2[q] = rq[q]
    BY <1>2 DEF Near
  <2>2. Queued(w, q) => Queued(v, q)
    BY NearQueued DEF Near
  <2>3. Attached(w, rq, q) => /\ Attached(v, rq2, q)
                              /\ Unclosed(w.conn[rq[q].socket]) => Unclosed(v.conn[rq2[q].socket])
    BY <1>2, NearAttached
  <2> QED
    BY <2>1, <2>2, <2>3, <1>2 DEF Kept
<1> QED
  BY <1>1, <1>2 DEF Spares


-----------------------------------------------------------------------------
(* A socket is destroyed. *)

WithConn(w, s, c) == [w EXCEPT !.conn[s] = c]
WithTicks(w, q) == [w EXCEPT !.ticks = q]

\* The fields of a world one socket of which is set.
LEMMA WithConnType ==
  ASSUME NEW w \in WorldType, NEW s \in Sockets, NEW c \in ConnType
  PROVE  /\ WithConn(w, s, c) \in WorldType
         /\ WithConn(w, s, c).pool = w.pool
         /\ WithConn(w, s, c).ticks = w.ticks
         /\ WithConn(w, s, c).conn[s] = c
         /\ \A z \in Sockets : z # s => WithConn(w, s, c).conn[z] = w.conn[z]
BY DEF WithConn, WorldType

\* The fields of a world whose queue of ticks is set.
LEMMA WithTicksType ==
  ASSUME NEW w \in WorldType, NEW q \in Seq(TickType)
  PROVE  /\ WithTicks(w, q) \in WorldType
         /\ WithTicks(w, q).pool = w.pool
         /\ WithTicks(w, q).conn = w.conn
         /\ WithTicks(w, q).ticks = q
BY DEF WithTicks, WorldType

LEMMA TickFields ==
  ASSUME NEW f \in {"onSocket", "end", "emitFree", "hangUp", "error", "close"},
         NEW r \in Requests \cup {None}, NEW s \in Sockets \cup {None}
  PROVE  /\ Tick(f, r, s) \in TickType
         /\ Tick(f, r, s).fn = f /\ Tick(f, r, s).req = r /\ Tick(f, r, s).sock = s
BY DEF Tick, TickType

WithState(c, x) == [c EXCEPT !.state = x]

LEMMA WithStateType ==
  ASSUME NEW c \in ConnType, NEW x \in {"unused", "open", "ended", "destroyed", "closed"}
  PROVE  /\ WithState(c, x) \in ConnType /\ WithState(c, x).state = x
         /\ WithState(c, x).target = c.target /\ WithState(c, x).message = c.message
         /\ WithState(c, x).listeners = c.listeners
         /\ WithState(c, x).hadError = c.hadError
BY DEF WithState, ConnType

\* What socket.destroy() does to a live socket; more are the ticks it queues.
Destroys(w, v, s) ==
    /\ v \in WorldType /\ v.pool = w.pool
    /\ \A z \in Sockets : z # s => v.conn[z] = w.conn[z]
    /\ v.conn[s] = WithState(w.conn[s], "destroyed")

LEMMA DestroyEffect ==
  ASSUME NEW w \in WorldType, NEW s \in Sockets, Live(w, s)
  PROVE  /\ Destroys(w, DestroySocket(w, s), s)
         /\ DestroySocket(w, s).ticks = IF CloseByTick
                                        THEN Append(w.ticks, Tick("close", None, s))
                                        ELSE w.ticks
<1>1. w.conn[s] \in ConnType /\ w.ticks \in Seq(TickType)
  BY DEF WorldType
<1>2. PICK c : c = WithState(w.conn[s], "destroyed")
  OBVIOUS
<1>3. c \in ConnType
  BY <1>1, <1>2, WithStateType
<1>4. PICK u : u = WithConn(w, s, c)
  OBVIOUS
<1>5. /\ u \in WorldType /\ u.pool = w.pool /\ u.ticks = w.ticks /\ u.conn[s] = c
      /\ \A z \in Sockets : z # s => u.conn[z] = w.conn[z]
  BY <1>3, <1>4, WithConnType
<1>6. PICK q : q = Append(w.ticks, Tick("close", None, s))
  OBVIOUS
<1>7. q \in Seq(TickType)
  <2>1. Tick("close", None, s) \in TickType
    BY TickFields
  <2> QED
    BY <2>1, <1>1, <1>6
<1>8. CASE CloseByTick
  <2>1. DestroySocket(w, s) = WithTicks(u, q)
    BY <1>2, <1>4, <1>6, <1>8 DEF DestroySocket, WithTicks, WithConn, WithState, WorldType
  <2>2. PICK v : v = WithTicks(u, q)
    OBVIOUS
  <2>3. v \in WorldType /\ v.pool = u.pool /\ v.conn = u.conn /\ v.ticks = q
    BY <1>5, <1>7, <2>2, WithTicksType
  <2>4. Destroys(w, v, s) /\ v.ticks = q
    BY <2>3, <1>2, <1>5 DEF Destroys
  <2> QED
    BY <2>1, <2>2, <2>4, <1>6, <1>8
<1>9. CASE ~CloseByTick
  <2>1. DestroySocket(w, s) = u
    BY <1>2, <1>4, <1>9 DEF DestroySocket, WithConn, WithState, WorldType
  <2>2. Destroys(w, u, s) /\ u.ticks = w.ticks
    BY <1>2, <1>5 DEF Destroys
  <2> QED
    BY <2>1, <2>2, <1>9
<1> QED
  BY <1>8, <1>9

LEMMA DestroyWithErrorEffect ==
  ASSUME NEW w \in WorldType, NEW s \in Sockets, Live(w, s),
         NEW q, q = Append(w.ticks, Tick("error", None, s))
  PROVE  /\ Destroys(w, DestroySocketWithError(w, s), s)
         /\ DestroySocketWithError(w, s).ticks = IF CloseByTick
                                                 THEN Append(q, Tick("close", None, s)) ELSE q
<1>1. w.ticks \in Seq(TickType)
  BY DEF WorldType
<1>2. q \in Seq(TickType)
  <2>1. Tick("error", None, s) \in TickType
    BY TickFields
  <2> QED
    BY <2>1, <1>1
<1>3. PICK u : u = WithTicks(w, q)
  OBVIOUS
<1>4. u \in WorldType /\ u.pool = w.pool /\ u.conn = w.conn /\ u.ticks = q
  BY <1>2, <1>3, WithTicksType
<1>5. DestroySocketWithError(w, s) = DestroySocket(u, s)
  BY <1>3 DEF DestroySocketWithError, WithTicks
<1>6. Live(u, s)
  BY <1>4 DEF Live
<1>7. /\ Destroys(u, DestroySocket(u, s), s)
      /\ DestroySocket(u, s).ticks = IF CloseByTick
                                     THEN Append(u.ticks, Tick("close", None, s))
                                     ELSE u.ticks
  BY <1>4, <1>6, DestroyEffect
<1>8. Destroys(w, DestroySocket(u, s), s)
  BY <1>4, <1>7 DEF Destroys
<1> QED
  BY <1>4, <1>5, <1>7, <1>8

\* v keeps the sockets and the requests of w that were heard of.
Keeps(w, v, rq, og) ==
    /\ \A z \in Sockets : Heard(w, z) => Heard(v, z)
    /\ \A q \in Requests : Kept(w, rq, og, q) => Kept(v, rq, og, q)

\* A destroyed socket keeps the invariant: the ticks it queues are its last.
LEMMA DestroysSafe ==
  ASSUME NEW w \in WorldType, NEW v, NEW s \in Sockets, Live(w, s), Destroys(w, v, s),
         NEW rq \in ReqMap, NEW ka \in KeepMap, NEW og, Safe(w, rq, ka, og),
         Ordered(v.ticks), \A t \in ToSet(w.ticks) : t \in ToSet(v.ticks),
         \A t \in ToSet(v.ticks) : \/ t \in ToSet(w.ticks)
                                   \/ t \in {Tick("error", None, s), Tick("close", None, s)}
  PROVE  Safe(v, rq, ka, og) /\ Keeps(w, v, rq, og)
<1>1. /\ v \in WorldType /\ v.pool = w.pool /\ w.conn[s] \in ConnType
      /\ None \notin Sockets /\ None \notin Requests
  BY AgentAssumption DEF Destroys, WorldType
<1>2. /\ v.conn[s].state = "destroyed" /\ v.conn[s].message = w.conn[s].message
      /\ v.conn[s].listeners = w.conn[s].listeners
      /\ v.conn[s].target = w.conn[s].target
      /\ v.conn[s].hadError = w.conn[s].hadError
  BY <1>1, WithStateType DEF Destroys
<1>3. Near(w, v, rq, rq, ka, ka, s, None)
  BY <1>1, <1>2 DEF Near, Destroys, Unclosed
<1>4. w.conn[s].state \in {"open", "ended"} /\ ~w.conn[s].hadError
  BY DEF Live, Safe, SocketOK
<1>5. SocketOK(v, rq, s)
  <2>1. SocketOK(w, rq, s)
    BY DEF Safe
  <2> QED
    BY <2>1, <1>2, <1>4 DEF SocketOK
<1>6. \A n \in Origins : ListedOK(v, n, s)
  BY <1>1, <1>2 DEF Safe, ListedOK, Unclosed
<1>7. ASSUME NEW t \in ToSet(v.ticks)
      PROVE  TickOK(v, rq, ka, og, t) /\ (t \in ToSet(w.ticks) \/ t.fn \notin {"onSocket", "hangUp"})
  <2>1. CASE t = Tick("error", None, s)
    <3>1. t.fn = "error" /\ t.sock = s
      BY <2>1 DEF Tick
    <3> QED
      BY <3>1, <1>2, <1>4 DEF TickOK, ErrorOK
  <2>2. CASE t = Tick("close", None, s)
    <3>1. t.fn = "close" /\ t.sock = s
      BY <2>2 DEF Tick
    <3> QED
      BY <3>1, <1>2 DEF TickOK, CloseOK
  <2>3. CASE t \in ToSet(w.ticks)
    <3>1. TickOK(w, rq, ka, og, t)
      BY <2>3 DEF Safe
    <3>2. t \in TickType
      BY <2>3 DEF ToSet, WorldType
    <3>3. CASE t.sock # s
      <4>1. Apart(t, s, None)
        BY <3>3 DEF Apart
      <4> QED
        BY <2>3, <3>1, <3>2, <4>1, <1>1, <1>3, NearTick
    <3>4. CASE t.sock = s
      <4>1. t.fn # "error" /\ t.fn # "close"
        BY <3>1, <3>4, <1>4 DEF TickOK, ErrorOK, CloseOK
      <4>2. t.fn = "onSocket" => OnSocketOK(v, rq, ka, og, t.req, t.sock)
        BY <3>1, <3>4, <1>2 DEF TickOK, OnSocketOK, Unclosed, Reusable, Bare
      <4>3. t.fn = "emitFree" => EmitFreeOK(v, rq, ka, t.req, t.sock)
        BY <3>1, <3>4, <1>2 DEF TickOK, EmitFreeOK, Bare
      <4>4. t.fn = "hangUp" => HangUpOK(rq, og, t.req)
        BY <3>1 DEF TickOK
      <4>5. t.fn = "end" => t.req \in Requests /\ rq[t.req].res = "read"
        BY <3>1 DEF TickOK
      <4> QED
        BY <2>3, <4>1, <4>2, <4>3, <4>4, <4>5 DEF TickOK
    <3> QED
      BY <3>3, <3>4
  <2> QED
    BY <2>1, <2>2, <2>3
<1>8. Safe(v, rq, ka, og)
  <2>1. None \notin Requests
    BY <1>1
  <2> QED
    BY <2>1, <1>1, <1>3, <1>5, <1>6, <1>7, NearSafe
<1>9. Keeps(w, v, rq, og)
  <2>1. Spares(w, v, rq, rq, og, s, None)
    BY <1>1, <1>3, NearSpares
  <2>2. Heard(v, s)
    BY <1>2 DEF Heard
  <2> QED
    BY <2>1, <2>2, <1>1 DEF Keeps, Spares
<1> QED
  BY <1>8, <1>9

\* An error and the closing of a live socket go to the end of the queue.
LEMMA LastTicks ==
  ASSUME NEW w \in WorldType, NEW s \in Sockets, Live(w, s),
         NEW rq, NEW ka, NEW og, Safe(w, rq, ka, og),
         NEW q, q \in {w.ticks, Append(w.ticks, Tick("error", None, s))},
         NEW p, p \in {q, Append(q, Tick("close", None, s))}
  PROVE  /\ Ordered(p) /\ \A t \in ToSet(w.ticks) : t \in ToSet(p)
         /\ \A t \in ToSet(p) : \/ t \in ToSet(w.ticks)
                                \/ t \in {Tick("error", None, s), Tick("close", None, s)}
<1> DEFINE e == Tick("error", None, s)
           c == Tick("close", None, s)
<1>1. /\ e \in TickType /\ e.fn = "error" /\ e.sock = s
      /\ c \in TickType /\ c.fn = "close" /\ c.sock = s
  BY TickFields
<1>2. w.ticks \in Seq(TickType) /\ Ordered(w.ticks)
  BY DEF WorldType, Safe
<1>3. ASSUME NEW t \in ToSet(w.ticks)
      PROVE  ~Clash(t, e) /\ ~Clash(t, c)
  <2>1. TickOK(w, rq, ka, og, t)
    BY <1>3 DEF Safe
  <2>2. t.fn \in {"error", "close"} => t.sock # s
    BY <2>1 DEF TickOK, ErrorOK, CloseOK, Live
  <2> QED
    BY <2>2, <1>1 DEF Clash
<1>4. ~Clash(e, c)
  BY <1>1 DEF Clash
<1> HIDE DEF e, c
<1>5. /\ q \in Seq(TickType) /\ Ordered(q)
      /\ \A t \in ToSet(w.ticks) : t \in ToSet(q)
      /\ \A t \in ToSet(q) : t \in ToSet(w.ticks) \/ t = e
  <2>1. CASE q = w.ticks
    BY <2>1, <1>2
  <2>2. CASE q = Append(w.ticks, e)
    <3>1. /\ q \in Seq(TickType) /\ ToSet(q) = ToSet(w.ticks) \cup {e} /\ Ordered(q)
      BY <2>2, <1>1, <1>2, <1>3, AppendedTick
    <3> QED
      BY <3>1
  <2> QED
    BY <2>1, <2>2 DEF e
<1>6. CASE p = q
  BY <1>5, <1>6 DEF e
<1>7. CASE p = Append(q, c)
  <2>1. \A t \in ToSet(q) : ~Clash(t, c)
    BY <1>3, <1>4, <1>5
  <2>2. ToSet(p) = ToSet(q) \cup {c} /\ Ordered(p)
    BY <2>1, <1>1, <1>5, <1>7, AppendedTick
  <2> QED
    BY <2>2, <1>5 DEF e, c
<1> QED
  BY <1>6, <1>7 DEF c

LEMMA DestroySafe ==
  ASSUME NEW w \in WorldType, NEW s \in Sockets, NEW rq \in ReqMap, NEW ka \in KeepMap,
         NEW og, Safe(w, rq, ka, og),
         NEW v, v \in {DestroySocket(w, s), DestroySocketWithError(w, s)}
  PROVE  Safe(v, rq, ka, og) /\ Keeps(w, v, rq, og)
<1>1. CASE ~Live(w, s)
  BY <1>1 DEF DestroySocket, DestroySocketWithError, Keeps
<1>2. CASE Live(w, s)
  <2>1. PICK q : /\ q \in {w.ticks, Append(w.ticks, Tick("error", None, s))}
                 /\ v.ticks \in {q, Append(q, Tick("close", None, s))}
                 /\ Destroys(w, v, s)
    <3>1. CASE v = DestroySocket(w, s)
      BY <3>1, <1>2, DestroyEffect
    <3>2. CASE v = DestroySocketWithError(w, s)
      BY <3>2, <1>2, DestroyWithErrorEffect
    <3> QED
      BY <3>1, <3>2
  <2>2. /\ Ordered(v.ticks) /\ \A t \in ToSet(w.ticks) : t \in ToSet(v.ticks)
        /\ \A t \in ToSet(v.ticks) : \/ t \in ToSet(w.ticks)
                                     \/ t \in {Tick("error", None, s), Tick("close", None, s)}
    BY <2>1, <1>2, LastTicks
  <2> QED
    BY <2>1, <2>2, <1>2, DestroysSafe
<1> QED
  BY <1>1, <1>2


-----------------------------------------------------------------------------
(* A waiting request gets a socket. *)

\* The first request waiting under name n leaves its queue for socket s.
Serves(w, v, n, s) ==
    /\ v \in WorldType /\ v.conn = w.conn
    /\ v.pool.sockets = w.pool.sockets /\ v.pool.freeSockets = w.pool.freeSockets
    /\ v.pool.total = w.pool.total
    /\ Len(w.pool.requests[n]) > 0
    /\ v.pool.requests[n] = Tail(w.pool.requests[n])
    /\ \A m \in Origins : m # n => v.pool.requests[m] = w.pool.requests[m]
    /\ v.ticks = Append(w.ticks, Tick("onSocket", w.pool.requests[n][1], s))

\* Socket s can be offered to a request.
Vacant(w, rq, ka, s) ==
    /\ w.conn[s].state = "open"
    /\ Reusable(w.conn[s], rq, ka)
    /\ \A t \in ToSet(w.ticks) : ~Taking(t, s)

\* Only request r has left its queue.
Leaves(w, v, og, r) ==
    /\ r \in Requests /\ Queued(w, r) /\ ~Queued(v, r) /\ og[r] \in Origins
    /\ \A x \in Requests : x # r => (Queued(v, x) <=> Queued(w, x))
    /\ \A m \in Origins : NoRepeats(v.pool.requests[m])
    /\ QueuedByName(v, og)

LEMMA TailOf ==
  ASSUME NEW S, NEW q \in Seq(S), Len(q) > 0
  PROVE  /\ Len(Tail(q)) \in Nat
         /\ 1 \in 1..Len(q)
         /\ \A i \in 1..Len(Tail(q)) : i + 1 \in 1..Len(q) /\ Tail(q)[i] = q[i + 1]
         /\ \A i \in 1..Len(q) : i # 1 => i - 1 \in 1..Len(Tail(q)) /\ Tail(q)[i - 1] = q[i]
OBVIOUS

\* Whoever else waits still does, and the one that is served does not.
LEMMA ServedQueue ==
  ASSUME NEW w \in WorldType, NEW v \in WorldType, NEW og, NEW n \in Origins, NEW s,
         Serves(w, v, n, s), QueuedByName(w, og),
         \A m \in Origins : NoRepeats(w.pool.requests[m]),
         NEW r, r = w.pool.requests[n][1]
  PROVE  Leaves(w, v, og, r)
<1> DEFINE q == w.pool.requests[n]
           p == Tail(q)
<1>1. /\ w.pool.requests \in [Origins -> Seq(Requests)]
      /\ q \in Seq(Requests) /\ Len(q) > 0 /\ v.pool.requests[n] = p
      /\ \A m \in Origins : m # n => v.pool.requests[m] = w.pool.requests[m]
  BY DEF WorldType, PoolType, Serves
<1>2. /\ Len(p) \in Nat /\ 1 \in 1..Len(q)
      /\ \A i \in 1..Len(p) : i + 1 \in 1..Len(q) /\ p[i] = q[i + 1]
      /\ \A i \in 1..Len(q) : i # 1 => i - 1 \in 1..Len(p) /\ p[i - 1] = q[i]
  <2> HIDE DEF q
  <2> QED
    BY <1>1, TailOf
<1>3. r = q[1] /\ r \in Requests /\ Queued(w, r) /\ og[r] \in Origins /\ GetName(og[r]) = n
  BY <1>1, <1>2 DEF Queued, QueuedByName
<1>4. \A m \in Origins : \A i \in 1..Len(w.pool.requests[m]) :
         w.pool.requests[m][i] = r => m = n
  BY <1>3 DEF QueuedByName
<1>5. NoRepeats(q)
  OBVIOUS
<1> HIDE DEF p, q
<1>6. \A i \in 1..Len(p) : p[i] # r
  <2> SUFFICES ASSUME NEW i \in 1..Len(p), p[i] = r PROVE FALSE
    OBVIOUS
  <2>1. i + 1 \in 1..Len(q) /\ q[i + 1] = q[1] /\ i + 1 # 1
    BY <1>2, <1>3
  <2> QED
    BY <2>1, <1>2, <1>5 DEF NoRepeats
<1>7. ~Queued(v, r)
  <2> SUFFICES ASSUME NEW m \in Origins, NEW i \in 1..Len(v.pool.requests[m]),
                      v.pool.requests[m][i] = r
               PROVE  FALSE
    BY DEF Queued
  <2> QED
    BY <1>1, <1>4, <1>6
<1>8. ASSUME NEW x \in Requests, x # r, Queued(v, x)
      PROVE  Queued(w, x)
  <2>1. PICK m \in Origins : \E i \in 1..Len(v.pool.requests[m]) : v.pool.requests[m][i] = x
    BY <1>8 DEF Queued
  <2>2. PICK i \in 1..Len(v.pool.requests[m]) : v.pool.requests[m][i] = x
    BY <2>1
  <2>3. CASE m = n
    <3>1. i + 1 \in 1..Len(q) /\ q[i + 1] = x
      BY <2>2, <2>3, <1>1, <1>2
    <3> QED
      BY <3>1 DEF Queued, q
  <2>4. CASE m # n
    BY <2>2, <2>4, <1>1 DEF Queued
  <2> QED
    BY <2>3, <2>4
<1>9. ASSUME NEW x \in Requests, x # r, Queued(w, x)
      PROVE  Queued(v, x)
  <2>1. PICK m \in Origins : \E i \in 1..Len(w.pool.requests[m]) : w.pool.requests[m][i] = x
    BY <1>9 DEF Queued
  <2>2. PICK i \in 1..Len(w.pool.requests[m]) : w.pool.requests[m][i] = x
    BY <2>1
  <2>3. CASE m = n
    <3>1. i \in 1..Len(q) /\ q[i] = x
      BY <2>2, <2>3 DEF q
    <3>2. i # 1
      BY <3>1, <1>3, <1>9
    <3>3. i - 1 \in 1..Len(p) /\ p[i - 1] = x
      BY <3>1, <3>2, <1>2
    <3> QED
      BY <3>3, <1>1 DEF Queued
  <2>4. CASE m # n
    BY <2>2, <2>4, <1>1 DEF Queued
  <2> QED
    BY <2>3, <2>4
<1>10. ASSUME NEW m \in Origins
       PROVE  NoRepeats(v.pool.requests[m])
  <2>1. CASE m = n
    <3> SUFFICES ASSUME NEW i \in 1..Len(p), NEW j \in 1..Len(p), p[i] = p[j]
                 PROVE  i = j
      BY <2>1, <1>1 DEF NoRepeats
    <3>1. /\ i + 1 \in 1..Len(q) /\ j + 1 \in 1..Len(q) /\ q[i + 1] = q[j + 1]
      BY <1>2
    <3>2. i + 1 = j + 1
      BY <3>1, <1>5 DEF NoRepeats
    <3> QED
      BY <3>2, <1>2
  <2>2. CASE m # n
    BY <2>2, <1>1
  <2> QED
    BY <2>1, <2>2
<1>11. QueuedByName(v, og)
  <2> SUFFICES ASSUME NEW m \in Origins, NEW i \in 1..Len(v.pool.requests[m])
               PROVE  /\ og[v.pool.requests[m][i]] \in Origins
                      /\ GetName(og[v.pool.requests[m][i]]) = m
    BY DEF QueuedByName
  <2>1. CASE m = n
    <3>1. i + 1 \in 1..Len(q) /\ v.pool.requests[m][i] = q[i + 1]
      BY <2>1, <1>1, <1>2
    <3> QED
      BY <3>1, <2>1 DEF QueuedByName, q
  <2>2. CASE m # n
    BY <2>2, <1>1 DEF QueuedByName
  <2> QED
    BY <2>1, <2>2
<1> QED
  BY <1>3, <1>7, <1>8, <1>9, <1>10, <1>11 DEF Leaves

LEMMA ServesSafe ==
  ASSUME NEW w \in WorldType, NEW v, NEW rq \in ReqMap, NEW ka \in KeepMap, NEW og \in OriginMap,
         NEW n \in Origins, NEW s \in Sockets,
         Safe(w, rq, ka, og), Serves(w, v, n, s), Vacant(w, rq, ka, s)
  PROVE  Safe(v, rq, ka, og) /\ Keeps(w, v, rq, og) /\ Heard(v, s)
<1>1. PICK r : r = w.pool.requests[n][1]
  OBVIOUS
<1> DEFINE t0 == Tick("onSocket", r, s)
<1>2. /\ v \in WorldType /\ v.conn = w.conn
      /\ v.pool.sockets = w.pool.sockets /\ v.pool.freeSockets = w.pool.freeSockets
      /\ v.ticks = Append(w.ticks, t0) /\ w.ticks \in Seq(TickType)
  BY <1>1 DEF Serves, WorldType
<1>3. /\ r \in Requests /\ Queued(w, r) /\ ~Queued(v, r) /\ og[r] \in Origins
      /\ \A x \in Requests : x # r => (Queued(v, x) <=> Queued(w, x))
      /\ \A m \in Origins : NoRepeats(v.pool.requests[m])
      /\ QueuedByName(v, og)
  <2>1. QueuedByName(w, og)
    BY DEF Safe
  <2>2. \A m \in Origins : NoRepeats(w.pool.requests[m])
    BY DEF Safe
  <2>3. v \in WorldType
    BY <1>2
  <2> QED
    BY <2>1, <2>2, <2>3, <1>1, ServedQueue DEF Leaves
<1>4. /\ t0 \in TickType /\ t0.fn = "onSocket" /\ t0.req = r /\ t0.sock = s
      /\ None \notin Requests /\ None \notin Origins
  BY <1>3, TickFields, AgentAssumption
<1> HIDE DEF t0
<1>5. /\ Untouched(rq[r])
      /\ \A t \in ToSet(w.ticks) : t.fn \in {"onSocket", "hangUp"} => t.req # r
  BY <1>3 DEF Safe, QueueOK
<1>6. ASSUME NEW t \in ToSet(w.ticks)
      PROVE  ~Clash(t, t0) /\ TickOK(w, rq, ka, og, t)
  <2>1. TickOK(w, rq, ka, og, t)
    BY <1>6 DEF Safe
  <2>2. t.fn \in {"onSocket", "hangUp"} => t.req # r
    BY <1>5, <1>6
  <2>3. t.fn \in {"onSocket", "emitFree"} => t.sock # s
    BY <1>6 DEF Vacant, Taking
  <2>4. t.fn = "close" => t.sock # s
    BY <2>1 DEF TickOK, CloseOK, Vacant
  <2> QED
    BY <2>1, <2>2, <2>3, <2>4, <1>4 DEF Clash
<1>7. ToSet(v.ticks) = ToSet(w.ticks) \cup {t0} /\ Ordered(v.ticks)
  <2>1. Ordered(w.ticks)
    BY DEF Safe
  <2> QED
    BY <2>1, <1>2, <1>4, <1>6, AppendedTick
<1>8. TickOK(v, rq, ka, og, t0)
  <2>1. OnSocketOK(v, rq, ka, og, r, s)
    BY <1>2, <1>3, <1>4, <1>5 DEF OnSocketOK, Vacant, Unclosed
  <2> QED
    BY <2>1, <1>4 DEF TickOK
<1>9. ASSUME NEW t \in ToSet(v.ticks)
      PROVE  TickOK(v, rq, ka, og, t)
  <2>1. CASE t \in ToSet(w.ticks)
    <3>1. TickOK(w, rq, ka, og, t)
      BY <2>1, <1>6
    <3> QED
      BY <3>1, <1>2 DEF TickOK, OnSocketOK, EmitFreeOK, ErrorOK, CloseOK
  <2> QED
    BY <2>1, <1>7, <1>8
<1>10. ASSUME NEW x \in Requests
      PROVE  QueueOK(v, rq, x) /\ ReqOK(v, rq, og, x)
  <2>1. ReqOK(v, rq, og, x)
    BY <1>2 DEF Safe, ReqOK, Attached
  <2>2. ASSUME Queued(v, x)
        PROVE  Untouched(rq[x])
               /\ \A t \in ToSet(v.ticks) : t.fn \in {"onSocket", "hangUp"} => t.req # x
    <3>1. x # r /\ Queued(w, x)
      BY <2>2, <1>3
    <3>2. QueueOK(w, rq, x)
      BY DEF Safe
    <3> QED
      BY <3>1, <3>2, <1>4, <1>7 DEF QueueOK
  <2> QED
    BY <2>1, <2>2 DEF QueueOK
<1>11. Safe(v, rq, ka, og)
  <2>1. \A m \in Origins, z \in Sockets : ListedOK(v, m, z)
    BY <1>2 DEF Safe, ListedOK
  <2>2. \A z \in Sockets : SocketOK(v, rq, z)
    BY <1>2 DEF Safe, SocketOK
  <2> QED
    BY <2>1, <2>2, <1>3, <1>7, <1>9, <1>10 DEF Safe
<1>12. Keeps(w, v, rq, og)
  <2>1. \A z \in Sockets : Heard(w, z) => Heard(v, z)
    BY <1>2, <1>7 DEF Heard
  <2>2. ASSUME NEW x \in Requests, Kept(w, rq, og, x)
        PROVE  Kept(v, rq, og, x)
    <3>1. CASE x = r
      BY <3>1, <1>4, <1>7 DEF Kept
    <3>2. CASE x # r
      BY <3>2, <2>2, <1>2, <1>3, <1>7 DEF Kept, Attached
    <3> QED
      BY <3>1, <3>2
  <2> QED
    BY <2>1, <2>2 DEF Keeps
<1>13. Heard(v, s)
  BY <1>4, <1>7 DEF Heard, Taking
<1> QED
  BY <1>11, <1>12, <1>13


-----------------------------------------------------------------------------
(* A new socket for a waiting request. *)

\* Socket k, in no list before, is created for origin o.
Makes(w, u, k, o) ==
    /\ u \in WorldType /\ k \in Fresh(w)
    /\ u.conn[k] = [state |-> "open", target |-> o, message |-> None,
                    listeners |-> {"agent"}, hadError |-> FALSE]
    /\ \A z \in Sockets : z # k => u.conn[z] = w.conn[z]
    /\ u.ticks = w.ticks
    /\ u.pool.requests = w.pool.requests
    /\ u.pool.freeSockets = w.pool.freeSockets
    /\ u.pool.sockets[GetName(o)] = w.pool.sockets[GetName(o)] \cup {k}
    /\ \A n \in Origins : n # GetName(o) => u.pool.sockets[n] = w.pool.sockets[n]
    /\ u.pool.total = w.pool.total + 1

\* The agent created a socket and handed it to a waiting request, or did nothing.
Refills(w, v) ==
    v = w \/ \E u \in WorldType, k \in Sockets, o \in Origins :
                Makes(w, u, k, o) /\ Serves(u, v, GetName(o), k)

LEMMA MakesEffect ==
  ASSUME NEW w, NEW og, WorldOK(w, og), NEW s \in Fresh(w), NEW o \in Origins
  PROVE  Makes(w, NewSocket(w, s, o), s, o)
<1> DEFINE v == NewSocket(w, s, o)
           c == [state |-> "open", target |-> o, message |-> None,
                 listeners |-> {"agent"}, hadError |-> FALSE]
<1>1. w \in WorldType /\ s \in Sockets /\ GetName(o) \in Origins
  BY GetNameType DEF WorldOK, Fresh
<1>2. v \in WorldType /\ v.pool.requests = w.pool.requests
  BY NewSocketOK DEF WorldOK
<1>3. /\ v.conn = [w.conn EXCEPT ![s] = c]
      /\ v.ticks = w.ticks
      /\ v.pool = [w.pool EXCEPT !.sockets[GetName(o)] = @ \cup {s}, !.total = @ + 1]
  BY <1>1 DEF NewSocket, WorldType
<1> HIDE DEF v
<1>4. v.conn[s] = c /\ \A z \in Sockets : z # s => v.conn[z] = w.conn[z]
  <2> HIDE DEF c
  <2> QED
    BY <1>1, <1>3 DEF WorldType
<1>5. /\ v.pool.freeSockets = w.pool.freeSockets
      /\ v.pool.total = w.pool.total + 1
      /\ v.pool.sockets = [w.pool.sockets EXCEPT ![GetName(o)] = @ \cup {s}]
  BY <1>1, <1>3 DEF WorldType, PoolType
<1>6. /\ v.pool.sockets[GetName(o)] = w.pool.sockets[GetName(o)] \cup {s}
      /\ \A n \in Origins : n # GetName(o) => v.pool.sockets[n] = w.pool.sockets[n]
  BY <1>1, <1>5 DEF WorldType, PoolType
<1> QED
  BY <1>2, <1>3, <1>4, <1>5, <1>6 DEF Makes, v

LEMMA ServeFirstEffect ==
  ASSUME NEW w, NEW og, WorldOK(w, og), NEW n \in Origins, NEW s \in Sockets,
         w.pool.requests[n] # <<>>,
         w.conn[s].target \in Origins, GetName(w.conn[s].target) = n
  PROVE  Serves(w, ServeFirst(w, n, s), n, s)
<1> DEFINE v == ServeFirst(w, n, s)
<1>1. PICK q : q = Tail(w.pool.requests[n])
  OBVIOUS
<1>2. PICK k : k = IF q = <<>> THEN Without(w.pool.keys, n) ELSE w.pool.keys
  OBVIOUS
<1>3. PICK t : t = Tick("onSocket", Head(w.pool.requests[n]), s)
  OBVIOUS
<1>4. PICK p : p = WithQueues(w.pool, [w.pool.requests EXCEPT ![n] = q], k)
  OBVIOUS
<1>5. w \in WorldType /\ v \in WorldType
  BY ServeFirstOK DEF WorldOK
<1>6. v = [w EXCEPT !.pool = p, !.ticks = Append(@, t)]
  BY <1>1, <1>2, <1>3, <1>4, <1>5
     DEF ServeFirst, SetRequestSocket, WithQueues, WorldType, PoolType
<1> HIDE DEF v
<1>7. v.conn = w.conn /\ v.pool = p /\ v.ticks = Append(w.ticks, t)
  BY <1>5, <1>6 DEF WorldType
<1>8. /\ p.sockets = w.pool.sockets /\ p.freeSockets = w.pool.freeSockets
      /\ p.total = w.pool.total /\ p.requests = [w.pool.requests EXCEPT ![n] = q]
  BY <1>4, <1>5 DEF WithQueues, WorldType, PoolType
<1>9. w.pool.requests \in [Origins -> Seq(Requests)]
  BY <1>5 DEF WorldType, PoolType
<1>10. p.requests[n] = q /\ \A m \in Origins : m # n => p.requests[m] = w.pool.requests[m]
  BY <1>8, <1>9
<1>11. Len(w.pool.requests[n]) > 0 /\ Head(w.pool.requests[n]) = w.pool.requests[n][1]
  BY <1>9
<1> QED
  BY <1>1, <1>3, <1>5, <1>7, <1>8, <1>10, <1>11 DEF Serves, v

LEMMA SocketForWaitingEffect ==
  ASSUME NEW w, NEW og, WorldOK(w, og), NEW o \in Origins,
         w.pool.requests[GetName(o)] # <<>>
  PROVE  Refills(w, SocketForWaiting(w, o))
<1>1. CASE Fresh(w) = {}
  BY <1>1 DEF SocketForWaiting, Refills
<1>2. CASE Fresh(w) # {}
  <2> DEFINE v == SocketForWaiting(w, o)
  <2>1. PICK s : s = CHOOSE x \in Fresh(w) : TRUE
    OBVIOUS
  <2>2. PICK u : u = NewSocket(w, s, o)
    OBVIOUS
  <2>3. s \in Fresh(w) /\ s \in Sockets /\ GetName(o) \in Origins
    BY <1>2, <2>1, GetNameType DEF Fresh
  <2>4. /\ WorldOK(u, og) /\ u.conn[s].target = o /\ u.pool.requests = w.pool.requests
        /\ u \in WorldType
    BY <2>2, <2>3, NewSocketOK DEF WorldOK
  <2>5. Makes(w, u, s, o)
    BY <2>2, <2>3, MakesEffect
  <2>6. Serves(u, ServeFirst(u, GetName(o), s), GetName(o), s)
    BY <2>3, <2>4, ServeFirstEffect
  <2>7. v = ServeFirst(u, GetName(o), s)
    BY <1>2, <2>1, <2>2 DEF SocketForWaiting
  <2> QED
    BY <2>3, <2>4, <2>5, <2>6, <2>7 DEF Refills
<1> QED
  BY <1>1, <1>2

LEMMA RefillEffect ==
  ASSUME NEW w, WorldOK(w, origin), NEW s \in Sockets, w.conn[s].target \in Origins
  PROVE  Refills(w, Refill(w, s))
<1> DEFINE n == GetName(w.conn[s].target)
           m == Head(w.pool.keys)
           r == Head(w.pool.requests[m])
<1>1. CASE w.pool.requests[n] # <<>>
  BY <1>1, SocketForWaitingEffect DEF Refill
<1>2. CASE w.pool.requests[n] = <<>> /\ w.pool.keys # <<>> /\ w.pool.sockets[m] = {}
  <2>1. /\ w.pool.requests \in [Origins -> Seq(Requests)]
        /\ w.pool.keys \in Seq(Origins)
    BY DEF WorldOK, WorldType, PoolType
  <2>2. 1 \in 1..Len(w.pool.keys) /\ m = w.pool.keys[1] /\ m \in Origins
    BY <2>1, <1>2
  <2>3. Len(w.pool.requests[m]) > 0
    BY <2>2 DEF WorldOK, KeysMatch, KeysOf
  <2> HIDE DEF m
  <2>4. w.pool.requests[m] # <<>> /\ 1 \in 1..Len(w.pool.requests[m])
        /\ r = w.pool.requests[m][1]
    BY <2>1, <2>2, <2>3
  <2>5. origin[r] \in Origins /\ GetName(origin[r]) = m
    BY <2>2, <2>4 DEF WorldOK, QueuedByName
  <2> HIDE DEF r
  <2>6. Refills(w, SocketForWaiting(w, origin[r]))
    BY <2>4, <2>5, SocketForWaitingEffect
  <2>7. Refill(w, s) = SocketForWaiting(w, origin[r])
    BY <1>2 DEF Refill, m, r
  <2> QED
    BY <2>6, <2>7
<1>3. CASE w.pool.requests[n] = <<>> /\ ~(w.pool.keys # <<>> /\ w.pool.sockets[m] = {})
  BY <1>3 DEF Refill, Refills
<1> QED
  BY <1>1, <1>2, <1>3


LEMMA MakesSafe ==
  ASSUME NEW w \in WorldType, NEW u, NEW rq \in ReqMap, NEW ka \in KeepMap, NEW og \in OriginMap,
         NEW k \in Sockets, NEW o \in Origins,
         Safe(w, rq, ka, og), Makes(w, u, k, o)
  PROVE  /\ Safe(u, rq, ka, og) /\ Vacant(u, rq, ka, k)
         /\ \A z \in Sockets : z # k /\ Heard(w, z) => Heard(u, z)
         /\ \A q \in Requests : Kept(w, rq, og, q) => Kept(u, rq, og, q)
<1> DEFINE c == u.conn[k]
<1>1. /\ u \in WorldType /\ u.ticks = w.ticks
      /\ u.pool.requests = w.pool.requests /\ u.pool.freeSockets = w.pool.freeSockets
      /\ \A n \in Origins : n # GetName(o) => u.pool.sockets[n] = w.pool.sockets[n]
      /\ u.pool.sockets[GetName(o)] = w.pool.sockets[GetName(o)] \cup {k}
      /\ \A z \in Sockets : z # k => u.conn[z] = w.conn[z]
      /\ GetName(o) \in Origins /\ None \notin Sockets /\ None \notin Requests
  BY GetNameType, AgentAssumption DEF Makes
<1>2. /\ c.state = "open" /\ c.target = o /\ c.message = None
      /\ c.listeners = {"agent"} /\ ~c.hadError
  BY DEF Makes
<1>3. w.conn[k].state = "unused" /\ w.conn[k].listeners = {}
  BY DEF Makes, Fresh, Safe, SocketOK
<1>4. \A n \in Origins : k \notin w.pool.sockets[n] /\ k \notin w.pool.freeSockets[n]
  BY <1>3 DEF Safe, ListedOK
<1> HIDE DEF c
<1>5. Near(w, u, rq, rq, ka, ka, k, None)
  <2>1. \A n \in Origins, z \in Sockets : z # k =>
           /\ z \in u.pool.sockets[n] => z \in w.pool.sockets[n]
           /\ z \in u.pool.freeSockets[n] => z \in w.pool.freeSockets[n]
    BY <1>1
  <2> QED
    BY <2>1, <1>1, <1>3 DEF Near
<1>6. \A n \in Origins : ListedOK(u, n, k)
  <2>1. \A n \in Origins : k \in u.pool.sockets[n] => n = GetName(o)
    BY <1>1, <1>4
  <2> QED
    BY <2>1, <1>1, <1>2, <1>4 DEF ListedOK, Unclosed, c
<1>7. SocketOK(u, rq, k)
  BY <1>2 DEF SocketOK, c
<1>8. ASSUME NEW t \in ToSet(w.ticks)
      PROVE  Apart(t, k, None) \/ TickOK(u, rq, ka, og, t)
  <2>1. TickOK(w, rq, ka, og, t)
    BY DEF Safe
  <2>2. ASSUME t.sock = k
        PROVE  TickOK(u, rq, ka, og, t)
    BY <2>1, <2>2, <1>3 DEF TickOK, OnSocketOK, EmitFreeOK, ErrorOK, CloseOK, Unclosed
  <2> QED
    BY <2>2 DEF Apart
<1>9. \A t \in ToSet(w.ticks) : ~Taking(t, k)
  BY <1>3 DEF Safe, TickOK, OnSocketOK, EmitFreeOK, Unclosed, Taking
<1>10. Safe(u, rq, ka, og)
  <2>1. Ordered(u.ticks)
    BY <1>1 DEF Safe
  <2> QED
    BY <2>1, <1>1, <1>5, <1>6, <1>7, <1>8, NearSafe
<1>11. /\ \A z \in Sockets : z # k /\ Heard(w, z) => Heard(u, z)
       /\ \A q \in Requests : Kept(w, rq, og, q) => Kept(u, rq, og, q)
  <2>1. Spares(w, u, rq, rq, og, k, None)
    BY <1>1, <1>5, NearSpares
  <2> QED
    BY <2>1, <1>1 DEF Spares
<1> QED
  BY <1>1, <1>2, <1>9, <1>10, <1>11 DEF Vacant, Reusable, Bare, c

\* A refill keeps the invariant.  The new socket is for a request that waited.
LEMMA RefillsSafe ==
  ASSUME NEW w \in WorldType, NEW v, NEW rq \in ReqMap, NEW ka \in KeepMap, NEW og \in OriginMap,
         Safe(w, rq, ka, og), Refills(w, v)
  PROVE  v \in WorldType /\ Safe(v, rq, ka, og) /\ Keeps(w, v, rq, og)
<1>1. CASE v = w
  BY <1>1 DEF Keeps
<1>2. ASSUME NEW u \in WorldType, NEW k \in Sockets, NEW o \in Origins,
             Makes(w, u, k, o), Serves(u, v, GetName(o), k)
      PROVE  v \in WorldType /\ Safe(v, rq, ka, og) /\ Keeps(w, v, rq, og)
  <2>1. /\ Safe(u, rq, ka, og) /\ Vacant(u, rq, ka, k)
        /\ \A z \in Sockets : z # k /\ Heard(w, z) => Heard(u, z)
        /\ \A q \in Requests : Kept(w, rq, og, q) => Kept(u, rq, og, q)
    BY <1>2, MakesSafe
  <2>2. GetName(o) \in Origins
    BY GetNameType
  <2>3. Safe(v, rq, ka, og) /\ Keeps(u, v, rq, og) /\ Heard(v, k)
    BY <1>2, <2>1, <2>2, ServesSafe
  <2>4. v \in WorldType
    BY <1>2 DEF Serves
  <2> QED
    BY <2>1, <2>3, <2>4 DEF Keeps
<1> QED
  BY <1>1, <1>2 DEF Refills

\* What a refill leaves alone: the sockets in use, the lists of idle sockets,
\* and the ticks that are queued; the tick it adds is about a new socket.
RefillLeaves(w, v) ==
    /\ \A z \in Sockets : w.conn[z].state # "unused" => v.conn[z] = w.conn[z]
    /\ \A z \in Sockets : w.conn[z].state = "unused" =>
          v.conn[z] = w.conn[z] \/ v.conn[z].message = None
    /\ v.pool.freeSockets = w.pool.freeSockets
    /\ \A n \in Origins, z \in Sockets : w.conn[z].state # "unused" =>
          (z \in v.pool.sockets[n] <=> z \in w.pool.sockets[n])
    /\ \A t \in ToSet(v.ticks) : t \in ToSet(w.ticks) \/ w.conn[t.sock].state = "unused"

LEMMA RefillsLeaves ==
  ASSUME NEW w \in WorldType, NEW v, Refills(w, v)
  PROVE  RefillLeaves(w, v)
<1>1. CASE v = w
  BY <1>1 DEF RefillLeaves
<1>2. ASSUME NEW u \in WorldType, NEW k \in Sockets, NEW o \in Origins,
             Makes(w, u, k, o), Serves(u, v, GetName(o), k)
      PROVE  RefillLeaves(w, v)
  <2>1. PICK r : r = u.pool.requests[GetName(o)][1]
    OBVIOUS
  <2>2. /\ v.conn = u.conn /\ v.pool.sockets = u.pool.sockets
        /\ v.pool.freeSockets = u.pool.freeSockets
        /\ v.ticks = Append(u.ticks, Tick("onSocket", r, k))
        /\ GetName(o) \in Origins
    BY <1>2, <2>1, GetNameType DEF Serves
  <2>3. /\ w.conn[k].state = "unused" /\ u.conn[k].message = None
        /\ \A z \in Sockets : z # k => u.conn[z] = w.conn[z]
        /\ u.ticks = w.ticks /\ u.pool.freeSockets = w.pool.freeSockets
        /\ u.pool.sockets[GetName(o)] = w.pool.sockets[GetName(o)] \cup {k}
        /\ \A n \in Origins : n # GetName(o) => u.pool.sockets[n] = w.pool.sockets[n]
    BY <1>2 DEF Makes, Fresh
  <2>4. PICK x : x = Tick("onSocket", r, k)
    OBVIOUS
  <2>5. x.sock = k
    BY <2>4 DEF Tick
  <2>6. \A t \in ToSet(v.ticks) : t \in ToSet(w.ticks) \/ t = x
    <3>1. w.ticks \in Seq(TickType) /\ v.ticks = Append(w.ticks, x)
      BY <2>2, <2>3, <2>4 DEF WorldType
    <3> QED
      BY <3>1, AppendedSet
  <2>7. \A n \in Origins, z \in Sockets : w.conn[z].state # "unused" =>
           (z \in v.pool.sockets[n] <=> z \in w.pool.sockets[n])
    BY <2>2, <2>3
  <2> QED
    BY <2>2, <2>3, <2>5, <2>6, <2>7 DEF RefillLeaves
<1> QED
  BY <1>1, <1>2 DEF Refills

\* A refill does not look at a socket in use.
LEMMA RefillsWith ==
  ASSUME NEW w \in WorldType, NEW v \in WorldType, Refills(w, v),
         NEW s \in Sockets, w.conn[s].state # "unused",
         NEW c \in ConnType, c.state # "unused"
  PROVE  Refills(WithConn(w, s, c), WithConn(v, s, c))
<1>1. CASE v = w
  BY <1>1 DEF Refills
<1>2. ASSUME NEW u \in WorldType, NEW k \in Sockets, NEW o \in Origins,
             Makes(w, u, k, o), Serves(u, v, GetName(o), k)
      PROVE  Refills(WithConn(w, s, c), WithConn(v, s, c))
  <2>1. PICK w2 : w2 = WithConn(w, s, c)
    OBVIOUS
  <2>2. PICK u2 : u2 = WithConn(u, s, c)
    OBVIOUS
  <2>3. PICK v2 : v2 = WithConn(v, s, c)
    OBVIOUS
  <2>4. /\ w2 \in WorldType /\ w2.pool = w.pool /\ w2.ticks = w.ticks /\ w2.conn[s] = c
        /\ \A z \in Sockets : z # s => w2.conn[z] = w.conn[z]
    BY <2>1, WithConnType
  <2>5. /\ u2 \in WorldType /\ u2.pool = u.pool /\ u2.ticks = u.ticks /\ u2.conn[s] = c
        /\ \A z \in Sockets : z # s => u2.conn[z] = u.conn[z]
    BY <2>2, WithConnType
  <2>6. /\ v2 \in WorldType /\ v2.pool = v.pool /\ v2.ticks = v.ticks
    BY <2>3, WithConnType
  <2>7. v2.conn = u2.conn
    BY <1>2, <2>2, <2>3 DEF WithConn, Serves, WorldType
  <2>8. k # s
    BY <1>2 DEF Makes, Fresh
  <2>9. Makes(w2, u2, k, o)
    BY <1>2, <2>4, <2>5, <2>8 DEF Makes, Fresh
  <2>10. Serves(u2, v2, GetName(o), k)
    BY <1>2, <2>5, <2>6, <2>7 DEF Serves
  <2> QED
    BY <2>1, <2>3, <2>5, <2>9, <2>10 DEF Refills
<1> QED
  BY <1>1, <1>2 DEF Refills

\* Socket s leaves the lists of the agent and becomes c.
Drops(w, y, s, c) ==
    /\ y \in WorldType /\ y.ticks = w.ticks
    /\ y.conn[s] = c /\ \A z \in Sockets : z # s => y.conn[z] = w.conn[z]
    /\ y.pool.requests = w.pool.requests
    /\ y.pool.sockets[GetName(w.conn[s].target)]
          = w.pool.sockets[GetName(w.conn[s].target)] \ {s}
    /\ y.pool.freeSockets[GetName(w.conn[s].target)]
          = IF w.conn[s].state # "open" THEN w.pool.freeSockets[GetName(w.conn[s].target)] \ {s}
            ELSE w.pool.freeSockets[GetName(w.conn[s].target)]
    /\ \A n \in Origins : n # GetName(w.conn[s].target) =>
          /\ y.pool.sockets[n] = w.pool.sockets[n]
          /\ y.pool.freeSockets[n] = w.pool.freeSockets[n]

LEMMA RemoveEffect ==
  ASSUME NEW w, WorldOK(w, origin), NEW s \in Sockets, w.conn[s].target \in Origins,
         NEW c \in ConnType, c.state # "unused"
  PROVE  /\ RemoveSocket(w, s) \in WorldType /\ RemoveSocket(w, s).conn[s] = w.conn[s]
         /\ \E y \in WorldType : /\ Drops(w, y, s, c)
                                 /\ Refills(y, WithConn(RemoveSocket(w, s), s, c))
<1>1. PICK n : n = GetName(w.conn[s].target)
  OBVIOUS
<1>2. PICK d : d = DropSocket(w, s)
  OBVIOUS
<1>3. /\ WorldOK(d, origin) /\ d.conn = w.conn /\ d \in WorldType /\ w \in WorldType
      /\ n \in Origins /\ w.conn[s].state # "unused"
  BY <1>1, <1>2, DropSocketOK, InUse, GetNameType DEF WorldOK
<1>4. /\ d.pool.requests = w.pool.requests /\ d.ticks = w.ticks
      /\ d.pool.sockets = [w.pool.sockets EXCEPT ![n] = @ \ {s}]
      /\ d.pool.freeSockets = [w.pool.freeSockets EXCEPT ![n] =
                                  IF ~Writable(w, s) /\ s \in w.pool.freeSockets[n]
                                  THEN @ \ {s} ELSE @]
  BY <1>1, <1>2, <1>3 DEF DropSocket, WorldType, PoolType
<1>5. /\ d.pool.sockets[n] = w.pool.sockets[n] \ {s}
      /\ d.pool.freeSockets[n] = IF w.conn[s].state # "open" THEN w.pool.freeSockets[n] \ {s}
                                 ELSE w.pool.freeSockets[n]
      /\ \A m \in Origins : m # n => /\ d.pool.sockets[m] = w.pool.sockets[m]
                                     /\ d.pool.freeSockets[m] = w.pool.freeSockets[m]
  <2>1. /\ w.pool.sockets \in [Origins -> SUBSET Sockets]
        /\ w.pool.freeSockets \in [Origins -> SUBSET Sockets]
    BY <1>3 DEF WorldType, PoolType
  <2>2. d.pool.freeSockets[n] = IF ~Writable(w, s) /\ s \in w.pool.freeSockets[n]
                                THEN w.pool.freeSockets[n] \ {s} ELSE w.pool.freeSockets[n]
    BY <1>3, <1>4, <2>1
  <2>3. s \notin w.pool.freeSockets[n] => w.pool.freeSockets[n] \ {s} = w.pool.freeSockets[n]
    OBVIOUS
  <2>4. d.pool.freeSockets[n] = IF w.conn[s].state # "open" THEN w.pool.freeSockets[n] \ {s}
                                ELSE w.pool.freeSockets[n]
    BY <2>2, <2>3 DEF Writable
  <2> QED
    BY <1>3, <1>4, <2>1, <2>4
<1>6. PICK y : y = WithConn(d, s, c)
  OBVIOUS
<1>7. /\ y \in WorldType /\ y.pool = d.pool /\ y.ticks = d.ticks /\ y.conn[s] = c
      /\ \A z \in Sockets : z # s => y.conn[z] = d.conn[z]
  BY <1>3, <1>6, WithConnType
<1>8. Drops(w, y, s, c)
  BY <1>1, <1>3, <1>4, <1>5, <1>7 DEF Drops
<1>9. PICK v : v = Refill(d, s)
  OBVIOUS
<1>10. Refills(d, v) /\ v \in WorldType
  BY <1>3, <1>9, RefillEffect, RefillOK DEF WorldOK
<1>11. Refills(y, WithConn(v, s, c))
  BY <1>3, <1>6, <1>10, RefillsWith
<1>12. v.conn[s] = w.conn[s]
  BY <1>3, <1>10, RefillsLeaves DEF RefillLeaves
<1> QED
  BY <1>2, <1>7, <1>8, <1>9, <1>10, <1>11, <1>12 DEF RemoveSocket


-----------------------------------------------------------------------------
(* A socket is released. *)

\* The fields of a world in which an idle socket enters a list.
WithFree(w, n, s) == [w EXCEPT !.pool.freeSockets[n] = @ \cup {s}]

LEMMA WithFreeType ==
  ASSUME NEW w \in WorldType, NEW s \in Sockets, NEW n \in Origins
  PROVE  /\ WithFree(w, n, s) \in WorldType
         /\ WithFree(w, n, s).conn = w.conn
         /\ WithFree(w, n, s).ticks = w.ticks
         /\ WithFree(w, n, s).pool.requests = w.pool.requests
         /\ WithFree(w, n, s).pool.sockets = w.pool.sockets
         /\ WithFree(w, n, s).pool.total = w.pool.total
         /\ WithFree(w, n, s).pool.freeSockets[n] = w.pool.freeSockets[n] \cup {s}
         /\ \A m \in Origins : m # n =>
               WithFree(w, n, s).pool.freeSockets[m] = w.pool.freeSockets[m]
<1>1. PICK f : f = [w.pool.freeSockets EXCEPT ![n] = @ \cup {s}]
  OBVIOUS
<1>2. /\ w.pool \in PoolType /\ w.pool.total \in Int
      /\ w.pool.sockets \in [Origins -> SUBSET Sockets]
      /\ w.pool.freeSockets \in [Origins -> SUBSET Sockets]
  BY DEF WorldType, PoolType
<1>3. /\ f \in [Origins -> SUBSET Sockets] /\ f[n] = w.pool.freeSockets[n] \cup {s}
      /\ \A m \in Origins : m # n => f[m] = w.pool.freeSockets[m]
  BY <1>1, <1>2
<1>4. PICK p : p = WithSockets(w.pool, w.pool.sockets, f, w.pool.total)
  OBVIOUS
<1>5. /\ p \in PoolType /\ p.requests = w.pool.requests
  BY <1>2, <1>3, <1>4, UpdatePool
<1>6. p.sockets = w.pool.sockets /\ p.freeSockets = f /\ p.total = w.pool.total
  BY <1>2, <1>4 DEF WithSockets, PoolType
<1>7. PICK v : v = [w EXCEPT !.pool = p]
  OBVIOUS
<1>8. v \in WorldType /\ v.pool = p /\ v.conn = w.conn /\ v.ticks = w.ticks
  BY <1>5, <1>7 DEF WorldType
<1>9. WithFree(w, n, s) = v
  BY <1>1, <1>2, <1>4, <1>7 DEF WithFree, WithSockets, WorldType, PoolType
<1> QED
  BY <1>3, <1>5, <1>6, <1>8, <1>9

LEMMA DestroyHeard ==
  ASSUME NEW w \in WorldType, NEW s \in Sockets,
         NEW v, v \in {DestroySocket(w, s), DestroySocketWithError(w, s)}
  PROVE  /\ Heard(v, s) /\ v \in WorldType /\ v.pool = w.pool
         /\ \A z \in Sockets : v.conn[z].message = w.conn[z].message
<1>1. CASE ~Live(w, s)
  BY <1>1 DEF DestroySocket, DestroySocketWithError, Heard, Live
<1>2. CASE Live(w, s)
  <2>1. Destroys(w, v, s)
    <3>1. CASE v = DestroySocket(w, s)
      BY <3>1, <1>2, DestroyEffect
    <3>2. CASE v = DestroySocketWithError(w, s)
      BY <3>2, <1>2, DestroyWithErrorEffect
    <3> QED
      BY <3>1, <3>2
  <2>2. w.conn[s] \in ConnType
    BY DEF WorldType
  <2>3. /\ WithState(w.conn[s], "destroyed").state = "destroyed"
        /\ WithState(w.conn[s], "destroyed").message = w.conn[s].message
    BY <2>2, WithStateType
  <2> QED
    BY <2>1, <2>3 DEF Heard, Destroys
<1> QED
  BY <1>1, <1>2

\* A socket that is kept open for later requests: it gets a listener, leaves the
\* busy sockets and, after a refill, enters the idle ones.
LEMMA PoolSafe ==
  ASSUME NEW w, WorldOK(w, origin), NEW s \in Sockets,
         NEW rq \in ReqMap, NEW ka \in KeepMap, origin \in OriginMap,
         Safe(w, rq, ka, origin), Reusable(w.conn[s], rq, ka),
         w.conn[s].state = "open", "agent" \in w.conn[s].listeners,
         \A t \in ToSet(w.ticks) : ~Taking(t, s)
  PROVE  LET v == PoolSocket(w, s)
         IN  /\ v \in WorldType /\ Safe(v, rq, ka, origin) /\ Keeps(w, v, rq, origin)
             /\ v.conn[s].message = None /\ "idle" \in v.conn[s].listeners
             /\ \A z \in Sockets : z # s => v.conn[z].message \in {w.conn[z].message, None}
<1>1. /\ w \in WorldType /\ w.conn[s] \in ConnType /\ w.conn[s].target \in Origins
      /\ None \notin Sockets /\ None \notin Requests
  BY InUse, AgentAssumption DEF WorldOK
<1>2. PICK n : n = GetName(w.conn[s].target)
  OBVIOUS
<1>3. PICK d : d = [w.conn[s] EXCEPT !.message = None]
  OBVIOUS
<1>4. PICK c : c = [d EXCEPT !.listeners = @ \cup {"idle"}]
  OBVIOUS
<1>5. n \in Origins /\ d \in ConnType /\ d.target = w.conn[s].target /\ d.state = "open"
  BY <1>1, <1>2, <1>3, GetNameType DEF ConnType
<1>6. /\ c \in ConnType /\ c.target = w.conn[s].target /\ c.state = "open" /\ c.message = None
      /\ c.listeners = w.conn[s].listeners \cup {"idle"} /\ c.hadError = w.conn[s].hadError
  BY <1>1, <1>3, <1>4 DEF ConnType
<1>7. PICK x : x = WithConn(w, s, d)
  OBVIOUS
<1>8. /\ x \in WorldType /\ x.pool = w.pool /\ x.ticks = w.ticks /\ x.conn[s] = d
      /\ \A z \in Sockets : z # s => x.conn[z] = w.conn[z]
  BY <1>1, <1>5, <1>7, WithConnType
<1>9. WorldOK(x, origin)
  <2>1. w.conn[s].state # "unused" /\ d.state # "unused"
    BY <1>5
  <2> QED
    BY <2>1, <1>5, <1>7, UpdateSocket DEF WithConn
<1>10. PICK m : m = RemoveSocket(x, s)
  OBVIOUS
<1>11. m \in WorldType /\ m.conn[s] = d
  <2>1. x.conn[s].target \in Origins /\ d.state # "unused"
    BY <1>1, <1>5, <1>8
  <2> QED
    BY <2>1, <1>5, <1>8, <1>9, <1>10, RemoveEffect
<1>12. PICK u : u = WithConn(m, s, c)
  OBVIOUS
<1>13. PICK y \in WorldType : Drops(x, y, s, c) /\ Refills(y, u)
  <2>1. x.conn[s].target \in Origins /\ c.state # "unused"
    BY <1>1, <1>5, <1>6, <1>8
  <2> QED
    BY <2>1, <1>6, <1>9, <1>10, <1>12, RemoveEffect
<1>14. PICK v : v = WithFree(u, n, s)
  OBVIOUS
<1>15. PoolSocket(w, s) = v
  <2>1. u = [m EXCEPT !.conn[s].listeners = @ \cup {"idle"}]
    BY <1>4, <1>11, <1>12 DEF WithConn, WorldType
  <2>2. x = [w EXCEPT !.conn[s].message = None]
    BY <1>1, <1>3, <1>7 DEF WithConn, WorldType
  <2> QED
    BY <2>1, <2>2, <1>2, <1>10, <1>11, <1>14 DEF PoolSocket, WithFree, WorldType
\* Before the refill.
<1>16. /\ y.ticks = w.ticks /\ y.conn[s] = c
       /\ \A z \in Sockets : z # s => y.conn[z] = w.conn[z]
       /\ y.pool.requests = w.pool.requests
       /\ \A k \in Origins : /\ y.pool.sockets[k] = w.pool.sockets[k] \ {s}
                             /\ y.pool.freeSockets[k] = w.pool.freeSockets[k]
  <2>1. \A k \in Origins : s \in w.pool.sockets[k] => k = n
    BY <1>2 DEF Safe, ListedOK
  <2>2. /\ y.pool.sockets[n] = w.pool.sockets[n] \ {s}
        /\ y.pool.freeSockets[n] = w.pool.freeSockets[n]
        /\ \A k \in Origins : k # n => /\ y.pool.sockets[k] = w.pool.sockets[k]
                                       /\ y.pool.freeSockets[k] = w.pool.freeSockets[k]
    BY <1>2, <1>5, <1>8, <1>13 DEF Drops
  <2>3. \A k \in Origins : k # n => w.pool.sockets[k] = w.pool.sockets[k] \ {s}
    BY <2>1
  <2> QED
    BY <2>2, <2>3, <1>8, <1>13 DEF Drops
<1>17. /\ "request" \notin w.conn[s].listeners /\ "reader" \notin w.conn[s].listeners
       /\ "idle" \notin w.conn[s].listeners /\ ~w.conn[s].hadError
       /\ \A k \in Origins : s \notin w.pool.freeSockets[k]
  BY DEF Reusable, Bare, Safe, SocketOK, ListedOK
<1>18. Near(w, y, rq, rq, ka, ka, s, None)
  BY <1>1, <1>16, <1>17 DEF Near
<1>19. SocketOK(y, rq, s)
  BY <1>6, <1>16, <1>17 DEF SocketOK
<1>20. \A k \in Origins : ListedOK(y, k, s)
  BY <1>16, <1>17 DEF ListedOK
<1>21. ASSUME NEW t \in ToSet(w.ticks)
       PROVE  Apart(t, s, None) \/ TickOK(y, rq, ka, origin, t)
  <2>1. TickOK(w, rq, ka, origin, t) /\ ~Taking(t, s)
    BY DEF Safe
  <2>2. ASSUME t.sock = s
        PROVE  TickOK(y, rq, ka, origin, t)
    BY <2>1, <2>2 DEF TickOK, HangUpOK, ErrorOK, CloseOK, Taking
  <2> QED
    BY <2>2 DEF Apart
<1>22. Safe(y, rq, ka, origin)
  <2>1. Ordered(y.ticks)
    BY <1>16 DEF Safe
  <2> QED
    BY <2>1, <1>1, <1>16, <1>18, <1>19, <1>20, <1>21, NearSafe
<1>23. Keeps(w, y, rq, origin)
  <2>1. Spares(w, y, rq, rq, origin, s, None)
    BY <1>1, <1>16, <1>18, NearSpares
  <2>2. Heard(y, s)
    BY <1>6, <1>16 DEF Heard
  <2> QED
    BY <2>1, <2>2, <1>1 DEF Keeps, Spares
\* The refill.
<1>24. /\ u \in WorldType /\ Safe(u, rq, ka, origin) /\ Keeps(y, u, rq, origin)
       /\ RefillLeaves(y, u)
  BY <1>13, <1>22, RefillsSafe, RefillsLeaves
<1>25. u.conn[s] = c /\ \A t \in ToSet(u.ticks) : ~Taking(t, s)
  BY <1>6, <1>16, <1>24 DEF RefillLeaves, Taking
\* Into the list of idle sockets.
<1>26. /\ v \in WorldType /\ v.conn = u.conn /\ v.ticks = u.ticks
       /\ v.pool.requests = u.pool.requests /\ v.pool.sockets = u.pool.sockets
       /\ v.pool.freeSockets[n] = u.pool.freeSockets[n] \cup {s}
       /\ \A k \in Origins : k # n => v.pool.freeSockets[k] = u.pool.freeSockets[k]
  BY <1>5, <1>14, <1>24, WithFreeType
<1>27. Near(u, v, rq, rq, ka, ka, s, None)
  BY <1>1, <1>26 DEF Near
<1>28. SocketOK(v, rq, s)
  BY <1>24, <1>26 DEF SocketOK, Safe
<1>29. \A k \in Origins : ListedOK(v, k, s)
  BY <1>2, <1>6, <1>24, <1>25, <1>26 DEF ListedOK, Safe, Unclosed
<1>30. \A t \in ToSet(u.ticks) : TickOK(v, rq, ka, origin, t)
  BY <1>24, <1>26 DEF Safe, TickOK, OnSocketOK, EmitFreeOK, HangUpOK, ErrorOK, CloseOK
<1>31. Safe(v, rq, ka, origin)
  <2>1. Ordered(v.ticks)
    BY <1>24, <1>26 DEF Safe
  <2> QED
    BY <2>1, <1>1, <1>24, <1>26, <1>27, <1>28, <1>29, <1>30, NearSafe
<1>32. Keeps(u, v, rq, origin)
  <2>1. Spares(u, v, rq, rq, origin, s, None)
    BY <1>1, <1>24, <1>26, <1>27, NearSpares
  <2>2. Heard(v, s)
    BY <1>6, <1>25, <1>26 DEF Heard
  <2> QED
    BY <2>1, <2>2, <1>1 DEF Keeps, Spares
<1>33. Keeps(w, v, rq, origin)
  BY <1>23, <1>24, <1>32 DEF Keeps
<1>34. /\ v.conn[s].message = None /\ "idle" \in v.conn[s].listeners
       /\ \A z \in Sockets : z # s => v.conn[z].message \in {w.conn[z].message, None}
  BY <1>6, <1>16, <1>24, <1>25, <1>26 DEF RefillLeaves
<1> QED
  BY <1>15, <1>26, <1>31, <1>33, <1>34


\* The 'free' event of a socket whose last request is done with it: the socket
\* goes to a request that waits, into the pool, or is destroyed.
LEMMA FreeSafe ==
  ASSUME NEW w, WorldOK(w, origin), NEW s \in Sockets,
         NEW rq \in ReqMap, NEW ka \in KeepMap, origin \in OriginMap,
         Safe(w, rq, ka, origin), Reusable(w.conn[s], rq, ka),
         \A t \in ToSet(w.ticks) : ~Taking(t, s),
         NEW v, v = FreeSocket(w, s)
  PROVE  /\ v \in WorldType /\ Safe(v, rq, ka, origin)
         /\ Keeps(w, v, rq, origin) /\ Heard(v, s)
         /\ \A z \in Sockets : v.conn[z].message \in {w.conn[z].message, None}
<1> DEFINE n == GetName(w.conn[s].target)
<1>1. w \in WorldType
  BY DEF WorldOK
<1>2. CASE "agent" \notin w.conn[s].listeners
  BY <1>1, <1>2 DEF FreeSocket, Keeps, Heard
<1>3. CASE "agent" \in w.conn[s].listeners /\ v = DestroySocket(w, s)
  BY <1>1, <1>3, DestroySafe, DestroyHeard
<1>4. CASE /\ "agent" \in w.conn[s].listeners
           /\ w.conn[s].state = "open" /\ w.pool.requests[n] # <<>>
           /\ v = ServeFirst(w, n, s)
  <2>1. w.conn[s].target \in Origins
    BY <1>4, InUse
  <2>2. n \in Origins
    BY <2>1, GetNameType
  <2>3. Serves(w, v, n, s)
    BY <1>4, <2>1, <2>2, ServeFirstEffect
  <2>4. Vacant(w, rq, ka, s)
    BY <1>4 DEF Vacant
  <2>5. Safe(v, rq, ka, origin) /\ Keeps(w, v, rq, origin) /\ Heard(v, s)
    BY <1>1, <2>2, <2>3, <2>4, ServesSafe
  <2> QED
    BY <2>3, <2>5 DEF Serves
<1>5. CASE /\ "agent" \in w.conn[s].listeners
           /\ w.conn[s].state = "open" /\ v = PoolSocket(w, s)
  <2>1. /\ v \in WorldType /\ Safe(v, rq, ka, origin) /\ Keeps(w, v, rq, origin)
        /\ v.conn[s].message = None /\ "idle" \in v.conn[s].listeners
        /\ \A z \in Sockets : z # s => v.conn[z].message \in {w.conn[z].message, None}
    BY <1>5, PoolSafe
  <2>2. Heard(v, s)
    BY <2>1 DEF Heard
  <2> QED
    BY <2>1, <2>2
<1> QED
  BY <1>2, <1>3, <1>4, <1>5 DEF FreeSocket, Writable
=============================================================================
