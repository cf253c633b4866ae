-------------------------- MODULE HttpClientSafety --------------------------
(***************************************************************************)
(* The safety of the HTTP client: every action preserves the account of    *)
(* HttpClientInvariant, and what follows from it for requests and sockets; *)
(* then the account of the pool, the steps that give a socket to a request,*)
(* and who hears the 'error' of a socket.                                  *)
(***************************************************************************)
EXTENDS HttpClientInvariant

\* The account of a world, and of the state.
Accounts(w, rq, ka, og) == /\ Safe(w, rq, ka, og)
                           /\ \A s \in Sockets : Heard(w, s)
                           /\ \A r \in Requests : Kept(w, rq, og, r)

Sound == Accounts(World, req, shouldKeepAlive, origin)

-----------------------------------------------------------------------------
(* Where the actions start and end. *)

LEMMA Typed ==
  ASSUME IInv
  PROVE  /\ World \in WorldType /\ World.pool = pool /\ World.conn = conn /\ World.ticks = ticks
         /\ req \in ReqMap /\ shouldKeepAlive \in KeepMap /\ origin \in OriginMap
         /\ None \notin Requests /\ None \notin Sockets /\ None \notin Origins
         /\ conn \in [Sockets -> ConnType] /\ ticks \in Seq(TickType)
<1>1. World \in WorldType /\ World.pool = pool /\ World.conn = conn /\ World.ticks = ticks
  BY DEF IInv, WorldOK, World
<1>2. conn \in [Sockets -> ConnType] /\ ticks \in Seq(TickType)
  BY <1>1 DEF WorldType
<1>3. None \notin Requests /\ None \notin Sockets /\ None \notin Origins
  BY AgentAssumption
<1> QED
  BY <1>1, <1>2, <1>3 DEF IInv, ReqMap, KeepMap

LEMMA Becomes ==
  ASSUME IInv', NEW w \in WorldType, Become(w),
         Accounts(w, req', shouldKeepAlive', origin')
  PROVE  Sound'
<1>1. World' = w
  BY DEF Become, World, WorldType
<1> QED
  BY <1>1 DEF Sound

\* The steps that leave the origins and shouldKeepAlive alone.
LEMMA BecomesPlain ==
  ASSUME IInv', NEW w \in WorldType, Become(w), UNCHANGED <<origin, shouldKeepAlive>>,
         Accounts(w, req', shouldKeepAlive, origin)
  PROVE  Sound'
BY Becomes

\* The callback at the head of the queue leaves it.
LEMMA PoppedSafe ==
  ASSUME IInv, Sound, ticks # <<>>, NEW h, h = Head(ticks)
  PROVE  /\ Popped \in WorldType /\ WorldOK(Popped, origin)
         /\ Popped.conn = conn /\ Popped.pool = pool /\ Popped.ticks = Tail(ticks)
         /\ h \in TickType /\ h \in ToSet(World.ticks)
         /\ TickOK(World, req, shouldKeepAlive, origin, h)
         /\ \A t \in ToSet(Popped.ticks) : t \in ToSet(World.ticks) /\ ~Clash(h, t)
         /\ \A t \in ToSet(World.ticks) : t \in ToSet(Popped.ticks) \/ t = h
         /\ Safe(Popped, req, shouldKeepAlive, origin)
         /\ \A z \in Sockets : ~Taking(h, z) => Heard(Popped, z)
         /\ \A q \in Requests : h.req # q => Kept(Popped, req, origin, q)
<1>1. /\ World \in WorldType /\ World.pool = pool /\ World.conn = conn /\ World.ticks = ticks
      /\ ticks \in Seq(TickType) /\ Ordered(ticks)
  BY Typed DEF Sound, Accounts, Safe
<1>2. WorldOK(Popped, origin) /\ Popped.conn = conn /\ Popped \in WorldType
  BY PoppedOK DEF IInv, WorldOK
<1>3. Popped.ticks = Tail(ticks) /\ Popped.pool = pool
  BY <1>1 DEF Popped, WorldType
<1>4. /\ h \in ToSet(ticks)
      /\ \A t \in ToSet(Tail(ticks)) : t \in ToSet(ticks) /\ ~Clash(h, t)
      /\ \A t \in ToSet(ticks) : t \in ToSet(Tail(ticks)) \/ t = h
      /\ Ordered(Tail(ticks))
  BY <1>1, PoppedTick
<1>5. h \in TickType /\ TickOK(World, req, shouldKeepAlive, origin, h)
  <2>1. h \in TickType
    BY <1>1
  <2> QED
    BY <2>1, <1>1, <1>4 DEF Sound, Accounts, Safe
<1>6. Near(World, Popped, req, req, shouldKeepAlive, shouldKeepAlive, None, None)
  BY <1>1, <1>2, <1>3, Typed DEF Near
<1>7. Safe(Popped, req, shouldKeepAlive, origin)
  <2>1. \A t : Apart(t, None, None)
    BY DEF Apart
  <2>2. Ordered(Popped.ticks) /\ \A t \in ToSet(Popped.ticks) : t \in ToSet(World.ticks)
    BY <1>1, <1>3, <1>4
  <2> QED
    BY <2>1, <2>2, <1>1, <1>2, <1>6, Typed, NearSafe DEF Sound, Accounts
<1>8. /\ \A z \in Sockets : ~Taking(h, z) => Heard(Popped, z)
      /\ \A q \in Requests : h.req # q => Kept(Popped, req, origin, q)
  <2>1. \A t \in ToSet(World.ticks) : t \in ToSet(Popped.ticks) \/ t = h
    BY <1>1, <1>3, <1>4
  <2>2. \A z \in Sockets : Heard(World, z) /\ ~Taking(h, z) => Heard(Popped, z)
    BY <2>1, <1>1, <1>2 DEF Heard
  <2>3. \A q \in Requests : Kept(World, req, origin, q) /\ h.req # q
                            => Kept(Popped, req, origin, q)
    BY <2>1, <1>1, <1>2, <1>3 DEF Kept, Queued, Attached
  <2> QED
    BY <2>2, <2>3 DEF Sound, Accounts
<1> QED
  BY <1>1, <1>2, <1>3, <1>4, <1>5, <1>7, <1>8

\* The requests change in nothing that their sockets and ticks are about.
Quiet(rq, rq2) ==
    \A q \in Requests : /\ rq2[q].socket = rq[q].socket /\ rq2[q].errors = rq[q].errors
                        /\ rq2[q].closed = rq[q].closed /\ rq2[q].res = rq[q].res
                        /\ rq[q].finished = TRUE => rq2[q].finished = TRUE

LEMMA QuietSafe ==
  ASSUME NEW w \in WorldType, NEW rq \in ReqMap, NEW rq2 \in ReqMap, NEW ka, NEW og,
         Quiet(rq, rq2), Accounts(w, rq, ka, og)
  PROVE  Accounts(w, rq2, ka, og)
<1>1. \A q \in Requests : /\ Untouched(rq[q]) => Untouched(rq2[q])
                          /\ Done(rq[q], ka[q]) => Done(rq2[q], ka[q])
                          /\ Attached(w, rq, q) <=> Attached(w, rq2, q)
  <2>1. \A q \in Requests : rq[q].finished \in BOOLEAN
    BY DEF ReqMap, ReqType
  <2> QED
    BY <2>1 DEF Quiet, Untouched, Done, Attached
<1>2. ASSUME NEW t \in ToSet(w.ticks)
      PROVE  TickOK(w, rq2, ka, og, t)
  <2>1. TickOK(w, rq, ka, og, t) /\ t \in TickType
    BY DEF Accounts, Safe, ToSet, WorldType
  <2>2. ASSUME NEW s \in Sockets, Reusable(w.conn[s], rq, ka)
        PROVE  Reusable(w.conn[s], rq2, ka)
    <3>1. w.conn[s].message \in Requests \cup {None}
      BY DEF WorldType, ConnType
    <3> QED
      BY <3>1, <2>2, <1>1 DEF Reusable
  <2>3. t.fn = "onSocket" => OnSocketOK(w, rq2, ka, og, t.req, t.sock)
    BY <2>1, <2>2, <1>1 DEF TickOK, OnSocketOK
  <2>4. t.fn = "emitFree" => EmitFreeOK(w, rq2, ka, t.req, t.sock)
    BY <2>1, <1>1 DEF TickOK, EmitFreeOK, Quiet
  <2>5. t.fn = "hangUp" => HangUpOK(rq2, og, t.req)
    BY <2>1, <1>1 DEF TickOK, HangUpOK
  <2>6. t.fn = "end" => t.req \in Requests /\ rq2[t.req].res = "read"
    BY <2>1 DEF TickOK, Quiet
  <2> QED
    BY <2>1, <2>3, <2>4, <2>5, <2>6 DEF TickOK
<1>3. \A s \in Sockets : SocketOK(w, rq2, s)
  BY DEF Accounts, Safe, SocketOK, Quiet
<1>4. \A r \in Requests : ReqOK(w, rq2, og, r) /\ QueueOK(w, rq2, r)
  BY <1>1 DEF Accounts, Safe, ReqOK, QueueOK, Quiet
<1>5. \A r \in Requests : Kept(w, rq2, og, r)
  BY <1>1 DEF Accounts, Kept, Quiet
<1> QED
  BY <1>2, <1>3, <1>4, <1>5 DEF Accounts, Safe

LEMMA DestroyAccounts ==
  ASSUME NEW w \in WorldType, NEW s \in Sockets, NEW rq \in ReqMap, NEW ka \in KeepMap,
         NEW og, Accounts(w, rq, ka, og),
         NEW v, v \in {DestroySocket(w, s), DestroySocketWithError(w, s)}
  PROVE  v \in WorldType /\ Accounts(v, rq, ka, og)
<1>1. Safe(v, rq, ka, og) /\ Keeps(w, v, rq, og)
  BY DestroySafe DEF Accounts
<1>2. v \in WorldType
  BY DestroyHeard
<1> QED
  BY <1>1, <1>2 DEF Accounts, Keeps

-----------------------------------------------------------------------------
(* Calls of the program. *)

LEMMA EndSound ==
  ASSUME IInv, IInv', Sound, NEW r \in Requests, End(r)
  PROVE  Sound'
<1>1. Quiet(req, req')
  BY Typed DEF End, Quiet, ReqMap, ReqType
<1>2. Become(World) /\ UNCHANGED <<origin, shouldKeepAlive>>
  BY DEF End, Become, World, agentVars
<1>3. World \in WorldType /\ req \in ReqMap /\ req' \in ReqMap
  BY Typed DEF IInv, ReqMap
<1>4. Accounts(World, req', shouldKeepAlive, origin)
  BY <1>1, <1>3, QuietSafe DEF Sound
<1> QED
  BY <1>2, <1>3, <1>4, BecomesPlain

LEMMA DestroyCallSound ==
  ASSUME IInv, IInv', Sound, NEW r \in Requests, NEW err \in BOOLEAN,
         Destroy(r, err) \/ Abort(r)
  PROVE  Sound'
<1>1. PICK s : s = req[r].socket
  OBVIOUS
<1>2. PICK w : /\ Become(w) /\ UNCHANGED <<origin, shouldKeepAlive>>
               /\ \/ w = World
                  \/ s # None /\ w \in {DestroySocket(World, s), DestroySocketWithError(World, s)}
  BY <1>1 DEF Destroy, Abort
<1>3. Quiet(req, req')
  BY Typed DEF Destroy, Abort, Quiet, ReqMap, ReqType
<1>4. /\ World \in WorldType /\ req \in ReqMap /\ req' \in ReqMap
      /\ shouldKeepAlive \in KeepMap
  BY Typed DEF IInv, ReqMap
<1>5. s = None \/ s \in Sockets
  BY <1>1, <1>4 DEF ReqMap, ReqType
<1>6. Accounts(World, req', shouldKeepAlive, origin)
  BY <1>3, <1>4, QuietSafe DEF Sound
<1>7. w \in WorldType /\ Accounts(w, req', shouldKeepAlive, origin)
  <2>1. CASE w = World
    BY <2>1, <1>4, <1>6
  <2>2. CASE s # None /\ w \in {DestroySocket(World, s), DestroySocketWithError(World, s)}
    BY <2>2, <1>4, <1>5, <1>6, DestroyAccounts
  <2> QED
    BY <2>1, <2>2, <1>2
<1> QED
  BY <1>2, <1>7, BecomesPlain

\* The network, the flushing or the timeout of a socket destroys it.
LEMMA DestroyStepSound ==
  ASSUME IInv, IInv', Sound, NEW s \in Sockets,
         SocketError(s) \/ SocketFinish(s) \/ IdleTimeout(s)
  PROVE  Sound'
<1>1. PICK w : /\ Become(w) /\ UNCHANGED <<origin, shouldKeepAlive, req>>
               /\ w \in {DestroySocket(World, s), DestroySocketWithError(World, s)}
  BY DEF SocketError, SocketFinish, IdleTimeout
<1>2. w \in WorldType /\ Accounts(w, req, shouldKeepAlive, origin)
  BY <1>1, Typed, DestroyAccounts DEF Sound
<1> QED
  BY <1>1, <1>2, BecomesPlain


-----------------------------------------------------------------------------
(* Steps about a request and the socket it is attached to. *)

\* The account of a world that may leave out socket s and request r.
Nearly(w, rq, ka, og, s, r) ==
    /\ Safe(w, rq, ka, og)
    /\ \A z \in Sockets : z # s => Heard(w, z)
    /\ \A q \in Requests : q # r => Kept(w, rq, og, q)

\* Request r is attached to socket s.
On(w, rq, s, r) == rq[r].socket = s /\ w.conn[s].message = r /\ "request" \in w.conn[s].listeners

\* What is left to say of a tick about s or r.
Stays(v, rq2, t, s, r) ==
    /\ t.fn = "end" /\ t.req = r => rq2[r].res = "read"
    /\ t.fn = "error" /\ t.sock = s => ErrorOK(v, s)
    /\ t.fn = "close" /\ t.sock = s => CloseOK(v, s)

\* No socket is offered to a request that has one, and its socket is not free.
LEMMA OnTicks ==
  ASSUME NEW w \in WorldType, NEW rq \in ReqMap, NEW ka, NEW og, Safe(w, rq, ka, og),
         NEW s \in Sockets, NEW r \in Requests, On(w, rq, s, r)
  PROVE  /\ \A t \in ToSet(w.ticks) :
               /\ t.fn \in {"onSocket", "emitFree"} => t.sock # s /\ t.req # r
               /\ t.fn = "hangUp" => t.req # r
         /\ ~Queued(w, r) /\ og[r] # None
         /\ \A n \in Origins : s \notin w.pool.freeSockets[n]
         /\ "idle" \notin w.conn[s].listeners
         /\ w.conn[s].state # "unused"
         /\ rq[r].closed <=> w.conn[s].state = "closed"
         /\ rq[r].errors > 0 => w.conn[s].hadError
         /\ rq[r].errors <= 1
<1>1. rq[r].socket # None
  BY AgentAssumption DEF On
<1>2. ASSUME NEW t \in ToSet(w.ticks)
      PROVE  /\ t.fn \in {"onSocket", "emitFree"} => t.sock # s /\ t.req # r
             /\ t.fn = "hangUp" => t.req # r
  <2>1. TickOK(w, rq, ka, og, t)
    BY DEF Safe
  <2>2. t.fn = "onSocket" => t.sock # s /\ t.req # r
    BY <2>1, <1>1 DEF TickOK, OnSocketOK, Untouched, Reusable, Bare, On
  <2>3. t.fn = "emitFree" => t.sock # s /\ t.req # r
    BY <2>1 DEF TickOK, EmitFreeOK, Bare, On
  <2> QED
    BY <2>1, <2>2, <2>3, <1>1 DEF TickOK, HangUpOK, Untouched
<1>3. ~Queued(w, r) /\ og[r] # None /\ rq[r].errors <= 1
  BY <1>1 DEF Safe, QueueOK, ReqOK, Untouched
<1>4. /\ "idle" \notin w.conn[s].listeners /\ w.conn[s].state # "unused"
      /\ rq[r].closed <=> w.conn[s].state = "closed"
      /\ rq[r].errors > 0 => w.conn[s].hadError
  BY DEF Safe, SocketOK, On
<1>5. \A n \in Origins : s \notin w.pool.freeSockets[n]
  BY <1>4 DEF Safe, ListedOK
<1> QED
  BY <1>2, <1>3, <1>4, <1>5

LEMMA PairStep ==
  ASSUME NEW w \in WorldType, NEW v \in WorldType, NEW rq \in ReqMap, NEW rq2 \in ReqMap,
         NEW ka \in KeepMap, NEW ka2 \in KeepMap, NEW og,
         NEW s \in Sockets, NEW r \in Requests, On(w, rq, s, r),
         Nearly(w, rq, ka, og, s, r), Near(w, v, rq, rq2, ka, ka2, s, r),
         Ordered(v.ticks), \A t \in ToSet(w.ticks) : t \in ToSet(v.ticks),
         \A t \in ToSet(v.ticks) :
            \/ t \in ToSet(w.ticks) /\ Stays(v, rq2, t, s, r)
            \/ TickOK(v, rq2, ka2, og, t) /\ t.fn \notin {"onSocket", "hangUp"},
         \A n \in Origins : ListedOK(v, n, s),
         SocketOK(v, rq2, s), ReqOK(v, rq2, og, r), Heard(v, s), Kept(v, rq2, og, r)
  PROVE  Accounts(v, rq2, ka2, og)
<1>1. /\ Safe(w, rq, ka, og) /\ None \notin Requests /\ None \notin Sockets
      /\ \A n \in Origins : v.pool.requests[n] = w.pool.requests[n]
  BY AgentAssumption DEF Nearly, Near
<1>2. ASSUME NEW t \in ToSet(w.ticks), Stays(v, rq2, t, s, r)
      PROVE  Apart(t, s, r) \/ TickOK(v, rq2, ka2, og, t)
  <2>1. TickOK(w, rq, ka, og, t)
    BY <1>1 DEF Safe
  <2>2. t.fn \in {"onSocket", "emitFree"} => Apart(t, s, r)
    BY <1>1, OnTicks DEF Apart
  <2>3. ASSUME t.fn = "hangUp"
        PROVE  HangUpOK(rq2, og, t.req)
    <3>1. t.req # r
      BY <2>3, <1>1, OnTicks
    <3> QED
      BY <3>1, <2>1, <2>3 DEF TickOK, HangUpOK, Near
  <2>4. t.fn = "end" => t.req \in Requests /\ rq2[t.req].res = "read"
    BY <1>2, <2>1 DEF Stays, TickOK, Near
  <2>5. t.fn = "error" => ErrorOK(v, t.sock)
    BY <1>2, <2>1 DEF Stays, TickOK, ErrorOK, Near
  <2>6. t.fn = "close" => CloseOK(v, t.sock)
    BY <1>2, <2>1 DEF Stays, TickOK, CloseOK, Near
  <2> QED
    BY <2>2, <2>3, <2>4, <2>5, <2>6 DEF TickOK
<1>3. ~Queued(v, r)
  <2>1. ~Queued(w, r)
    BY <1>1, OnTicks
  <2> QED
    BY <2>1, <1>1, NearQueued
<1>4. Safe(v, rq2, ka2, og)
  <2>1. \A t \in ToSet(v.ticks) : \/ t \in ToSet(w.ticks) /\ Apart(t, s, r)
                                  \/ TickOK(v, rq2, ka2, og, t)
    BY <1>2
  <2>2. \A t \in ToSet(v.ticks) : \/ t \in ToSet(w.ticks)
                                  \/ t.fn \notin {"onSocket", "hangUp"}
                                  \/ ~Queued(v, t.req)
    OBVIOUS
  <2> QED
    BY <2>1, <2>2, <1>1, <1>3, NearSafe
<1>5. Spares(w, v, rq, rq2, og, s, r)
  BY NearSpares
<1> QED
  BY <1>4, <1>5 DEF Accounts, Nearly, Spares

\* The reader of an open socket reads for a request that is attached to it.
LEMMA ReadingOn ==
  ASSUME IInv, Sound, NEW s \in Sockets, "reader" \in conn[s].listeners,
         NEW r, r = conn[s].message
  PROVE  /\ r \in Requests /\ On(World, req, s, r)
         /\ Nearly(World, req, shouldKeepAlive, origin, s, r)
<1>1. "request" \in conn[s].listeners /\ r \in Requests /\ req[r].socket = s
  BY Typed DEF Sound, Accounts, Safe, SocketOK
<1> QED
  BY <1>1, Typed DEF On, Nearly, Sound, Accounts

LEMMA AttachedOn ==
  ASSUME IInv, Sound, NEW r \in Requests, req[r].res \in {"complete", "read"},
         NEW s, s = req[r].socket
  PROVE  /\ s \in Sockets /\ On(World, req, s, r)
         /\ Nearly(World, req, shouldKeepAlive, origin, s, r)
<1>1. Attached(World, req, r)
  BY DEF Sound, Accounts, Safe, ReqOK
<1> QED
  BY <1>1 DEF Attached, On, Nearly, Sound, Accounts

LEMMA ReadResponseSound ==
  ASSUME IInv, IInv', Sound, NEW r \in Requests, ReadResponse(r)
  PROVE  Sound'
<1>1. PICK s : s = req[r].socket
  OBVIOUS
<1>2. PICK t : t = Tick("end", r, None)
  OBVIOUS
<1>3. PICK v : v = World'
  OBVIOUS
<1>4. /\ World \in WorldType /\ req \in ReqMap /\ req' \in ReqMap
      /\ World.conn = conn /\ World.ticks = ticks /\ World.pool = pool /\ ticks \in Seq(TickType)
      /\ shouldKeepAlive \in KeepMap /\ None \notin Requests /\ None \notin Sockets
  BY Typed DEF IInv, ReqMap
<1>5. v \in WorldType /\ v.conn = conn /\ v.pool = pool /\ v.ticks = Append(ticks, t)
  BY <1>2, <1>3, Typed DEF ReadResponse, IInv, WorldOK, World
<1>6. t.fn = "end" /\ t.req = r /\ t \in TickType
  <2>1. r \in Requests \cup {None} /\ None \in Sockets \cup {None}
    OBVIOUS
  <2> QED
    BY <2>1, <1>2, TickFields
<1>7. /\ \A q \in Requests : q # r => req'[q] = req[q]
      /\ req[r].res = "complete" /\ req'[r].res = "read"
      /\ req'[r].socket = req[r].socket /\ req'[r].errors = req[r].errors
      /\ req'[r].closed = req[r].closed
  BY <1>4 DEF ReadResponse, ReqMap, ReqType
<1>8. /\ s \in Sockets /\ On(World, req, s, r)
      /\ Nearly(World, req, shouldKeepAlive, origin, s, r)
  BY <1>1, <1>7, AttachedOn
<1>9. Safe(World, req, shouldKeepAlive, origin)
  BY DEF Sound, Accounts
<1>10. Near(World, v, req, req', shouldKeepAlive, shouldKeepAlive, s, r)
  BY <1>1, <1>4, <1>5, <1>7, <1>8 DEF Near, Done
<1>11. ToSet(v.ticks) = ToSet(World.ticks) \cup {t} /\ Ordered(v.ticks)
  <2>1. \A a \in ToSet(ticks) : ~Clash(a, t)
    BY <1>4, <1>6, <1>7, <1>9 DEF Safe, TickOK, Clash
  <2> QED
    BY <2>1, <1>4, <1>5, <1>6, <1>9, AppendedTick DEF Safe
<1>12. TickOK(v, req', shouldKeepAlive, origin, t)
  BY <1>6, <1>7 DEF TickOK
<1>13. \A a \in ToSet(World.ticks) : Stays(v, req', a, s, r)
  BY <1>4, <1>5, <1>7, <1>9 DEF Stays, Safe, TickOK, ErrorOK, CloseOK
<1>14. \A n \in Origins : ListedOK(v, n, s)
  BY <1>4, <1>5, <1>8, <1>9 DEF Safe, ListedOK
<1>15. SocketOK(v, req', s) /\ Heard(v, s)
  BY <1>4, <1>5, <1>7, <1>8, <1>9 DEF Safe, SocketOK, Heard, On
<1>16. ReqOK(v, req', origin, r) /\ Kept(v, req', origin, r)
  <2>1. origin[r] # None /\ req[r].errors <= 1
    BY <1>4, <1>8, <1>9, OnTicks
  <2>2. t \in ToSet(v.ticks)
    BY <1>11
  <2> QED
    BY <2>1, <2>2, <1>5, <1>6, <1>7, <1>8, <1>4 DEF ReqOK, Kept, Attached, On
<1>17. Accounts(v, req', shouldKeepAlive, origin)
  BY <1>4, <1>5, <1>6, <1>8, <1>10, <1>11, <1>12, <1>13, <1>14, <1>15, <1>16, PairStep
<1> QED
  BY <1>3, <1>17 DEF Sound, ReadResponse


\* Socket s changes in its state, its listeners or its error mark only.
Marks(w, v, s) ==
    /\ v \in WorldType /\ v.pool = w.pool /\ v.ticks = w.ticks
    /\ \A z \in Sockets : z # s => v.conn[z] = w.conn[z]
    /\ v.conn[s].target = w.conn[s].target /\ v.conn[s].message = w.conn[s].message

LEMMA UnlistenMarks ==
  ASSUME NEW w \in WorldType, NEW s \in Sockets, NEW g,
         NEW v, v = Unlisten(w, s, g)
  PROVE  /\ Marks(w, v, s)
         /\ v.conn[s].state = w.conn[s].state /\ v.conn[s].hadError = w.conn[s].hadError
         /\ v.conn[s].listeners = w.conn[s].listeners \ g
<1>1. PICK c : c = [w.conn[s] EXCEPT !.listeners = @ \ g]
  OBVIOUS
<1>2. w.conn[s] \in ConnType
  BY DEF WorldType
<1>3. /\ c \in ConnType /\ c.target = w.conn[s].target /\ c.message = w.conn[s].message
      /\ c.state = w.conn[s].state /\ c.hadError = w.conn[s].hadError
      /\ c.listeners = w.conn[s].listeners \ g
  BY <1>1, <1>2 DEF ConnType
<1>4. v = WithConn(w, s, c)
  BY <1>1 DEF Unlisten, WithConn, WorldType
<1> QED
  BY <1>3, <1>4, WithConnType DEF Marks

LEMMA ErrorMarks ==
  ASSUME NEW w \in WorldType, NEW s \in Sockets, NEW b \in BOOLEAN,
         NEW v, v = SetError(w, s, b)
  PROVE  /\ Marks(w, v, s)
         /\ v.conn[s].state = w.conn[s].state /\ v.conn[s].hadError = b
         /\ v.conn[s].listeners = w.conn[s].listeners
<1>1. PICK c : c = [w.conn[s] EXCEPT !.hadError = b]
  OBVIOUS
<1>2. w.conn[s] \in ConnType
  BY DEF WorldType
<1>3. /\ c \in ConnType /\ c.target = w.conn[s].target /\ c.message = w.conn[s].message
      /\ c.state = w.conn[s].state /\ c.hadError = b
      /\ c.listeners = w.conn[s].listeners
  BY <1>1, <1>2 DEF ConnType
<1>4. v = WithConn(w, s, c)
  BY <1>1 DEF SetError, WithConn, WorldType
<1> QED
  BY <1>3, <1>4, WithConnType DEF Marks

LEMMA StateMarks ==
  ASSUME NEW w \in WorldType, NEW s \in Sockets, NEW x \in {"ended", "closed"},
         NEW v, v = SetState(w, s, x)
  PROVE  /\ Marks(w, v, s)
         /\ v.conn[s].state = x /\ v.conn[s].hadError = w.conn[s].hadError
         /\ v.conn[s].listeners = w.conn[s].listeners
<1>1. PICK c : c = WithState(w.conn[s], x)
  OBVIOUS
<1>2. w.conn[s] \in ConnType
  BY DEF WorldType
<1>3. /\ c \in ConnType /\ c.target = w.conn[s].target /\ c.message = w.conn[s].message
      /\ c.state = x /\ c.hadError = w.conn[s].hadError
      /\ c.listeners = w.conn[s].listeners
  BY <1>1, <1>2, WithStateType
<1>4. v = WithConn(w, s, c)
  BY <1>1 DEF SetState, WithConn, WithState, WorldType
<1> QED
  BY <1>3, <1>4, WithConnType DEF Marks

\* The socket of an attached pair is only marked and stays as alive as it was,
\* and its request neither closes nor loses its response.
Marked(w, v, rq, rq2, ka, ka2, s, r) ==
    /\ Marks(w, v, s)
    /\ v.conn[s].listeners \in {w.conn[s].listeners, w.conn[s].listeners \ {"reader"}}
    /\ \/ v.conn[s].state = w.conn[s].state
       \/ w.conn[s].state = "open" /\ v.conn[s].state = "ended"
    /\ v.conn[s].state \in {"open", "ended"} => v.conn[s].hadError = w.conn[s].hadError
    /\ \/ v.conn[s].hadError = w.conn[s].hadError
       \/ /\ v.conn[s].hadError = TRUE
          /\ \A t \in ToSet(w.ticks) : t.fn = "error" => t.sock # s
    /\ v.conn[s].hadError = TRUE \/ rq2[r].errors = rq[r].errors
    /\ \A q \in Requests : q # r => rq2[q] = rq[q] /\ ka2[q] = ka[q]
    /\ rq2[r].socket = rq[r].socket /\ rq2[r].closed = rq[r].closed /\ rq2[r].errors <= 1
    /\ Done(rq[r], ka[r]) => Done(rq2[r], ka2[r])
    /\ rq2[r].res = "read" \/ \A t \in ToSet(w.ticks) : t.fn = "end" => t.req # r

LEMMA MarkStep ==
  ASSUME NEW w \in WorldType, NEW v \in WorldType, NEW rq \in ReqMap, NEW rq2 \in ReqMap,
         NEW ka \in KeepMap, NEW ka2 \in KeepMap, NEW og,
         NEW s \in Sockets, NEW r \in Requests, On(w, rq, s, r),
         Nearly(w, rq, ka, og, s, r),
         Marked(w, v, rq, rq2, ka, ka2, s, r)
  PROVE  Accounts(v, rq2, ka2, og)
<1>1. /\ Safe(w, rq, ka, og) /\ None \notin Requests /\ None \notin Sockets
      /\ v.pool = w.pool /\ v.ticks = w.ticks
      /\ \A z \in Sockets : z # s => v.conn[z] = w.conn[z]
      /\ v.conn[s].target = w.conn[s].target /\ v.conn[s].message = r
      /\ "request" \in v.conn[s].listeners /\ rq[r].socket = s
      /\ w.conn[s].message = r
  BY AgentAssumption DEF Nearly, Marked, Marks, On
<1>2. /\ og[r] # None /\ w.conn[s].state # "unused" /\ "idle" \notin w.conn[s].listeners
      /\ rq[r].closed <=> w.conn[s].state = "closed"
      /\ rq[r].errors > 0 => w.conn[s].hadError
  BY <1>1, OnTicks
<1>3. Near(w, v, rq, rq2, ka, ka2, s, r)
  BY <1>1 DEF Near, Unclosed, Marked
<1>4. \A t \in ToSet(w.ticks) : Stays(v, rq2, t, s, r)
  <2>1. ASSUME NEW t \in ToSet(w.ticks)
        PROVE  TickOK(w, rq, ka, og, t)
    BY <1>1 DEF Safe
  <2> QED
    BY <2>1 DEF Stays, TickOK, ErrorOK, CloseOK, Marked
<1>5. \A n \in Origins : ListedOK(v, n, s)
  BY <1>1 DEF Safe, ListedOK, Unclosed, Marked
<1>6. SocketOK(v, rq2, s)
  <2>1. SocketOK(w, rq, s)
    BY <1>1 DEF Safe
  <2>2. v.conn[s].state \in {"open", "ended"} => ~v.conn[s].hadError
    BY <2>1 DEF SocketOK, Marked
  <2>3. rq2[r].errors > 0 => v.conn[s].hadError
    <3>1. w.conn[s].hadError \in BOOLEAN
      BY DEF WorldType, ConnType
    <3> QED
      BY <3>1, <1>2 DEF Marked
  <2>4. rq2[r].closed <=> v.conn[s].state = "closed"
    BY <1>2 DEF Marked
  <2> QED
    BY <2>1, <2>2, <2>3, <2>4, <1>1, <1>2 DEF SocketOK, Marked
<1>7. ReqOK(v, rq2, og, r) /\ Heard(v, s)
  BY <1>1, <1>2 DEF ReqOK, Attached, Heard, Marked
<1>8. Kept(v, rq2, og, r)
  <2>1. v.conn[s].state \in {"open", "ended", "destroyed"} \/ v.conn[s].state = "closed"
    <3>1. v.conn[s].state \in {"unused", "open", "ended", "destroyed", "closed"}
      BY DEF WorldType, ConnType
    <3> QED
      BY <3>1, <1>2 DEF Marked
  <2> QED
    BY <2>1, <1>1, <1>2 DEF Kept, Attached, Unclosed, Marked
<1>9. Ordered(v.ticks)
  BY <1>1 DEF Safe
<1> QED
  BY <1>1, <1>3, <1>4, <1>5, <1>6, <1>7, <1>8, <1>9, PairStep


-----------------------------------------------------------------------------
(* What the server sends. *)

LEMMA ResponseHeadSound ==
  ASSUME IInv, IInv', Sound, NEW s \in Sockets, NEW keep \in BOOLEAN,
         NEW kind \in {"open", "toEnd"}, ResponseHead(s, keep, kind)
  PROVE  Sound'
<1>1. PICK r : r = conn[s].message
  OBVIOUS
<1>2. "reader" \in conn[s].listeners
  BY DEF ResponseHead, Reading, Has
<1>3. /\ r \in Requests /\ On(World, req, s, r)
      /\ Nearly(World, req, shouldKeepAlive, origin, s, r)
  BY <1>1, <1>2, ReadingOn
<1>4. /\ World \in WorldType /\ req \in ReqMap /\ req' \in ReqMap
      /\ World.conn = conn /\ World.ticks = ticks
      /\ shouldKeepAlive \in KeepMap /\ shouldKeepAlive' \in KeepMap
  BY Typed DEF IInv, ReqMap, KeepMap
<1>5. /\ req[r].res = "none"
      /\ \A q \in Requests : q # r => req'[q] = req[q] /\ shouldKeepAlive'[q] = shouldKeepAlive[q]
      /\ req'[r].socket = req[r].socket /\ req'[r].closed = req[r].closed
      /\ req'[r].errors = req[r].errors
  BY <1>1, <1>3, <1>4 DEF ResponseHead, ReqMap, ReqType, KeepMap
<1>6. Marks(World, World, s)
  BY <1>4 DEF Marks
<1>7. /\ req[r].errors <= 1
      /\ \A t \in ToSet(World.ticks) : t.fn = "end" => t.req # r
  BY <1>3, <1>5 DEF Sound, Accounts, Safe, TickOK, ReqOK
<1>8. Accounts(World, req', shouldKeepAlive', origin)
  BY <1>3, <1>4, <1>5, <1>6, <1>7, MarkStep DEF Done, Marked
<1>9. Become(World) /\ UNCHANGED origin
  BY DEF ResponseHead, Become, World
<1> QED
  BY <1>4, <1>8, <1>9, Becomes

LEMMA ResponseCompleteSound ==
  ASSUME IInv, IInv', Sound, NEW s \in Sockets, NEW double \in BOOLEAN,
         ResponseComplete(s, double)
  PROVE  Sound'
<1>1. PICK r : r = conn[s].message
  OBVIOUS
<1>2. "reader" \in conn[s].listeners
  BY DEF ResponseComplete, Reading, Has
<1>3. /\ r \in Requests /\ On(World, req, s, r)
      /\ Nearly(World, req, shouldKeepAlive, origin, s, r)
  BY <1>1, <1>2, ReadingOn
<1>4. /\ World \in WorldType /\ req \in ReqMap /\ req' \in ReqMap
      /\ World.conn = conn /\ World.ticks = ticks /\ shouldKeepAlive \in KeepMap
  BY Typed DEF IInv, ReqMap, KeepMap
<1>5. /\ req[r].res = "open"
      /\ \A q \in Requests : q # r => req'[q] = req[q]
      /\ req'[r].socket = req[r].socket /\ req'[r].closed = req[r].closed
      /\ req'[r].errors = req[r].errors
  BY <1>1, <1>3, <1>4 DEF ResponseComplete, ReqMap, ReqType
<1>6. /\ req[r].errors <= 1
      /\ \A t \in ToSet(World.ticks) : t.fn = "end" => t.req # r
  BY <1>3, <1>5 DEF Sound, Accounts, Safe, TickOK, ReqOK
<1>7. ASSUME NEW v, Marks(World, v, s),
             v.conn[s].state = World.conn[s].state, v.conn[s].hadError = World.conn[s].hadError,
             v.conn[s].listeners \in {conn[s].listeners, conn[s].listeners \ {"reader"}}
      PROVE  v \in WorldType /\ Accounts(v, req', shouldKeepAlive, origin)
  <2>1. v \in WorldType
    BY <1>7 DEF Marks
  <2> QED
    BY <2>1, <1>3, <1>4, <1>5, <1>6, <1>7, MarkStep DEF Done, Marked
<1>8. CASE double = TRUE
  <2>1. Marks(World, World, s)
    BY <1>4 DEF Marks
  <2>2. Accounts(World, req', shouldKeepAlive, origin)
    BY <1>4, <1>7, <2>1
  <2>3. PICK v : v = DestroySocket(World, s)
    OBVIOUS
  <2>4. v \in WorldType /\ Accounts(v, req', shouldKeepAlive, origin)
    BY <1>4, <2>2, <2>3, DestroyAccounts
  <2>5. Become(v) /\ UNCHANGED <<origin, shouldKeepAlive>>
    BY <1>8, <2>3 DEF ResponseComplete
  <2> QED
    BY <2>4, <2>5, BecomesPlain
<1>9. CASE double # TRUE
  <2>1. PICK v : v = Unlisten(World, s, {"reader"})
    OBVIOUS
  <2>2. /\ Marks(World, v, s)
        /\ v.conn[s].state = World.conn[s].state /\ v.conn[s].hadError = World.conn[s].hadError
        /\ v.conn[s].listeners = World.conn[s].listeners \ {"reader"}
    BY <1>4, <2>1, UnlistenMarks
  <2>3. v \in WorldType /\ Accounts(v, req', shouldKeepAlive, origin)
    BY <1>4, <1>7, <2>2
  <2>4. Become(v) /\ UNCHANGED <<origin, shouldKeepAlive>>
    BY <1>9, <2>1 DEF ResponseComplete
  <2> QED
    BY <2>3, <2>4, BecomesPlain
<1> QED
  BY <1>8, <1>9

LEMMA ErrsFields ==
  ASSUME NEW q \in ReqType, NEW e \in {0, 1}, q.errors = 0
  PROVE  /\ Errs(q, e).errors = e /\ Errs(q, e).socket = q.socket
         /\ Errs(q, e).closed = q.closed /\ Errs(q, e).res = q.res
         /\ Errs(q, e).finished = q.finished
BY DEF Errs, ReqType

\* The socket of a request that reads is destroyed, and may be marked as failed
\* while the request emits 'error'.
LEMMA FailStep ==
  ASSUME IInv, IInv', Sound, NEW s \in Sockets, Live(World, s),
         "reader" \in conn[s].listeners, NEW e \in {0, 1}, NEW b \in BOOLEAN,
         e = 1 => b = TRUE, NEW r, r = conn[s].message,
         \A q \in Requests : q # r => req'[q] = req[q],
         req'[r] = Errs(req[r], e),
         UNCHANGED <<origin, shouldKeepAlive>>,
         NEW d, d = DestroySocket(World, s), NEW v, v = SetError(d, s, b), Become(v)
  PROVE  Sound'
<1>1. /\ r \in Requests /\ On(World, req, s, r)
      /\ Nearly(World, req, shouldKeepAlive, origin, s, r)
  BY ReadingOn
<1>2. /\ World \in WorldType /\ req \in ReqMap /\ req' \in ReqMap
      /\ World.conn = conn /\ World.ticks = ticks /\ shouldKeepAlive \in KeepMap
      /\ req[r] \in ReqType /\ conn[s] \in ConnType /\ ticks \in Seq(TickType)
  BY <1>1, Typed DEF IInv, ReqMap, KeepMap
<1>3. /\ Safe(World, req, shouldKeepAlive, origin)
      /\ conn[s].hadError = FALSE /\ req[r].errors = 0
  <2>1. Safe(World, req, shouldKeepAlive, origin)
    BY DEF Sound, Accounts
  <2>2. SocketOK(World, req, s) /\ conn[s].state \in {"open", "ended"}
    BY <2>1, <1>2 DEF Safe, Live
  <2>3. conn[s].hadError \in BOOLEAN /\ req[r].errors \in 0..2
    BY <1>2 DEF ConnType, ReqType
  <2>4. conn[s].hadError = FALSE
    BY <2>2, <2>3, <1>2 DEF SocketOK
  <2>5. ~(req[r].errors > 0)
    BY <2>2, <2>4, <1>1, <1>2 DEF SocketOK, On
  <2> QED
    BY <2>1, <2>3, <2>4, <2>5
<1>4. /\ req'[r].errors = e /\ req'[r].socket = req[r].socket
      /\ req'[r].closed = req[r].closed /\ req'[r].res = req[r].res
      /\ req'[r].finished = req[r].finished
  BY <1>2, <1>3, ErrsFields
<1>5. d \in WorldType /\ Accounts(d, req, shouldKeepAlive, origin)
  BY <1>2, DestroyAccounts DEF Sound
<1>6. /\ d.conn[s] = WithState(conn[s], "destroyed")
      /\ \A t \in ToSet(d.ticks) : t.fn = "error" => t.sock # s
  <2>1. /\ Destroys(World, d, s)
        /\ d.ticks = IF CloseByTick THEN Append(World.ticks, Tick("close", None, s)) ELSE World.ticks
    BY <1>2, DestroyEffect
  <2>2. \A t \in ToSet(d.ticks) : t \in ToSet(ticks) \/ t = Tick("close", None, s)
    BY <2>1, <1>2, AppendedSet
  <2>3. Tick("close", None, s).fn = "close"
    BY TickFields
  <2>4. \A t \in ToSet(ticks) : t.fn = "error" => t.sock # s
    BY <1>2, <1>3 DEF Safe, TickOK, ErrorOK, Live
  <2> QED
    BY <2>1, <2>2, <2>3, <2>4, <1>2 DEF Destroys
<1>7. /\ d.conn[s].message = conn[s].message /\ d.conn[s].listeners = conn[s].listeners
      /\ d.conn[s].state = "destroyed" /\ d.conn[s].hadError = FALSE
  BY <1>2, <1>3, <1>6, WithStateType
<1>8. /\ Marks(d, v, s) /\ v.conn[s].state = d.conn[s].state /\ v.conn[s].hadError = b
      /\ v.conn[s].listeners = d.conn[s].listeners
  BY <1>5, ErrorMarks
<1>9. On(d, req, s, r) /\ Nearly(d, req, shouldKeepAlive, origin, s, r)
  BY <1>1, <1>2, <1>5, <1>7 DEF On, Nearly, Accounts
<1>10. req'[r].res = "read" \/ \A t \in ToSet(d.ticks) : t.fn = "end" => t.req # r
  BY <1>4, <1>5 DEF Accounts, Safe, TickOK
<1>11. Done(req[r], shouldKeepAlive[r]) => Done(req'[r], shouldKeepAlive[r])
  BY <1>4 DEF Done
<1>12. v \in WorldType
  BY <1>8 DEF Marks
<1>13. v.conn[s].hadError = TRUE \/ req'[r].errors = req[r].errors
  BY <1>3, <1>4, <1>8
<1>14. req'[r].errors <= 1
  BY <1>4
<1>15. Marked(d, v, req, req', shouldKeepAlive, shouldKeepAlive, s, r)
  BY <1>3, <1>4, <1>6, <1>7, <1>8, <1>10, <1>11, <1>13, <1>14 DEF Marked
<1>16. Accounts(v, req', shouldKeepAlive, origin)
  BY <1>1, <1>2, <1>5, <1>9, <1>12, <1>15, MarkStep
<1> QED
  BY <1>12, <1>16, BecomesPlain

LEMMA ParseErrorSound ==
  ASSUME IInv, IInv', Sound, NEW s \in Sockets, ParseError(s)
  PROVE  Sound'
<1>1. PICK r : r = conn[s].message
  OBVIOUS
<1>2. PICK d : d = DestroySocket(World, s)
  OBVIOUS
<1>3. PICK v : v = SetError(d, s, TRUE)
  OBVIOUS
<1>4. "reader" \in conn[s].listeners /\ Live(World, s)
  BY Typed DEF ParseError, Reading, Has, Live
<1>5. r \in Requests
  BY <1>1, <1>4, ReadingOn
<1>6. /\ \A q \in Requests : q # r => req'[q] = req[q]
      /\ req'[r] = Errs(req[r], 1)
  BY <1>1, <1>5, Typed DEF ParseError, ReqMap
<1>7. Become(v) /\ UNCHANGED <<origin, shouldKeepAlive>>
  BY <1>2, <1>3 DEF ParseError, SetError
<1>8. 1 \in {0, 1} /\ TRUE \in BOOLEAN
  OBVIOUS
<1> QED
  BY <1>1, <1>2, <1>3, <1>4, <1>6, <1>7, <1>8, FailStep


\* A socket ends its own side.
LEMMA EndedSafe ==
  ASSUME NEW w \in WorldType, NEW rq \in ReqMap, NEW ka \in KeepMap, NEW og,
         Accounts(w, rq, ka, og), NEW s \in Sockets, w.conn[s].state = "open",
         NEW v, v = SetState(w, s, "ended")
  PROVE  v \in WorldType /\ Accounts(v, rq, ka, og)
<1>1. /\ Marks(w, v, s) /\ v.conn[s].state = "ended"
      /\ v.conn[s].hadError = w.conn[s].hadError /\ v.conn[s].listeners = w.conn[s].listeners
  BY StateMarks
<1>2. /\ v \in WorldType /\ v.pool = w.pool /\ v.ticks = w.ticks
      /\ \A z \in Sockets : z # s => v.conn[z] = w.conn[z]
      /\ v.conn[s].message = w.conn[s].message /\ v.conn[s].target = w.conn[s].target
      /\ Safe(w, rq, ka, og) /\ None \notin Requests /\ None \notin Sockets
  BY <1>1, AgentAssumption DEF Marks, Accounts
<1>3. Near(w, v, rq, rq, ka, ka, s, None)
  BY <1>1, <1>2 DEF Near, Unclosed
<1>4. ASSUME NEW t \in ToSet(w.ticks)
      PROVE  TickOK(v, rq, ka, og, t)
  <2>1. TickOK(w, rq, ka, og, t)
    BY <1>2 DEF Safe
  <2>2. t.fn = "onSocket" => OnSocketOK(v, rq, ka, og, t.req, t.sock)
    BY <2>1, <1>1, <1>2 DEF TickOK, OnSocketOK, Unclosed, Reusable, Bare
  <2>3. t.fn = "emitFree" => EmitFreeOK(v, rq, ka, t.req, t.sock)
    BY <2>1, <1>1, <1>2 DEF TickOK, EmitFreeOK, Bare
  <2>4. t.fn = "error" => ErrorOK(v, t.sock)
    BY <2>1, <1>1, <1>2 DEF TickOK, ErrorOK
  <2>5. t.fn = "close" => CloseOK(v, t.sock)
    BY <2>1, <1>1, <1>2 DEF TickOK, CloseOK
  <2> QED
    BY <2>1, <2>2, <2>3, <2>4, <2>5 DEF TickOK
<1>5. \A n \in Origins : ListedOK(v, n, s)
  BY <1>1, <1>2 DEF Safe, ListedOK, Unclosed
<1>6. SocketOK(v, rq, s)
  BY <1>1, <1>2 DEF Safe, SocketOK
<1>7. Safe(v, rq, ka, og)
  <2>1. Ordered(v.ticks)
    BY <1>2 DEF Safe
  <2> QED
    BY <2>1, <1>2, <1>3, <1>4, <1>5, <1>6, NearSafe
<1>8. Spares(w, v, rq, rq, og, s, None)
  BY <1>2, <1>3, NearSpares
<1>9. Heard(v, s)
  BY <1>1, <1>2 DEF Heard, Accounts
<1> QED
  BY <1>2, <1>7, <1>8, <1>9 DEF Accounts, Spares

LEMMA PeerEndSound ==
  ASSUME IInv, IInv', Sound, NEW s \in Sockets, PeerEnd(s)
  PROVE  Sound'
<1>1. CASE Live(World, s) /\ Has(s, "reader")
  <2>1. PICK r : r = conn[s].message
    OBVIOUS
  <2>2. PICK d : d = DestroySocket(World, s)
    OBVIOUS
  <2>3. PICK fails : fails = (req[r].res = "none" /\ ~conn[s].hadError)
    OBVIOUS
  <2>4. PICK b : b = (d.conn[s].hadError \/ fails)
    OBVIOUS
  <2>5. PICK v : v = SetError(d, s, b)
    OBVIOUS
  <2>6. PICK e : e = IF fails THEN 1 ELSE 0
    OBVIOUS
  <2>7. "reader" \in conn[s].listeners /\ r \in Requests
    BY <1>1, <2>1, ReadingOn DEF Has
  <2>8. /\ Become(v) /\ UNCHANGED <<origin, shouldKeepAlive>>
        /\ req' = [req EXCEPT ![r] = Errs(req[r], e)]
    BY <1>1, <2>1, <2>2, <2>3, <2>4, <2>5, <2>6, Typed DEF PeerEnd, SetError
  <2>9. /\ \A q \in Requests : q # r => req'[q] = req[q]
        /\ req'[r] = Errs(req[r], e)
    BY <2>7, <2>8, Typed DEF ReqMap
  <2>10. b \in BOOLEAN /\ e \in {0, 1} /\ (e = 1 => b = TRUE)
    <3>1. b \in BOOLEAN
      BY <2>4, Zenon
    <3>2. e \in {0, 1} /\ (e = 1 => fails)
      BY <2>6
    <3>3. fails => b = TRUE
      BY <2>4, Zenon
    <3> QED
      BY <3>1, <3>2, <3>3
  <2>11. UNCHANGED <<origin, shouldKeepAlive>> /\ Become(v)
    BY <2>8
  <2> QED
    BY <1>1, <2>1, <2>2, <2>5, <2>7, <2>9, <2>10, <2>11, FailStep
<1>2. CASE ~(Live(World, s) /\ Has(s, "reader"))
  <2>1. PICK v : v = SetState(World, s, "ended")
    OBVIOUS
  <2>2. /\ Become(v) /\ UNCHANGED <<origin, shouldKeepAlive, req>>
        /\ conn[s].state = "open"
    BY <1>2, <2>1 DEF PeerEnd, SetState
  <2>3. v \in WorldType /\ Accounts(v, req, shouldKeepAlive, origin)
    BY <2>1, <2>2, Typed, EndedSafe DEF Sound
  <2> QED
    BY <2>2, <2>3, BecomesPlain
<1> QED
  BY <1>1, <1>2


-----------------------------------------------------------------------------
(* The callbacks that give a request its socket or report that it has none. *)

\* The tick that runs is about a request nothing has come of; no other is.
LEMMA OfferTicks ==
  ASSUME IInv, Sound, ticks # <<>>, NEW h, h = Head(ticks), h.fn \in {"onSocket", "hangUp"},
         NEW r, r = h.req
  PROVE  /\ r \in Requests /\ origin[r] # None /\ Untouched(req[r]) /\ ~Queued(Popped, r)
         /\ \A t \in ToSet(Popped.ticks) :
               /\ TickOK(Popped, req, shouldKeepAlive, origin, t)
               /\ t.fn \in {"onSocket", "emitFree", "hangUp", "end"} => t.req # r
<1>1. /\ Popped.pool = pool /\ h \in ToSet(World.ticks)
      /\ TickOK(World, req, shouldKeepAlive, origin, h)
      /\ \A t \in ToSet(Popped.ticks) : ~Clash(h, t)
      /\ Safe(Popped, req, shouldKeepAlive, origin)
  BY PoppedSafe
<1>2. r \in Requests /\ origin[r] # None /\ Untouched(req[r])
  BY <1>1 DEF TickOK, OnSocketOK, HangUpOK
<1>3. ~Queued(Popped, r)
  <2>1. ~Queued(World, r)
    BY <1>1, <1>2 DEF Sound, Accounts, Safe, QueueOK
  <2> QED
    BY <2>1, <1>1, Typed DEF Queued
<1>4. ASSUME NEW t \in ToSet(Popped.ticks)
      PROVE  /\ TickOK(Popped, req, shouldKeepAlive, origin, t)
             /\ t.fn \in {"onSocket", "emitFree", "hangUp", "end"} => t.req # r
  <2>1. TickOK(Popped, req, shouldKeepAlive, origin, t)
    BY <1>1 DEF Safe
  <2>2. t.fn \in {"onSocket", "hangUp"} => t.req # r
    BY <1>1 DEF Clash
  <2>3. t.fn = "emitFree" => t.req # r
    BY <2>1, <1>2, AgentAssumption DEF TickOK, EmitFreeOK, Untouched
  <2>4. t.fn = "end" => t.req # r
    BY <2>1, <1>2 DEF TickOK, Untouched
  <2> QED
    BY <2>1, <2>2, <2>3, <2>4
<1> QED
  BY <1>2, <1>3, <1>4

\* Attaching a request to its socket.
Attach(w, s, r) == [w EXCEPT !.conn[s].message = r,
                             !.conn[s].listeners = @ \cup {"request", "reader"}]

LEMMA AttachType ==
  ASSUME NEW w \in WorldType, NEW s \in Sockets, NEW r \in Requests,
         NEW v, v = Attach(w, s, r)
  PROVE  /\ v \in WorldType /\ v.pool = w.pool /\ v.ticks = w.ticks
         /\ \A z \in Sockets : z # s => v.conn[z] = w.conn[z]
         /\ v.conn[s].target = w.conn[s].target /\ v.conn[s].message = r
         /\ v.conn[s].state = w.conn[s].state /\ v.conn[s].hadError = w.conn[s].hadError
         /\ v.conn[s].listeners = w.conn[s].listeners \cup {"request", "reader"}
<1>1. PICK c : c = [w.conn[s] EXCEPT !.message = r, !.listeners = @ \cup {"request", "reader"}]
  OBVIOUS
<1>2. w.conn[s] \in ConnType
  BY DEF WorldType
<1>3. /\ c \in ConnType /\ c.target = w.conn[s].target /\ c.message = r
      /\ c.state = w.conn[s].state /\ c.hadError = w.conn[s].hadError
      /\ c.listeners = w.conn[s].listeners \cup {"request", "reader"}
  BY <1>1, <1>2 DEF ConnType
<1>4. v = WithConn(w, s, c)
  BY <1>1 DEF Attach, WithConn, WorldType
<1> QED
  BY <1>3, <1>4, WithConnType

LEMMA RunOnSocketSound ==
  ASSUME IInv, IInv', Sound, NEW r \in Requests, NEW s \in Sockets, RunOnSocket(r, s)
  PROVE  Sound'
<1>1. PICK h : h = Head(ticks)
  OBVIOUS
<1>2. h.fn = "onSocket" /\ h.req = r /\ h.sock = s /\ ticks # <<>>
  BY <1>1, TickFields DEF RunOnSocket, Runs
<1>3. PICK w : w = Popped
  OBVIOUS
<1>4. PICK v : v = Attach(w, s, r)
  OBVIOUS
<1>5. /\ w \in WorldType /\ w.conn = conn /\ w.pool = pool
      /\ TickOK(World, req, shouldKeepAlive, origin, h)
      /\ \A t \in ToSet(w.ticks) : ~Clash(h, t)
      /\ Safe(w, req, shouldKeepAlive, origin)
      /\ \A z \in Sockets : ~Taking(h, z) => Heard(w, z)
      /\ \A q \in Requests : h.req # q => Kept(w, req, origin, q)
  BY <1>1, <1>2, <1>3, PoppedSafe
<1>6. /\ origin[r] # None /\ Untouched(req[r]) /\ ~Queued(w, r)
      /\ \A t \in ToSet(w.ticks) :
            /\ TickOK(w, req, shouldKeepAlive, origin, t)
            /\ t.fn \in {"onSocket", "emitFree", "hangUp", "end"} => t.req # r
  BY <1>1, <1>2, <1>3, OfferTicks
<1>7. Unclosed(w.conn[s]) /\ Reusable(w.conn[s], req, shouldKeepAlive)
  BY <1>2, <1>5, Typed DEF TickOK, OnSocketOK
<1>8. /\ v \in WorldType /\ v.pool = w.pool /\ v.ticks = w.ticks
      /\ \A z \in Sockets : z # s => v.conn[z] = w.conn[z]
      /\ v.conn[s].target = w.conn[s].target /\ v.conn[s].message = r
      /\ v.conn[s].state = w.conn[s].state /\ v.conn[s].hadError = w.conn[s].hadError
      /\ v.conn[s].listeners = w.conn[s].listeners \cup {"request", "reader"}
  BY <1>4, <1>5, AttachType
<1>9. /\ req \in ReqMap /\ req' \in ReqMap /\ shouldKeepAlive \in KeepMap
      /\ None \notin Requests /\ None \notin Sockets /\ origin \in OriginMap
  BY Typed DEF IInv, ReqMap
<1>10. /\ \A q \in Requests : q # r => req'[q] = req[q]
       /\ req'[r].socket = s /\ req'[r].errors = req[r].errors
       /\ req'[r].closed = req[r].closed /\ req'[r].res = req[r].res
  BY <1>9 DEF RunOnSocket, ReqMap, ReqType
<1>11. Near(w, v, req, req', shouldKeepAlive, shouldKeepAlive, s, r)
  BY <1>6, <1>7, <1>8, <1>10 DEF Near, Done, Untouched, Reusable, Bare
<1>12. ASSUME NEW t \in ToSet(w.ticks)
       PROVE  Apart(t, s, r) \/ TickOK(v, req', shouldKeepAlive, origin, t)
  <2>1. /\ TickOK(w, req, shouldKeepAlive, origin, t) /\ ~Clash(h, t)
        /\ t.fn \in {"onSocket", "emitFree", "hangUp", "end"} => t.req # r
    BY <1>5, <1>6
  <2>2. t.fn \in {"onSocket", "emitFree"} => Apart(t, s, r)
    BY <2>1, <1>2 DEF Clash, Apart
  <2>3. t.fn = "hangUp" => HangUpOK(req', origin, t.req)
    BY <2>1, <1>10 DEF TickOK, HangUpOK
  <2>4. t.fn = "end" => t.req \in Requests /\ req'[t.req].res = "read"
    BY <2>1, <1>10 DEF TickOK
  <2>5. t.fn = "error" => ErrorOK(v, t.sock)
    BY <2>1, <1>8 DEF TickOK, ErrorOK
  <2>6. t.fn = "close" => CloseOK(v, t.sock)
    BY <2>1, <1>8 DEF TickOK, CloseOK
  <2> QED
    BY <2>2, <2>3, <2>4, <2>5, <2>6 DEF TickOK
<1>13. \A n \in Origins : ListedOK(v, n, s)
  BY <1>5, <1>8 DEF Safe, ListedOK, Unclosed
<1>14. SocketOK(v, req', s)
  <2>1. SocketOK(w, req, s)
    BY <1>5 DEF Safe
  <2>2. req'[r].closed = FALSE /\ ~(req'[r].errors > 0) /\ v.conn[s].state # "closed"
    <3>1. req[r].closed \in BOOLEAN
      BY <1>9 DEF ReqMap, ReqType
    <3> QED
      BY <3>1, <1>6, <1>7, <1>8, <1>10 DEF Untouched, Unclosed
  <2> QED
    BY <2>1, <2>2, <1>7, <1>8, <1>10 DEF SocketOK, Unclosed, Reusable, Bare
<1>15. ReqOK(v, req', origin, r) /\ ~Queued(v, r)
  <2>1. ~Queued(v, r)
    BY <1>6, <1>8, NearQueued
  <2> QED
    BY <2>1, <1>6, <1>10 DEF ReqOK, Untouched
<1>16. Safe(v, req', shouldKeepAlive, origin)
  <2>1. Ordered(v.ticks)
    BY <1>5, <1>8 DEF Safe
  <2> QED
    BY <2>1, <1>5, <1>8, <1>9, <1>11, <1>12, <1>13, <1>14, <1>15, NearSafe
<1>17. Spares(w, v, req, req', origin, s, r)
  BY <1>5, <1>8, <1>9, <1>11, NearSpares
<1>18. Heard(v, s) /\ Kept(v, req', origin, r)
  BY <1>7, <1>8, <1>10 DEF Heard, Kept, Attached, Unclosed
<1>19. Accounts(v, req', shouldKeepAlive, origin)
  BY <1>2, <1>5, <1>16, <1>17, <1>18 DEF Accounts, Spares, Taking
<1>20. Become(v) /\ UNCHANGED <<origin, shouldKeepAlive>>
  BY <1>3, <1>4 DEF RunOnSocket, Attach
<1> QED
  BY <1>8, <1>19, <1>20, BecomesPlain


LEMMA ClosesFields ==
  ASSUME NEW q \in ReqType
  PROVE  /\ Closes(q) \in ReqType /\ Closes(q).closed = TRUE /\ Closes(q).errors = q.errors
         /\ Closes(q).socket = q.socket /\ Closes(q).res = q.res
         /\ Closes(q).finished = q.finished
BY DEF Closes, ReqType

LEMMA ErrsIn ==
  ASSUME NEW q \in ReqType, NEW e \in {0, 1}
  PROVE  Errs(q, e) \in ReqType
BY DEF Errs, ReqType

\* A request that nothing has come of is reported to be over.
LEMMA ClosesSafe ==
  ASSUME IInv, IInv', Sound, ticks # <<>>, NEW h, h = Head(ticks),
         h.fn \in {"onSocket", "hangUp"}, NEW r, r = h.req, NEW e \in {0, 1},
         \A q \in Requests : q # r => req'[q] = req[q],
         req'[r] = Closes(Errs(req[r], e))
  PROVE  /\ Safe(Popped, req', shouldKeepAlive, origin)
         /\ \A z \in Sockets : ~Taking(h, z) => Heard(Popped, z)
         /\ \A q \in Requests : Kept(Popped, req', origin, q)
<1>1. PICK w : w = Popped
  OBVIOUS
<1>2. /\ w \in WorldType /\ w.conn = conn /\ Safe(w, req, shouldKeepAlive, origin)
      /\ \A z \in Sockets : ~Taking(h, z) => Heard(w, z)
      /\ \A q \in Requests : h.req # q => Kept(w, req, origin, q)
  BY <1>1, PoppedSafe
<1>3. /\ r \in Requests /\ origin[r] # None /\ Untouched(req[r]) /\ ~Queued(w, r)
      /\ \A t \in ToSet(w.ticks) :
            /\ TickOK(w, req, shouldKeepAlive, origin, t)
            /\ t.fn \in {"onSocket", "emitFree", "hangUp", "end"} => t.req # r
  BY <1>1, OfferTicks
<1>4. /\ req \in ReqMap /\ req' \in ReqMap /\ shouldKeepAlive \in KeepMap
      /\ None \notin Requests /\ None \notin Sockets /\ req[r] \in ReqType
  BY <1>3, Typed DEF IInv, ReqMap
<1>5. /\ req'[r].closed = TRUE /\ req'[r].errors = e
      /\ req'[r].socket = req[r].socket /\ req'[r].res = req[r].res
  <2>1. PICK x : x = Errs(req[r], e)
    OBVIOUS
  <2>2. x.errors = e /\ x.socket = req[r].socket /\ x.res = req[r].res /\ x \in ReqType
    BY <2>1, <1>3, <1>4, ErrsFields, ErrsIn DEF Untouched
  <2>3. req'[r] = Closes(x)
    BY <2>1
  <2> QED
    BY <2>2, <2>3, ClosesFields
<1>6. Near(w, w, req, req', shouldKeepAlive, shouldKeepAlive, None, r)
  BY <1>3, <1>4 DEF Near, Done, Untouched
<1>7. ASSUME NEW t \in ToSet(w.ticks)
      PROVE  Apart(t, None, r) \/ TickOK(w, req', shouldKeepAlive, origin, t)
  <2>1. /\ TickOK(w, req, shouldKeepAlive, origin, t)
        /\ t.fn \in {"onSocket", "emitFree", "hangUp", "end"} => t.req # r
    BY <1>3
  <2>2. CASE t.req # r
    BY <2>2 DEF Apart
  <2>3. CASE t.req = r
    BY <2>1, <2>3 DEF TickOK
  <2> QED
    BY <2>2, <2>3
<1>8. ReqOK(w, req', origin, r)
  BY <1>3, <1>5 DEF ReqOK, Untouched
<1>9. Safe(w, req', shouldKeepAlive, origin)
  <2>1. Ordered(w.ticks)
    BY <1>2 DEF Safe
  <2>2. None \in Sockets \cup {None} /\ r \in Requests \cup {None}
    BY <1>3
  <2> QED
    BY <2>1, <2>2, <1>2, <1>3, <1>4, <1>6, <1>7, <1>8, NearSafe
<1>10. Spares(w, w, req, req', origin, None, r)
  BY <1>2, <1>3, <1>4, <1>6, NearSpares
<1>11. Kept(w, req', origin, r)
  BY <1>5 DEF Kept
<1> QED
  BY <1>1, <1>2, <1>9, <1>10, <1>11 DEF Spares

LEMMA RunHangUpSound ==
  ASSUME IInv, IInv', Sound, NEW r \in Requests, RunHangUp(r)
  PROVE  Sound'
<1>1. PICK h : h = Head(ticks)
  OBVIOUS
<1>2. h.fn = "hangUp" /\ h.req = r /\ ticks # <<>>
  <2>1. None \in Sockets \cup {None} /\ r \in Requests \cup {None}
    OBVIOUS
  <2> QED
    BY <1>1, <2>1, TickFields DEF RunHangUp, Runs
<1>3. PICK e \in {0, 1} : req' = [req EXCEPT ![r] = Closes(Errs(@, e))]
  BY DEF RunHangUp
<1>4. /\ \A q \in Requests : q # r => req'[q] = req[q]
      /\ req'[r] = Closes(Errs(req[r], e))
  BY <1>3, Typed DEF ReqMap
<1>5. /\ Safe(Popped, req', shouldKeepAlive, origin)
      /\ \A z \in Sockets : ~Taking(h, z) => Heard(Popped, z)
      /\ \A q \in Requests : Kept(Popped, req', origin, q)
  BY <1>1, <1>2, <1>4, ClosesSafe
<1>6. Accounts(Popped, req', shouldKeepAlive, origin)
  BY <1>2, <1>5 DEF Accounts, Taking
<1>7. Popped \in WorldType /\ Become(Popped) /\ UNCHANGED <<origin, shouldKeepAlive>>
  BY <1>1, <1>2, PoppedSafe DEF RunHangUp
<1> QED
  BY <1>6, <1>7, BecomesPlain

LEMMA RunOnSocketDestroyedSound ==
  ASSUME IInv, IInv', Sound, NEW r \in Requests, NEW s \in Sockets,
         RunOnSocketDestroyed(r, s)
  PROVE  Sound'
<1>1. PICK h : h = Head(ticks)
  OBVIOUS
<1>2. h.fn = "onSocket" /\ h.req = r /\ h.sock = s /\ ticks # <<>>
  BY <1>1, TickFields DEF RunOnSocketDestroyed, Runs
<1>3. PICK w : w = Popped
  OBVIOUS
<1>4. /\ w \in WorldType /\ WorldOK(w, origin) /\ w.conn = conn /\ w.pool = pool
      /\ TickOK(World, req, shouldKeepAlive, origin, h)
      /\ \A t \in ToSet(w.ticks) : ~Clash(h, t)
      /\ Safe(w, req, shouldKeepAlive, origin)
      /\ \A z \in Sockets : ~Taking(h, z) => Heard(w, z)
      /\ \A q \in Requests : h.req # q => Kept(w, req, origin, q)
  BY <1>1, <1>2, <1>3, PoppedSafe
<1>5. /\ origin[r] # None /\ Untouched(req[r]) /\ ~Queued(w, r)
  BY <1>1, <1>2, <1>3, OfferTicks
<1>6. Reusable(w.conn[s], req, shouldKeepAlive)
  BY <1>2, <1>4, Typed DEF TickOK, OnSocketOK
<1>7. /\ req \in ReqMap /\ req' \in ReqMap /\ shouldKeepAlive \in KeepMap
      /\ None \notin Requests /\ None \notin Sockets /\ origin \in OriginMap
  BY Typed DEF IInv, ReqMap
<1>8. \A t \in ToSet(w.ticks) : ~Taking(t, s)
  BY <1>2, <1>4 DEF Clash, Taking
<1>9. CASE Live(World, s)
  <2>1. PICK e : e = IF req[r].why = "aborted" THEN 0 ELSE 1
    OBVIOUS
  <2>2. /\ req' = [req EXCEPT ![r] = Closes(Errs(@, e))]
        /\ Become(FreeSocket(w, s)) /\ UNCHANGED <<origin, shouldKeepAlive>>
    BY <1>9, <1>3, <2>1 DEF RunOnSocketDestroyed
  <2>3. /\ \A q \in Requests : q # r => req'[q] = req[q]
        /\ req'[r] = Closes(Errs(req[r], e)) /\ e \in {0, 1}
    BY <2>1, <2>2, <1>7 DEF ReqMap
  <2>4. /\ Safe(w, req', shouldKeepAlive, origin)
        /\ \A z \in Sockets : ~Taking(h, z) => Heard(w, z)
        /\ \A q \in Requests : Kept(w, req', origin, q)
    BY <1>1, <1>2, <1>3, <2>3, ClosesSafe
  <2>5. Reusable(w.conn[s], req', shouldKeepAlive)
    <3>1. w.conn[s].message \in Requests \cup {None}
      BY <1>4 DEF WorldType, ConnType
    <3>2. w.conn[s].message # r
      BY <1>5, <1>6, <1>7 DEF Reusable, Done, Untouched
    <3> QED
      BY <3>1, <3>2, <2>3, <1>6 DEF Reusable
  <2>6. PICK v : v = FreeSocket(w, s)
    OBVIOUS
  <2>7. /\ v \in WorldType /\ Safe(v, req', shouldKeepAlive, origin)
        /\ Keeps(w, v, req', origin) /\ Heard(v, s)
    BY <1>4, <1>7, <1>8, <2>4, <2>5, <2>6, FreeSafe
  <2>8. Accounts(v, req', shouldKeepAlive, origin)
    BY <1>2, <2>4, <2>7 DEF Accounts, Keeps, Taking
  <2> QED
    BY <2>2, <2>6, <2>7, <2>8, BecomesPlain
<1>10. CASE ~Live(World, s)
  <2>1. PICK t : t = Tick("hangUp", r, None)
    OBVIOUS
  <2>2. PICK v : v = WithTicks(w, Append(w.ticks, t))
    OBVIOUS
  <2>3. Become(v) /\ UNCHANGED <<origin, shouldKeepAlive, req>>
    BY <1>10, <1>3, <2>1, <2>2 DEF RunOnSocketDestroyed, WithTicks
  <2>4. t \in TickType /\ t.fn = "hangUp" /\ t.req = r
    <3>1. None \in Sockets \cup {None} /\ r \in Requests \cup {None}
      OBVIOUS
    <3> QED
      BY <3>1, <2>1, TickFields
  <2>5. w.ticks \in Seq(TickType) /\ Append(w.ticks, t) \in Seq(TickType)
    BY <2>4, <1>4, AppendedTick DEF WorldType
  <2>6. /\ v \in WorldType /\ v.pool = w.pool /\ v.conn = w.conn
        /\ v.ticks = Append(w.ticks, t)
    BY <2>2, <2>5, <1>4, WithTicksType
  <2>7. ToSet(v.ticks) = ToSet(w.ticks) \cup {t} /\ Ordered(v.ticks)
    <3>1. \A a \in ToSet(w.ticks) : ~Clash(a, t)
      BY <1>2, <1>4, <2>4 DEF Clash
    <3> QED
      BY <3>1, <2>4, <2>5, <2>6, <1>4, AppendedTick DEF Safe
  <2>8. Near(w, v, req, req, shouldKeepAlive, shouldKeepAlive, None, None)
    BY <2>6, <1>7 DEF Near
  <2>9. TickOK(v, req, shouldKeepAlive, origin, t)
    BY <2>4, <1>5 DEF TickOK, HangUpOK
  <2>10. \A a : Apart(a, None, None)
    BY DEF Apart
  <2>11. ~Queued(v, r)
    BY <1>5, <2>6, NearQueued
  <2>12. Safe(v, req, shouldKeepAlive, origin)
    <3>1. None \in Sockets \cup {None} /\ None \in Requests \cup {None}
      OBVIOUS
    <3>2. \A a \in ToSet(v.ticks) : \/ a \in ToSet(w.ticks) /\ Apart(a, None, None)
                                    \/ TickOK(v, req, shouldKeepAlive, origin, a)
      BY <2>7, <2>9, <2>10
    <3>3. \A a \in ToSet(v.ticks) : \/ a \in ToSet(w.ticks)
                                    \/ a.fn \notin {"onSocket", "hangUp"}
                                    \/ ~Queued(v, a.req)
      BY <2>4, <2>7, <2>11
    <3> QED
      BY <3>1, <3>2, <3>3, <1>4, <1>7, <2>6, <2>7, <2>8, NearSafe
  <2>13. Spares(w, v, req, req, origin, None, None)
    BY <1>4, <1>7, <2>6, <2>7, <2>8, NearSpares
  <2>14. Heard(v, s) /\ Kept(v, req, origin, r)
    BY <1>4, <1>10, <2>4, <2>6, <2>7, Typed DEF Heard, Live, Kept
  <2>15. Accounts(v, req, shouldKeepAlive, origin)
    BY <1>2, <1>4, <1>7, <2>12, <2>13, <2>14 DEF Accounts, Spares, Taking
  <2> QED
    BY <2>3, <2>6, <2>15, BecomesPlain
<1> QED
  BY <1>9, <1>10


-----------------------------------------------------------------------------
(* The end of an exchange. *)

LEMMA RunEmitFreeSound ==
  ASSUME IInv, IInv', Sound, NEW r \in Requests, NEW s \in Sockets, RunEmitFree(r, s)
  PROVE  Sound'
<1>1. PICK h : h = Head(ticks)
  OBVIOUS
<1>2. h.fn = "emitFree" /\ h.req = r /\ h.sock = s /\ ticks # <<>>
  BY <1>1, TickFields DEF RunEmitFree, Runs
<1>3. PICK w : w = Popped
  OBVIOUS
<1>4. /\ w \in WorldType /\ WorldOK(w, origin) /\ w.conn = conn
      /\ TickOK(World, req, shouldKeepAlive, origin, h)
      /\ \A t \in ToSet(w.ticks) : ~Clash(h, t)
      /\ Safe(w, req, shouldKeepAlive, origin)
      /\ \A z \in Sockets : ~Taking(h, z) => Heard(w, z)
      /\ \A q \in Requests : h.req # q => Kept(w, req, origin, q)
  BY <1>1, <1>2, <1>3, PoppedSafe
<1>5. /\ req[r].socket = s /\ Done(req[r], shouldKeepAlive[r])
      /\ w.conn[s].message = r /\ Bare(w.conn[s])
  BY <1>2, <1>4, Typed DEF TickOK, EmitFreeOK
<1>6. /\ req \in ReqMap /\ req' \in ReqMap /\ shouldKeepAlive \in KeepMap
      /\ None \notin Requests /\ None \notin Sockets /\ origin \in OriginMap
  BY Typed DEF IInv, ReqMap
<1>7. /\ \A q \in Requests : q # r => req'[q] = req[q]
      /\ req'[r].socket = s /\ req'[r].errors = req[r].errors /\ req'[r].closed = TRUE
      /\ req'[r].res = req[r].res /\ req'[r].finished = req[r].finished
  <2>1. req' = [req EXCEPT ![r] = Closes(req[r])]
    BY DEF RunEmitFree
  <2>2. req[r] \in ReqType
    BY <1>6 DEF ReqMap
  <2>3. /\ \A q \in Requests : q # r => req'[q] = req[q]
        /\ req'[r] = Closes(req[r])
    BY <2>1, <1>6 DEF ReqMap
  <2> QED
    BY <2>2, <2>3, <1>5, ClosesFields
<1>8. Near(w, w, req, req', shouldKeepAlive, shouldKeepAlive, s, r)
  BY <1>5, <1>7 DEF Near, Done, Bare
<1>9. ASSUME NEW t \in ToSet(w.ticks)
      PROVE  Apart(t, s, r) \/ TickOK(w, req', shouldKeepAlive, origin, t)
  <2>1. TickOK(w, req, shouldKeepAlive, origin, t) /\ ~Clash(h, t)
    BY <1>4 DEF Safe
  <2>2. t.fn = "onSocket" => Apart(t, s, r)
    BY <2>1, <1>2, <1>5, <1>6 DEF Clash, Apart, TickOK, OnSocketOK, Untouched
  <2>3. t.fn = "emitFree" => Apart(t, s, r)
    BY <2>1, <1>2, <1>5, <1>6 DEF Clash, Apart, TickOK, EmitFreeOK
  <2>4. ASSUME t.fn = "hangUp"
        PROVE  HangUpOK(req', origin, t.req)
    <3>1. t.req # r
      BY <2>1, <2>4, <1>5, <1>6 DEF TickOK, HangUpOK, Untouched
    <3> QED
      BY <3>1, <2>1, <2>4, <1>7 DEF TickOK, HangUpOK
  <2>5. t.fn = "end" => t.req \in Requests /\ req'[t.req].res = "read"
    BY <2>1, <1>7 DEF TickOK
  <2>6. /\ t.fn = "error" => ErrorOK(w, t.sock)
        /\ t.fn = "close" => CloseOK(w, t.sock)
    BY <2>1 DEF TickOK
  <2> QED
    BY <2>2, <2>3, <2>4, <2>5, <2>6 DEF TickOK
<1>10. \A n \in Origins : ListedOK(w, n, s)
  BY <1>4 DEF Safe
<1>11. SocketOK(w, req', s)
  BY <1>4, <1>5 DEF Safe, SocketOK, Bare
<1>12. ReqOK(w, req', origin, r) /\ ~Queued(w, r)
  <2>1. ReqOK(w, req, origin, r) /\ QueueOK(w, req, r)
    BY <1>4 DEF Safe
  <2> QED
    BY <2>1, <1>5, <1>6, <1>7 DEF ReqOK, QueueOK, Untouched, Done
<1>13. Safe(w, req', shouldKeepAlive, origin)
  <2>1. Ordered(w.ticks)
    BY <1>4 DEF Safe
  <2> QED
    BY <2>1, <1>4, <1>6, <1>8, <1>9, <1>10, <1>11, <1>12, NearSafe
<1>14. Spares(w, w, req, req', origin, s, r)
  BY <1>4, <1>6, <1>8, NearSpares
<1>15. \A q \in Requests : Kept(w, req', origin, q)
  <2>1. Kept(w, req', origin, r)
    BY <1>7 DEF Kept
  <2> QED
    BY <2>1, <1>2, <1>4, <1>14 DEF Spares
<1>16. Reusable(w.conn[s], req', shouldKeepAlive)
  BY <1>5, <1>7 DEF Reusable, Done
<1>17. \A t \in ToSet(w.ticks) : ~Taking(t, s)
  BY <1>2, <1>4 DEF Clash, Taking
<1>18. PICK v : v = FreeSocket(w, s)
  OBVIOUS
<1>19. /\ v \in WorldType /\ Safe(v, req', shouldKeepAlive, origin)
       /\ Keeps(w, v, req', origin) /\ Heard(v, s)
  BY <1>4, <1>6, <1>13, <1>16, <1>17, <1>18, FreeSafe
<1>20. Accounts(v, req', shouldKeepAlive, origin)
  BY <1>2, <1>4, <1>15, <1>19 DEF Accounts, Keeps, Taking
<1>21. Become(v) /\ UNCHANGED <<origin, shouldKeepAlive>>
  BY <1>3, <1>18 DEF RunEmitFree
<1> QED
  BY <1>19, <1>20, <1>21, BecomesPlain

\* The end of a response finds its request attached.
LEMMA EndOn ==
  ASSUME IInv, Sound, NEW r \in Requests, Runs("end", r, None),
         NEW s, s = req[r].socket, NEW w, w = Popped
  PROVE  /\ s \in Sockets /\ w \in WorldType /\ w.conn = conn
         /\ On(w, req, s, r) /\ Nearly(w, req, shouldKeepAlive, origin, s, r)
         /\ req[r].res = "read" /\ req[r].errors <= 1
         /\ \A t \in ToSet(w.ticks) : t.fn = "end" => t.req # r
<1>1. PICK h : h = Head(ticks)
  OBVIOUS
<1>2. h.fn = "end" /\ h.req = r /\ ticks # <<>>
  <2>1. None \in Sockets \cup {None} /\ r \in Requests \cup {None}
    OBVIOUS
  <2> QED
    BY <1>1, <2>1, TickFields DEF Runs
<1>3. /\ w \in WorldType /\ w.conn = conn
      /\ TickOK(World, req, shouldKeepAlive, origin, h)
      /\ \A t \in ToSet(w.ticks) : ~Clash(h, t)
      /\ Safe(w, req, shouldKeepAlive, origin)
      /\ \A z \in Sockets : ~Taking(h, z) => Heard(w, z)
      /\ \A q \in Requests : h.req # q => Kept(w, req, origin, q)
  BY <1>1, <1>2, PoppedSafe
<1>4. req[r].res = "read"
  BY <1>2, <1>3 DEF TickOK
<1>5. s \in Sockets /\ On(World, req, s, r)
  BY <1>4, AttachedOn
<1>6. Nearly(w, req, shouldKeepAlive, origin, s, r)
  BY <1>2, <1>3 DEF Nearly, Taking
<1>7. On(w, req, s, r)
  BY <1>3, <1>5, Typed DEF On
<1>8. \A t \in ToSet(w.ticks) : t.fn = "end" => t.req # r
  BY <1>2, <1>3 DEF Clash
<1>9. req[r].errors <= 1
  BY <1>3 DEF Safe, ReqOK
<1> QED
  BY <1>3, <1>4, <1>5, <1>6, <1>7, <1>8, <1>9

\* The socket and the listeners of the request stay: destroySoon, end or nothing.
LEMMA EndStays ==
  ASSUME IInv, IInv', Sound, NEW r \in Requests, Runs("end", r, None),
         NEW s, s = req[r].socket, NEW w, w = Popped,
         NEW v, v = w \/ (w.conn[s].state = "open" /\ v = SetState(w, s, "ended")),
         \A q \in Requests : q # r => req'[q] = req[q],
         req'[r].socket = req[r].socket, req'[r].closed = req[r].closed,
         req'[r].errors = req[r].errors, Become(v), UNCHANGED <<origin, shouldKeepAlive>>
  PROVE  Sound'
<1>1. /\ s \in Sockets /\ w \in WorldType /\ w.conn = conn
      /\ On(w, req, s, r) /\ Nearly(w, req, shouldKeepAlive, origin, s, r)
      /\ req[r].res = "read" /\ req[r].errors <= 1
      /\ \A t \in ToSet(w.ticks) : t.fn = "end" => t.req # r
  BY EndOn
<1>2. /\ req \in ReqMap /\ req' \in ReqMap /\ shouldKeepAlive \in KeepMap
  BY Typed DEF IInv, ReqMap
<1>3. /\ Marks(w, v, s) /\ v.conn[s].hadError = w.conn[s].hadError
      /\ v.conn[s].listeners = w.conn[s].listeners
      /\ \/ v.conn[s].state = w.conn[s].state
         \/ w.conn[s].state = "open" /\ v.conn[s].state = "ended"
  <2>1. CASE v = w
    BY <2>1, <1>1 DEF Marks
  <2>2. CASE w.conn[s].state = "open" /\ v = SetState(w, s, "ended")
    <3>1. "ended" \in {"ended", "closed"}
      OBVIOUS
    <3> QED
      BY <2>2, <3>1, <1>1, StateMarks
  <2> QED
    BY <2>1, <2>2
<1>4. Marked(w, v, req, req', shouldKeepAlive, shouldKeepAlive, s, r)
  BY <1>1, <1>3 DEF Marked, Done
<1>5. v \in WorldType
  BY <1>3 DEF Marks
<1>6. Accounts(v, req', shouldKeepAlive, origin)
  BY <1>1, <1>2, <1>4, <1>5, MarkStep
<1> QED
  BY <1>5, <1>6, BecomesPlain


\* Request r lets go of socket s, and tick t will free it.
LetsGo(w, v, s, r, t) ==
    /\ t \in TickType /\ t.fn = "emitFree" /\ t.req = r /\ t.sock = s
    /\ v \in WorldType /\ v.pool = w.pool /\ v.ticks = Append(w.ticks, t)
    /\ \A z \in Sockets : z # s => v.conn[z] = w.conn[z]
    /\ v.conn[s].target = w.conn[s].target /\ v.conn[s].message = w.conn[s].message
    /\ v.conn[s].state = w.conn[s].state /\ v.conn[s].hadError = w.conn[s].hadError
    /\ v.conn[s].listeners = w.conn[s].listeners \ {"request", "reader"}

LEMMA LetsGoEffect ==
  ASSUME NEW w \in WorldType, NEW s \in Sockets, NEW r \in Requests,
         NEW u, u = Unlisten(w, s, {"request", "reader"}),
         NEW t, t = Tick("emitFree", r, s),
         NEW v, v = WithTicks(u, Append(u.ticks, t))
  PROVE  LetsGo(w, v, s, r, t)
<1>1. /\ Marks(w, u, s)
      /\ u.conn[s].state = w.conn[s].state /\ u.conn[s].hadError = w.conn[s].hadError
      /\ u.conn[s].listeners = w.conn[s].listeners \ {"request", "reader"}
  BY UnlistenMarks
<1>2. t \in TickType /\ t.fn = "emitFree" /\ t.req = r /\ t.sock = s
  BY TickFields
<1>3. u.ticks \in Seq(TickType)
  BY <1>1 DEF Marks, WorldType
<1>4. Append(u.ticks, t) \in Seq(TickType)
  BY <1>2, <1>3, AppendedTick
<1>5. v \in WorldType /\ v.pool = u.pool /\ v.conn = u.conn /\ v.ticks = Append(u.ticks, t)
  BY <1>1, <1>4, WithTicksType DEF Marks
<1> QED
  BY <1>1, <1>2, <1>5 DEF LetsGo, Marks

\* responseKeepAlive: the request lets go of the socket, and a tick will free it.
LEMMA EndFrees ==
  ASSUME IInv, IInv', Sound, NEW r \in Requests, Runs("end", r, None),
         NEW s, s = req[r].socket, NEW w, w = Popped,
         NEW v, NEW t, LetsGo(w, v, s, r, t),
         \A q \in Requests : q # r => req'[q] = req[q],
         req'[r].socket = req[r].socket, req'[r].closed = req[r].closed,
         req'[r].errors = req[r].errors, Done(req'[r], shouldKeepAlive[r]),
         Become(v), UNCHANGED <<origin, shouldKeepAlive>>
  PROVE  Sound'
<1>1. /\ s \in Sockets /\ w \in WorldType /\ w.conn = conn
      /\ On(w, req, s, r) /\ Nearly(w, req, shouldKeepAlive, origin, s, r)
      /\ req[r].res = "read" /\ req[r].errors <= 1
      /\ \A a \in ToSet(w.ticks) : a.fn = "end" => a.req # r
  BY EndOn
<1>2. /\ req \in ReqMap /\ req' \in ReqMap /\ shouldKeepAlive \in KeepMap
  BY Typed DEF IInv, ReqMap
<1>3. Safe(w, req, shouldKeepAlive, origin)
  BY <1>1 DEF Nearly
<1>4. /\ \A a \in ToSet(w.ticks) :
            /\ a.fn \in {"onSocket", "emitFree"} => a.sock # s /\ a.req # r
            /\ a.fn = "hangUp" => a.req # r
      /\ ~Queued(w, r) /\ origin[r] # None
      /\ \A n \in Origins : s \notin w.pool.freeSockets[n]
      /\ "idle" \notin w.conn[s].listeners /\ w.conn[s].state # "unused"
  BY <1>1, <1>2, <1>3, OnTicks
<1>5. t \in TickType /\ t.fn = "emitFree" /\ t.req = r /\ t.sock = s
  BY DEF LetsGo
<1>6. /\ v \in WorldType /\ v.pool = w.pool /\ v.ticks = Append(w.ticks, t)
      /\ \A z \in Sockets : z # s => v.conn[z] = w.conn[z]
      /\ v.conn[s].target = w.conn[s].target /\ v.conn[s].message = r
      /\ v.conn[s].state = w.conn[s].state /\ v.conn[s].hadError = w.conn[s].hadError
      /\ v.conn[s].listeners = w.conn[s].listeners \ {"request", "reader"}
  BY <1>1 DEF LetsGo, On
<1>7. ToSet(v.ticks) = ToSet(w.ticks) \cup {t} /\ Ordered(v.ticks)
  <2>1. \A a \in ToSet(w.ticks) : ~Clash(a, t)
    BY <1>4, <1>5 DEF Clash
  <2>2. w.ticks \in Seq(TickType)
    BY <1>1 DEF WorldType
  <2> QED
    BY <2>1, <2>2, <1>3, <1>5, <1>6, AppendedTick DEF Safe
<1>8. Near(w, v, req, req', shouldKeepAlive, shouldKeepAlive, s, r)
  BY <1>1, <1>6 DEF Near, Done, On
<1>9. TickOK(v, req', shouldKeepAlive, origin, t)
  BY <1>1, <1>4, <1>5, <1>6 DEF TickOK, EmitFreeOK, Bare
<1>10. \A a \in ToSet(w.ticks) : Stays(v, req', a, s, r)
  <2>1. ASSUME NEW a \in ToSet(w.ticks)
        PROVE  TickOK(w, req, shouldKeepAlive, origin, a)
    BY <1>3 DEF Safe
  <2> QED
    BY <2>1, <1>1, <1>6 DEF Stays, TickOK, ErrorOK, CloseOK
<1>11. \A n \in Origins : ListedOK(v, n, s)
  <2>1. \A n \in Origins : ListedOK(w, n, s)
    BY <1>1, <1>3 DEF Safe
  <2> QED
    BY <2>1, <1>6 DEF ListedOK, Unclosed
<1>12. SocketOK(v, req', s) /\ Heard(v, s)
  <2>1. SocketOK(w, req, s)
    BY <1>1, <1>3 DEF Safe
  <2> QED
    BY <2>1, <1>4, <1>5, <1>6, <1>7 DEF SocketOK, Heard, Taking
<1>13. ReqOK(v, req', origin, r) /\ Kept(v, req', origin, r)
  BY <1>1, <1>4, <1>5, <1>7 DEF ReqOK, Kept, Done
<1>14. /\ \A a \in ToSet(w.ticks) : a \in ToSet(v.ticks)
       /\ \A a \in ToSet(v.ticks) :
             \/ a \in ToSet(w.ticks) /\ Stays(v, req', a, s, r)
             \/ TickOK(v, req', shouldKeepAlive, origin, a) /\ a.fn \notin {"onSocket", "hangUp"}
  BY <1>5, <1>7, <1>9, <1>10
<1>15. Accounts(v, req', shouldKeepAlive, origin)
  BY <1>1, <1>2, <1>6, <1>7, <1>8, <1>11, <1>12, <1>13, <1>14, PairStep
<1> QED
  BY <1>6, <1>15, BecomesPlain

LEMMA RunEndSound ==
  ASSUME IInv, IInv', Sound, NEW r \in Requests, RunEnd(r)
  PROVE  Sound'
<1>1. PICK s : s = req[r].socket
  OBVIOUS
<1>2. PICK w : w = Popped
  OBVIOUS
<1>3. Runs("end", r, None) /\ UNCHANGED <<origin, shouldKeepAlive>>
  BY DEF RunEnd
<1>4. w.conn = conn
  BY <1>1, <1>2, <1>3, EndOn
<1>5. /\ \A q \in Requests : q # r => req'[q] = req[q]
      /\ req'[r].socket = req[r].socket /\ req'[r].closed = req[r].closed
      /\ req'[r].errors = req[r].errors /\ req'[r].res = "ended"
      /\ req'[r].finished = req[r].finished
  BY Typed DEF RunEnd, ReqMap, ReqType
<1>6. CASE shouldKeepAlive[r] /\ req[r].finished
  <2>1. PICK u : u = Unlisten(w, s, {"request", "reader"})
    OBVIOUS
  <2>2. PICK t : t = Tick("emitFree", r, s)
    OBVIOUS
  <2>3. PICK v : v = WithTicks(u, Append(u.ticks, t))
    OBVIOUS
  <2>4. Become(v)
    BY <1>1, <1>2, <1>6, <2>1, <2>2, <2>3 DEF RunEnd, WithTicks
  <2>5. Done(req'[r], shouldKeepAlive[r])
    BY <1>5, <1>6 DEF Done
  <2> QED
    <3>1. s \in Sockets /\ w \in WorldType
      BY <1>1, <1>2, <1>3, EndOn
    <3>2. LetsGo(w, v, s, r, t)
      BY <2>1, <2>2, <2>3, <3>1, LetsGoEffect
    <3> QED
      BY <1>1, <1>2, <1>3, <1>5, <2>4, <2>5, <3>2, EndFrees
<1>7. CASE ~(shouldKeepAlive[r] /\ req[r].finished)
  <2>1. PICK v : /\ Become(v)
                 /\ v = w \/ (w.conn[s].state = "open" /\ v = SetState(w, s, "ended"))
    <3>1. Become(w) \/ (w.conn[s].state = "open" /\ Become(SetState(w, s, "ended")))
      BY <1>1, <1>2, <1>4, <1>7, Typed DEF RunEnd, Writable, SetState
    <3> QED
      BY <3>1
  <2> QED
    BY <1>1, <1>2, <1>3, <1>5, <2>1, EndStays
<1> QED
  BY <1>6, <1>7


-----------------------------------------------------------------------------
(* A socket leaves the agent. *)

\* Socket s becomes c, and the agent, if it listens to it, forgets it.
Forgotten(w, s, c) == IF "agent" \in w.conn[s].listeners
                      THEN WithConn(RemoveSocket(w, s), s, c)
                      ELSE WithConn(w, s, c)

\* The requests but r stay as they are; r has no socket but s, and is the
\* request that listens to it, if there is one.
OfSocket(w, rq, rq2, ka, s, r) ==
    /\ r \in Requests \cup {None}
    /\ \A q \in Requests : q # r => rq2[q] = rq[q]
    /\ \A q \in Requests : q = r => /\ rq[q].socket \in {s, None}
                                    /\ Done(rq[q], ka[q]) => Done(rq2[q], ka[q])
    /\ "request" \in w.conn[s].listeners => w.conn[s].message = r

\* y is w without s in the lists of the agent, before any refill.
Forgets(w, y, rq, rq2, ka, s, r, c) ==
    /\ y \in WorldType /\ y.ticks = w.ticks /\ y.conn[s] = c
    /\ Near(w, y, rq, rq2, ka, ka, s, r)
    /\ \A n \in Origins : ListedOK(y, n, s)

LEMMA DropsForgets ==
  ASSUME NEW x \in WorldType, NEW w, NEW s \in Sockets, Marks(x, w, s),
         NEW y, NEW c, Drops(w, y, s, c),
         NEW rq \in ReqMap, NEW rq2 \in ReqMap, NEW ka \in KeepMap, NEW og, NEW r,
         Safe(x, rq, ka, og), OfSocket(x, rq, rq2, ka, s, r),
         w.conn[s].state # "open" \/ \A n \in Origins : s \notin x.pool.freeSockets[n]
  PROVE  Forgets(x, y, rq, rq2, ka, s, r, c)
<1>1. PICK m : m = GetName(w.conn[s].target)
  OBVIOUS
<1>2. /\ y \in WorldType /\ y.ticks = x.ticks /\ y.conn[s] = c
      /\ \A z \in Sockets : z # s => y.conn[z] = x.conn[z]
      /\ y.pool.requests = x.pool.requests
      /\ w.conn[s].target = x.conn[s].target /\ w.pool = x.pool
  BY DEF Drops, Marks
<1>3. /\ y.pool.sockets[m] = x.pool.sockets[m] \ {s}
      /\ y.pool.freeSockets[m] = IF w.conn[s].state # "open" THEN x.pool.freeSockets[m] \ {s}
                                 ELSE x.pool.freeSockets[m]
      /\ \A n \in Origins : n # m => /\ y.pool.sockets[n] = x.pool.sockets[n]
                                     /\ y.pool.freeSockets[n] = x.pool.freeSockets[n]
  BY <1>1, <1>2 DEF Drops
<1>4. \A n \in Origins : n # m => s \notin x.pool.sockets[n] /\ s \notin x.pool.freeSockets[n]
  BY <1>1, <1>2 DEF Safe, ListedOK
<1>5. \A n \in Origins : s \notin y.pool.sockets[n] /\ s \notin y.pool.freeSockets[n]
  BY <1>3, <1>4
<1>6. \A n \in Origins, z \in Sockets : z # s =>
         /\ z \in y.pool.sockets[n] => z \in x.pool.sockets[n]
         /\ z \in y.pool.freeSockets[n] => z \in x.pool.freeSockets[n]
  BY <1>3
<1>7. Near(x, y, rq, rq2, ka, ka, s, r)
  BY <1>2, <1>6 DEF Near, OfSocket
<1>8. \A n \in Origins : ListedOK(y, n, s)
  BY <1>5 DEF ListedOK
<1> QED
  BY <1>2, <1>7, <1>8 DEF Forgets

LEMMA ForgottenEffect ==
  ASSUME NEW x \in WorldType, NEW w, WorldOK(w, origin), NEW s \in Sockets, Marks(x, w, s),
         NEW c \in ConnType, c.state # "unused", w.conn[s].target \in Origins,
         w.conn[s].listeners \subseteq x.conn[s].listeners,
         "agent" \in x.conn[s].listeners => "agent" \in w.conn[s].listeners,
         NEW rq \in ReqMap, NEW rq2 \in ReqMap, NEW ka \in KeepMap, NEW og, NEW r,
         Safe(x, rq, ka, og), OfSocket(x, rq, rq2, ka, s, r),
         w.conn[s].state # "open" \/ \A n \in Origins : s \notin x.pool.freeSockets[n]
  PROVE  \E y : /\ Forgets(x, y, rq, rq2, ka, s, r, c)
                /\ Refills(y, Forgotten(w, s, c))
<1>1. CASE "agent" \in w.conn[s].listeners
  <2>1. PICK y \in WorldType : /\ Drops(w, y, s, c)
                               /\ Refills(y, WithConn(RemoveSocket(w, s), s, c))
    BY RemoveEffect
  <2>2. Forgets(x, y, rq, rq2, ka, s, r, c)
    BY <2>1, DropsForgets
  <2> QED
    BY <1>1, <2>1, <2>2 DEF Forgotten
<1>2. CASE "agent" \notin w.conn[s].listeners
  <2>1. PICK y : y = WithConn(w, s, c)
    OBVIOUS
  <2>2. w \in WorldType
    BY DEF Marks
  <2>3. /\ y \in WorldType /\ y.pool = x.pool /\ y.ticks = x.ticks /\ y.conn[s] = c
        /\ \A z \in Sockets : z # s => y.conn[z] = x.conn[z]
    BY <2>1, <2>2, WithConnType DEF Marks
  <2>4. \A n \in Origins : s \notin x.pool.sockets[n] /\ s \notin x.pool.freeSockets[n]
    BY <1>2 DEF Safe, ListedOK
  <2>5. Near(x, y, rq, rq2, ka, ka, s, r)
    BY <2>3 DEF Near, OfSocket
  <2>6. \A n \in Origins : ListedOK(y, n, s)
    BY <2>3, <2>4 DEF ListedOK
  <2>7. Refills(y, y)
    BY DEF Refills
  <2> QED
    BY <1>2, <2>1, <2>3, <2>5, <2>6, <2>7 DEF Forgets, Forgotten
<1> QED
  BY <1>1, <1>2

\* Where the socket, its request and their ticks are in order, so is the world
\* after the refill.
LEMMA ForgetsStep ==
  ASSUME NEW x \in WorldType, NEW y, NEW s \in Sockets, NEW c,
         NEW rq \in ReqMap, NEW rq2 \in ReqMap, NEW ka \in KeepMap, NEW og \in OriginMap,
         NEW r \in Requests \cup {None},
         Nearly(x, rq, ka, og, s, r), Forgets(x, y, rq, rq2, ka, s, r, c),
         \A t \in ToSet(x.ticks) : Apart(t, s, r) \/ TickOK(y, rq2, ka, og, t),
         SocketOK(y, rq2, s), Heard(y, s),
         r \in Requests => /\ ReqOK(y, rq2, og, r) /\ ~Queued(x, r)
                           /\ Kept(y, rq2, og, r),
         NEW v, Refills(y, v)
  PROVE  v \in WorldType /\ Accounts(v, rq2, ka, og)
<1>1. /\ y \in WorldType /\ y.ticks = x.ticks /\ Near(x, y, rq, rq2, ka, ka, s, r)
      /\ \A n \in Origins : ListedOK(y, n, s)
      /\ Safe(x, rq, ka, og)
  BY DEF Forgets, Nearly
<1>2. Ordered(y.ticks) /\ \A n \in Origins : y.pool.requests[n] = x.pool.requests[n]
  BY <1>1 DEF Safe, Near
<1>3. r \in Requests => ~Queued(y, r)
  BY <1>2, NearQueued
<1>4. Safe(y, rq2, ka, og)
  BY <1>1, <1>2, <1>3, NearSafe
<1>5. Spares(x, y, rq, rq2, og, s, r)
  BY <1>1, NearSpares
<1>6. v \in WorldType /\ Safe(v, rq2, ka, og) /\ Keeps(y, v, rq2, og)
  BY <1>1, <1>4, RefillsSafe
<1>7. /\ \A z \in Sockets : Heard(y, z)
      /\ \A q \in Requests : Kept(y, rq2, og, q)
  BY <1>5 DEF Spares, Nearly
<1> QED
  BY <1>6, <1>7 DEF Accounts, Keeps


\* c without listeners of the agent.
Unheeded(c) == [c EXCEPT !.listeners = @ \ {"agent"}]

LEMMA AgentRemoveIs ==
  ASSUME NEW w, WorldOK(w, origin), NEW s \in Sockets, w.conn[s].target \in Origins
  PROVE  AgentRemove(w, s) = Forgotten(w, s, Unheeded(w.conn[s]))
<1>1. w \in WorldType /\ w.conn[s] \in ConnType /\ w.conn[s].state # "unused"
  BY InUse DEF WorldOK
<1>2. CASE "agent" \notin w.conn[s].listeners
  <2>1. w.conn[s].listeners \ {"agent"} = w.conn[s].listeners
    BY <1>2
  <2>2. Unheeded(w.conn[s]) = w.conn[s]
    BY <1>1, <2>1 DEF Unheeded, ConnType
  <2>3. WithConn(w, s, w.conn[s]) = w
    BY <1>1 DEF WithConn, WorldType
  <2> QED
    BY <1>2, <2>2, <2>3 DEF AgentRemove, Forgotten
<1>3. CASE "agent" \in w.conn[s].listeners
  <2>1. PICK v : v = RemoveSocket(w, s)
    OBVIOUS
  <2>2. v \in WorldType /\ v.conn[s] = w.conn[s]
    BY <1>1, <2>1, RemoveEffect
  <2>3. AgentRemove(w, s) = [v EXCEPT !.conn[s].listeners = @ \ {"agent"}]
    BY <1>3, <2>1 DEF AgentRemove
  <2>4. [v EXCEPT !.conn[s].listeners = @ \ {"agent"}] = WithConn(v, s, Unheeded(v.conn[s]))
    BY <2>2 DEF WithConn, Unheeded, WorldType
  <2> QED
    BY <1>3, <2>1, <2>2, <2>3, <2>4 DEF Forgotten
<1> QED
  BY <1>2, <1>3

\* The error of an idle socket: the agent forgets the socket.
LEMMA IdleErrorSafe ==
  ASSUME NEW w, WorldOK(w, origin), NEW s \in Sockets, w.conn[s].target \in Origins,
         NEW rq \in ReqMap, NEW ka \in KeepMap, origin \in OriginMap,
         Accounts(w, rq, ka, origin), "idle" \in w.conn[s].listeners,
         w.conn[s].state = "destroyed",
         NEW u, u = Unlisten(w, s, {"idle"}), NEW v, v = AgentRemove(u, s)
  PROVE  v \in WorldType /\ Accounts(v, rq, ka, origin)
<1>1. w \in WorldType /\ Safe(w, rq, ka, origin) /\ None \notin Requests
  BY AgentAssumption DEF WorldOK, Accounts
<1>2. /\ Marks(w, u, s)
      /\ u.conn[s].state = w.conn[s].state /\ u.conn[s].hadError = w.conn[s].hadError
      /\ u.conn[s].listeners = w.conn[s].listeners \ {"idle"}
  BY <1>1, UnlistenMarks
<1>3. WorldOK(u, origin)
  BY UnlistenOK
<1>4. PICK c : c = Unheeded(u.conn[s])
  OBVIOUS
<1>5. u.conn[s] \in ConnType /\ u.conn[s].target \in Origins
  BY <1>2 DEF Marks, WorldType
<1>6. /\ c \in ConnType /\ c.state = w.conn[s].state /\ c.message = w.conn[s].message
      /\ c.hadError = w.conn[s].hadError
      /\ c.listeners = w.conn[s].listeners \ {"idle", "agent"}
  <2>1. /\ c \in ConnType /\ c.state = u.conn[s].state /\ c.message = u.conn[s].message
        /\ c.hadError = u.conn[s].hadError /\ c.listeners = u.conn[s].listeners \ {"agent"}
    BY <1>4, <1>5 DEF Unheeded, ConnType
  <2> QED
    BY <2>1, <1>2 DEF Marks
<1>7. v = Forgotten(u, s, c)
  BY <1>3, <1>4, <1>5, AgentRemoveIs
<1>8. /\ "request" \notin w.conn[s].listeners /\ "reader" \notin w.conn[s].listeners
  BY <1>1 DEF Safe, SocketOK
<1>9. OfSocket(w, rq, rq, ka, s, None)
  BY <1>1, <1>8 DEF OfSocket
<1>10. PICK y : Forgets(w, y, rq, rq, ka, s, None, c) /\ Refills(y, v)
  <2>1. c.state # "unused" /\ u.conn[s].state # "open"
    BY <1>2, <1>6
  <2>2. /\ u.conn[s].listeners \subseteq w.conn[s].listeners
        /\ "agent" \in w.conn[s].listeners => "agent" \in u.conn[s].listeners
    BY <1>2
  <2> QED
    BY <1>1, <1>2, <1>3, <1>5, <1>6, <1>7, <1>9, <2>1, <2>2, ForgottenEffect
<1>11. /\ y.conn[s] = c /\ \A z \in Sockets : z # s => y.conn[z] = w.conn[z]
  BY <1>10 DEF Forgets, Near
<1>12. ASSUME NEW t \in ToSet(w.ticks)
       PROVE  TickOK(y, rq, ka, origin, t)
  <2>1. TickOK(w, rq, ka, origin, t)
    BY <1>1 DEF Safe
  <2>2. t.fn = "onSocket" => OnSocketOK(y, rq, ka, origin, t.req, t.sock)
    BY <2>1, <1>6, <1>11 DEF TickOK, OnSocketOK, Unclosed, Reusable, Bare
  <2>3. t.fn = "emitFree" => EmitFreeOK(y, rq, ka, t.req, t.sock)
    BY <2>1, <1>6, <1>11 DEF TickOK, EmitFreeOK, Bare
  <2>4. t.fn = "error" => ErrorOK(y, t.sock)
    BY <2>1, <1>6, <1>11 DEF TickOK, ErrorOK
  <2>5. t.fn = "close" => CloseOK(y, t.sock)
    BY <2>1, <1>6, <1>11 DEF TickOK, CloseOK
  <2> QED
    BY <2>1, <2>2, <2>3, <2>4, <2>5 DEF TickOK
<1>13. SocketOK(y, rq, s) /\ Heard(y, s)
  BY <1>6, <1>8, <1>11 DEF SocketOK, Heard
<1>14. Nearly(w, rq, ka, origin, s, None)
  BY DEF Accounts, Nearly
<1>15. None \in Requests \cup {None}
  OBVIOUS
<1> QED
  BY <1>1, <1>10, <1>12, <1>13, <1>14, <1>15, ForgetsStep

LEMMA RunErrorSound ==
  ASSUME IInv, IInv', Sound, NEW s \in Sockets, RunError(s)
  PROVE  Sound'
<1>1. PICK h : h = Head(ticks)
  OBVIOUS
<1>2. h.fn = "error" /\ h.req = None /\ h.sock = s /\ ticks # <<>>
  <2>1. None \in Requests \cup {None} /\ s \in Sockets \cup {None}
    OBVIOUS
  <2> QED
    BY <1>1, <2>1, TickFields DEF RunError, Runs
<1>3. PICK w : w = Popped
  OBVIOUS
<1>4. /\ w \in WorldType /\ WorldOK(w, origin) /\ w.conn = conn
      /\ TickOK(World, req, shouldKeepAlive, origin, h)
      /\ \A t \in ToSet(w.ticks) : ~Clash(h, t)
      /\ Safe(w, req, shouldKeepAlive, origin)
      /\ \A z \in Sockets : ~Taking(h, z) => Heard(w, z)
      /\ \A q \in Requests : h.req # q => Kept(w, req, origin, q)
  BY <1>1, <1>2, <1>3, PoppedSafe
<1>5. /\ req \in ReqMap /\ req' \in ReqMap /\ shouldKeepAlive \in KeepMap
      /\ None \notin Requests /\ None \notin Sockets /\ origin \in OriginMap
  BY Typed DEF IInv, ReqMap
<1>6. Accounts(w, req, shouldKeepAlive, origin)
  BY <1>2, <1>4, <1>5 DEF Accounts, Taking
<1>7. conn[s].state = "destroyed" /\ ~conn[s].hadError
  BY <1>2, <1>4, Typed DEF TickOK, ErrorOK
<1>8. UNCHANGED <<origin, shouldKeepAlive>>
  BY DEF RunError
<1>9. CASE /\ Has(s, "request")
           /\ Become([Unlisten(Popped, s, {"reader"}) EXCEPT !.conn[s].hadError = TRUE])
           /\ req' = [req EXCEPT ![conn[s].message] = Errs(@, 1)]
  <2>1. PICK r : r = conn[s].message
    OBVIOUS
  <2>2. PICK u : u = Unlisten(w, s, {"reader"})
    OBVIOUS
  <2>3. PICK v : v = SetError(u, s, TRUE)
    OBVIOUS
  <2>4. /\ r \in Requests /\ On(w, req, s, r)
    BY <1>4, <1>9, <2>1 DEF Has, Safe, SocketOK, On
  <2>5. Nearly(w, req, shouldKeepAlive, origin, s, r)
    BY <1>6 DEF Accounts, Nearly
  <2>6. req[r].errors = 0 /\ req[r] \in ReqType
    <3>1. ~(req[r].errors > 0)
      BY <1>4, <1>7, <2>4 DEF Safe, SocketOK, On
    <3> QED
      BY <3>1, <1>5, <2>4 DEF ReqMap, ReqType
  <2>7. /\ \A q \in Requests : q # r => req'[q] = req[q]
        /\ req'[r].errors = 1 /\ req'[r].socket = req[r].socket
        /\ req'[r].closed = req[r].closed /\ req'[r].res = req[r].res
        /\ req'[r].finished = req[r].finished
    <3>1. /\ \A q \in Requests : q # r => req'[q] = req[q]
          /\ req'[r] = Errs(req[r], 1)
      BY <1>5, <1>9, <2>1, <2>4 DEF ReqMap
    <3>2. 1 \in {0, 1}
      OBVIOUS
    <3> QED
      BY <3>1, <3>2, <2>6, ErrsFields
  <2>8. /\ Marks(w, v, s) /\ v.conn[s].state = w.conn[s].state /\ v.conn[s].hadError = TRUE
        /\ v.conn[s].listeners = w.conn[s].listeners \ {"reader"}
    <3>1. /\ Marks(w, u, s)
          /\ u.conn[s].state = w.conn[s].state /\ u.conn[s].hadError = w.conn[s].hadError
          /\ u.conn[s].listeners = w.conn[s].listeners \ {"reader"}
      BY <1>4, <2>2, UnlistenMarks
    <3>2. /\ Marks(u, v, s) /\ v.conn[s].state = u.conn[s].state /\ v.conn[s].hadError = TRUE
          /\ v.conn[s].listeners = u.conn[s].listeners
      <4>1. u \in WorldType
        BY <3>1 DEF Marks
      <4>2. ASSUME NEW b \in BOOLEAN, v = SetError(u, s, b)
            PROVE  /\ Marks(u, v, s) /\ v.conn[s].state = u.conn[s].state
                   /\ v.conn[s].hadError = b /\ v.conn[s].listeners = u.conn[s].listeners
        BY <4>1, <4>2, ErrorMarks
      <4> QED
        BY <2>3, <4>2
    <3> QED
      BY <3>1, <3>2 DEF Marks
  <2>9. /\ \A t \in ToSet(w.ticks) : t.fn = "error" => t.sock # s
        /\ req'[r].res = "read" \/ \A t \in ToSet(w.ticks) : t.fn = "end" => t.req # r
    <3>1. \A t \in ToSet(w.ticks) : t.fn = "error" => t.sock # s
      BY <1>2, <1>4 DEF Clash
    <3>2. \A t \in ToSet(w.ticks) : t.fn = "end" => req[t.req].res = "read"
      BY <1>4 DEF Safe, TickOK
    <3> QED
      BY <3>1, <3>2, <2>7
  <2>10. Marked(w, v, req, req', shouldKeepAlive, shouldKeepAlive, s, r)
    BY <1>4, <1>7, <2>7, <2>8, <2>9 DEF Marked, Done
  <2>11. v \in WorldType /\ Become(v)
    BY <1>3, <1>9, <2>2, <2>3, <2>8 DEF Marks, SetError
  <2>12. Accounts(v, req', shouldKeepAlive, origin)
    BY <1>4, <1>5, <2>4, <2>5, <2>10, <2>11, MarkStep
  <2> QED
    BY <1>8, <2>11, <2>12, BecomesPlain
<1>10. CASE /\ Has(s, "idle")
            /\ Become(AgentRemove(Unlisten(Popped, s, {"idle"}), s))
            /\ UNCHANGED req
  <2>1. PICK v : v = AgentRemove(Unlisten(w, s, {"idle"}), s)
    OBVIOUS
  <2>2. w.conn[s].target \in Origins
    BY <1>4, <1>10, InUse DEF Has
  <2>3. v \in WorldType /\ Accounts(v, req, shouldKeepAlive, origin)
    BY <1>4, <1>5, <1>6, <1>7, <1>10, <2>1, <2>2, IdleErrorSafe DEF Has
  <2> QED
    BY <1>3, <1>8, <1>10, <2>1, <2>3, BecomesPlain
<1>11. CASE Become(Popped) /\ UNCHANGED req
  BY <1>3, <1>4, <1>6, <1>8, <1>11, BecomesPlain
<1> QED
  BY <1>9, <1>10, <1>11 DEF RunError


LEMMA HangUpFields ==
  ASSUME NEW q \in ReqType, NEW b \in BOOLEAN, q.errors <= 1, b = TRUE \/ q.errors = 0
  PROVE  /\ HangUp(q, b).closed = TRUE /\ HangUp(q, b).errors <= 1
         /\ HangUp(q, b).socket = q.socket /\ HangUp(q, b).finished = q.finished
         /\ q.res \in Parsed => HangUp(q, b).res = q.res
         /\ HangUp(q, b).res \in Parsed => q.res \in Parsed
<1>1. CASE q.res # "none"
  <2>1. PICK y : y = IF q.res \in Parsed THEN q.res ELSE "aborted"
    OBVIOUS
  <2>2. PICK c : c = Closes(q)
    OBVIOUS
  <2>3. /\ c \in ReqType /\ c.closed = TRUE /\ c.errors = q.errors /\ c.socket = q.socket
        /\ c.res = q.res /\ c.finished = q.finished
    BY <2>2, ClosesFields
  <2>4. PICK x : x = [c EXCEPT !.destroyed = TRUE, !.res = y]
    OBVIOUS
  <2>5. /\ x.closed = TRUE /\ x.errors = q.errors /\ x.socket = q.socket
        /\ x.finished = q.finished /\ x.res = y
    BY <2>3, <2>4 DEF ReqType
  <2>6. HangUp(q, b) = x
    BY <1>1, <2>1, <2>2, <2>3, <2>4 DEF HangUp
  <2> QED
    BY <2>1, <2>5, <2>6 DEF Parsed
<1>2. CASE q.res = "none"
  <2>1. PICK e \in {0, 1} : e = IF b THEN 0 ELSE 1
    OBVIOUS
  <2>2. PICK x : x = Errs(q, e)
    OBVIOUS
  <2>3. /\ x \in ReqType /\ x.errors <= 1
        /\ x.socket = q.socket /\ x.res = q.res /\ x.finished = q.finished
    <3>1. x \in ReqType /\ x.socket = q.socket /\ x.res = q.res /\ x.finished = q.finished
      BY <2>1, <2>2 DEF Errs, ReqType
    <3>2. x.errors = IF q.errors + e > 2 THEN 2 ELSE q.errors + e
      BY <2>2 DEF Errs, ReqType
    <3>3. q.errors \in 0..2
      BY DEF ReqType
    <3> QED
      BY <3>1, <3>2, <3>3, <2>1
  <2>4. PICK c : c = Closes(x)
    OBVIOUS
  <2>5. /\ c \in ReqType /\ c.closed = TRUE /\ c.errors = x.errors /\ c.socket = q.socket
        /\ c.res = q.res /\ c.finished = q.finished
    BY <2>3, <2>4, ClosesFields
  <2>6. HangUp(q, b) = [c EXCEPT !.destroyed = TRUE]
    BY <1>2, <2>1, <2>2, <2>4 DEF HangUp
  <2> QED
    BY <1>2, <2>3, <2>5, <2>6 DEF Parsed, ReqType
<1> QED
  BY <1>1, <1>2

\* The socket that closed: its state and its error mark.
Shut(c, b) == [c EXCEPT !.state = "closed", !.hadError = b]

LEMMA ShutType ==
  ASSUME NEW c \in ConnType, NEW b \in BOOLEAN
  PROVE  /\ Shut(c, b) \in ConnType /\ Shut(c, b).state = "closed" /\ Shut(c, b).hadError = b
         /\ Shut(c, b).message = c.message /\ Shut(c, b).listeners = c.listeners
BY DEF Shut, ConnType

\* The world after a socket closed, before the requests hang up.
LEMMA ClosedWorld ==
  ASSUME NEW w, WorldOK(w, origin), NEW s \in Sockets, w.conn[s].target \in Origins,
         NEW b \in BOOLEAN, NEW k, k = SetState(w, s, "closed"),
         NEW g, g = IF "agent" \in w.conn[s].listeners THEN RemoveSocket(k, s) ELSE k,
         NEW v, v = SetError(g, s, b)
  PROVE  /\ WorldOK(k, origin) /\ Marks(w, k, s) /\ k.conn[s].state = "closed"
         /\ k.conn[s].listeners = w.conn[s].listeners
         /\ v = Forgotten(k, s, Shut(w.conn[s], b))
<1>1. w \in WorldType /\ w.conn[s] \in ConnType
  BY DEF WorldOK, WorldType
<1>2. /\ Marks(w, k, s) /\ k.conn[s].state = "closed"
      /\ k.conn[s].hadError = w.conn[s].hadError /\ k.conn[s].listeners = w.conn[s].listeners
  <2>1. "closed" \in {"ended", "closed"}
    OBVIOUS
  <2> QED
    BY <1>1, <2>1, StateMarks
<1>3. WorldOK(k, origin)
  <2>1. s \in Sockets \cup {None} /\ "closed" \in {"open", "ended", "destroyed", "closed"}
    OBVIOUS
  <2> QED
    BY <2>1, SetStateOK
<1>4. PICK e : e = [k.conn[s] EXCEPT !.hadError = b]
  OBVIOUS
<1>5. e = Shut(w.conn[s], b)
  <2>1. k.conn[s] = [w.conn[s] EXCEPT !.state = "closed"]
    BY <1>1 DEF SetState, WorldType
  <2> QED
    BY <2>1, <1>1, <1>4 DEF Shut, ConnType
<1>6. g \in WorldType /\ g.conn[s] = k.conn[s]
  <2>1. k.conn[s].target \in Origins /\ k \in WorldType
    BY <1>2 DEF Marks
  <2>2. k.conn[s] \in ConnType /\ k.conn[s].state # "unused"
    BY <2>1, <1>2 DEF WorldType
  <2>3. RemoveSocket(k, s) \in WorldType /\ RemoveSocket(k, s).conn[s] = k.conn[s]
    BY <1>3, <2>1, <2>2, RemoveEffect
  <2> QED
    BY <2>1, <2>3
<1>7. v = WithConn(g, s, e)
  BY <1>4, <1>6 DEF SetError, WithConn, WorldType
<1> QED
  BY <1>2, <1>3, <1>5, <1>7 DEF Forgotten


\* What becomes of the world when a socket closes.
LEMMA ClosedBecomes ==
  ASSUME NEW w, WorldOK(w, origin), w.conn = conn, NEW s \in Sockets, Closed(w, s),
         NEW b \in BOOLEAN,
         b = TRUE <=> w.conn[s].hadError = TRUE \/ "request" \in w.conn[s].listeners,
         NEW k, k = SetState(w, s, "closed"),
         NEW v, v = Forgotten(k, s, Shut(w.conn[s], b))
  PROVE  Become(v)
<1>1. /\ w \in WorldType /\ w.conn[s] \in ConnType /\ w.conn[s].state = "destroyed"
      /\ w.conn[s].target \in Origins
  BY DEF WorldOK, WorldType, Closed, Targeted
<1>2. PICK g : g = IF "agent" \in w.conn[s].listeners THEN RemoveSocket(k, s) ELSE k
  OBVIOUS
<1>3. /\ WorldOK(k, origin) /\ Marks(w, k, s) /\ k.conn[s].state = "closed"
      /\ v = SetError(g, s, b)
  <2>1. PICK x : x = SetError(g, s, b)
    OBVIOUS
  <2>2. /\ WorldOK(k, origin) /\ Marks(w, k, s) /\ k.conn[s].state = "closed"
        /\ x = Forgotten(k, s, Shut(w.conn[s], b))
    BY <1>1, <1>2, <2>1, ClosedWorld
  <2> QED
    BY <2>1, <2>2
<1>4. k.conn[s].target \in Origins /\ k \in WorldType
  BY <1>1, <1>3 DEF Marks
<1>5. k.conn[s] \in ConnType /\ k.conn[s].state # "unused"
  BY <1>3, <1>4 DEF WorldType
<1>6. RemoveSocket(k, s) \in WorldType /\ RemoveSocket(k, s).conn[s] = k.conn[s]
  BY <1>3, <1>4, <1>5, RemoveEffect
<1>7. g \in WorldType /\ g.conn[s].hadError = w.conn[s].hadError
  <2>1. k.conn[s] = [w.conn[s] EXCEPT !.state = "closed"]
    BY <1>1 DEF SetState, WorldType
  <2> QED
    BY <2>1, <1>1, <1>2, <1>4, <1>6 DEF ConnType
<1>8. PICK d : d = (g.conn[s].hadError \/ Has(s, "request"))
  OBVIOUS
<1>9. d = b
  <2>1. d \in BOOLEAN
    BY <1>8, Zenon
  <2>2. PICK x \in BOOLEAN : x = g.conn[s].hadError
    BY <1>1, <1>7 DEF ConnType
  <2>3. d = TRUE <=> x = TRUE \/ Has(s, "request")
    BY <1>8, <2>2, Zenon
  <2>4. d = TRUE <=> b = TRUE
    BY <1>7, <2>2, <2>3 DEF Has
  <2> QED
    BY <2>1, <2>4
<1>10. Become([g EXCEPT !.conn[s].hadError = @ \/ Has(s, "request")])
  BY <1>2 DEF Closed, SetState, Has
<1>11. [g EXCEPT !.conn[s].hadError = @ \/ Has(s, "request")] = SetError(g, s, d)
  BY <1>7, <1>8 DEF SetError, WorldType
<1> QED
  BY <1>3, <1>9, <1>10, <1>11

\* 'close' of a socket: the agent forgets it, and its request hangs up.
LEMMA ClosedStep ==
  ASSUME IInv, IInv', Sound, NEW w, WorldOK(w, origin), w.conn = conn,
         Accounts(w, req, shouldKeepAlive, origin), NEW s \in Sockets,
         \A t \in ToSet(w.ticks) : t.sock = s => t.fn \notin {"onSocket", "error", "close"},
         Closed(w, s)
  PROVE  Sound'
<1>1. /\ w \in WorldType /\ Safe(w, req, shouldKeepAlive, origin)
      /\ w.conn[s] \in ConnType /\ w.conn[s].state = "destroyed"
  BY DEF WorldOK, WorldType, Accounts, Closed
<1>2. /\ req \in ReqMap /\ req' \in ReqMap /\ shouldKeepAlive \in KeepMap
      /\ None \notin Requests /\ None \notin Sockets /\ origin \in OriginMap
  BY Typed DEF IInv, ReqMap
<1>3. w.conn[s].target \in Origins
  BY <1>1 DEF WorldOK, Targeted
<1>4. PICK heard \in BOOLEAN : heard = TRUE <=> "request" \in w.conn[s].listeners
  <2>1. CASE "request" \in w.conn[s].listeners
    BY <2>1
  <2>2. CASE "request" \notin w.conn[s].listeners
    BY <2>2
  <2> QED
    BY <2>1, <2>2
<1>5. PICK b \in BOOLEAN : b = TRUE <=> w.conn[s].hadError = TRUE \/ heard = TRUE
  <2>1. CASE w.conn[s].hadError = TRUE \/ heard = TRUE
    BY <2>1
  <2>2. CASE ~(w.conn[s].hadError = TRUE \/ heard = TRUE)
    BY <2>2
  <2> QED
    BY <2>1, <2>2
<1>6. PICK k : k = SetState(w, s, "closed")
  OBVIOUS
<1>7. PICK g : g = IF "agent" \in w.conn[s].listeners THEN RemoveSocket(k, s) ELSE k
  OBVIOUS
<1>8. PICK c : c = Shut(w.conn[s], b)
  OBVIOUS
<1>9. PICK v : v = Forgotten(k, s, c)
  OBVIOUS
<1>10. /\ WorldOK(k, origin) /\ Marks(w, k, s) /\ k.conn[s].state = "closed"
       /\ k.conn[s].listeners = w.conn[s].listeners
       /\ v = Forgotten(k, s, c)
  <2>1. PICK x : x = SetError(g, s, b)
    OBVIOUS
  <2> QED
    BY <1>3, <1>6, <1>7, <1>9, <1>8, <2>1, ClosedWorld
<1>11. /\ c \in ConnType /\ c.state = "closed" /\ c.hadError = b
       /\ c.message = w.conn[s].message /\ c.listeners = w.conn[s].listeners
  BY <1>1, <1>8, ShutType
<1>12. /\ Become(v) /\ UNCHANGED <<origin, shouldKeepAlive>>
       /\ req' = IF heard = TRUE THEN [req EXCEPT ![w.conn[s].message] =
                                   HangUp(req[w.conn[s].message], w.conn[s].hadError)]
                 ELSE req
  BY <1>4, <1>5, <1>6, <1>9, <1>8, ClosedBecomes DEF Closed, Has
<1>13. PICK r : r = IF heard = TRUE THEN w.conn[s].message ELSE None
  OBVIOUS
<1>14. /\ r \in Requests \cup {None} /\ (r \in Requests <=> heard = TRUE)
       /\ r \in Requests => On(w, req, s, r)
  BY <1>1, <1>2, <1>4, <1>13 DEF Safe, SocketOK, On
<1>15. /\ \A q \in Requests : q # r => req'[q] = req[q]
       /\ r \in Requests => req'[r] = HangUp(req[r], w.conn[s].hadError)
  BY <1>2, <1>12, <1>13, <1>14 DEF ReqMap
<1>16. ASSUME r \in Requests
       PROVE  /\ ~Queued(w, r) /\ origin[r] # None
              /\ req'[r].closed = TRUE /\ req'[r].errors <= 1
              /\ req'[r].socket = req[r].socket /\ req[r].socket = s
              /\ req'[r].finished = req[r].finished
              /\ req[r].res \in Parsed => req'[r].res = req[r].res
              /\ req'[r].res \in Parsed => req[r].res \in Parsed
  <2>1. /\ ~Queued(w, r) /\ origin[r] # None /\ req[r].errors <= 1
        /\ req[r].errors > 0 => w.conn[s].hadError
    BY <1>1, <1>2, <1>14, <1>16, OnTicks
  <2>2. w.conn[s].hadError \in BOOLEAN /\ req[r] \in ReqType
    BY <1>1, <1>2, <1>16 DEF ConnType, ReqMap
  <2>3. w.conn[s].hadError = TRUE \/ req[r].errors = 0
    BY <2>1, <2>2 DEF ReqType
  <2>4. PICK x \in BOOLEAN : x = w.conn[s].hadError
    BY <2>2
  <2>5. /\ HangUp(req[r], x).closed = TRUE /\ HangUp(req[r], x).errors <= 1
        /\ HangUp(req[r], x).socket = req[r].socket
        /\ HangUp(req[r], x).finished = req[r].finished
        /\ req[r].res \in Parsed => HangUp(req[r], x).res = req[r].res
        /\ HangUp(req[r], x).res \in Parsed => req[r].res \in Parsed
    BY <2>1, <2>2, <2>3, <2>4, HangUpFields
  <2>6. req[r].socket = s
    BY <1>14, <1>16 DEF On
  <2> QED
    BY <2>1, <2>4, <2>5, <2>6, <1>15, <1>16
<1>17. OfSocket(w, req, req', shouldKeepAlive, s, r)
  BY <1>4, <1>13, <1>14, <1>15, <1>16 DEF OfSocket, Done, Parsed
<1>18. PICK y : /\ Forgets(w, y, req, req', shouldKeepAlive, s, r, c) /\ Refills(y, v)
  <2>1. c.state # "unused" /\ k.conn[s].state # "open"
    BY <1>10, <1>11
  <2>2. /\ k.conn[s].listeners \subseteq w.conn[s].listeners
        /\ "agent" \in w.conn[s].listeners => "agent" \in k.conn[s].listeners
        /\ k.conn[s].target \in Origins
    BY <1>3, <1>10 DEF Marks
  <2> QED
    BY <1>1, <1>2, <1>10, <1>11, <1>17, <2>1, <2>2, ForgottenEffect
<1>19. /\ y.conn[s] = c /\ \A z \in Sockets : z # s => y.conn[z] = w.conn[z]
  BY <1>18 DEF Forgets, Near
<1>20. ASSUME NEW t \in ToSet(w.ticks)
       PROVE  Apart(t, s, r) \/ TickOK(y, req', shouldKeepAlive, origin, t)
  <2>1. TickOK(w, req, shouldKeepAlive, origin, t)
    BY <1>1 DEF Safe
  <2>2. t.fn = "onSocket" => Apart(t, s, r)
    BY <2>1, <1>2, <1>16 DEF TickOK, OnSocketOK, Untouched, Apart
  <2>3. ASSUME t.fn = "emitFree", ~Apart(t, s, r)
        PROVE  EmitFreeOK(y, req', shouldKeepAlive, t.req, t.sock)
    <3>1. EmitFreeOK(w, req, shouldKeepAlive, t.req, t.sock)
      BY <2>1, <2>3 DEF TickOK
    <3>2. t.sock = s
      BY <2>3, <3>1, <1>2, <1>16 DEF EmitFreeOK, Apart
    <3>3. heard # TRUE
      BY <3>1, <3>2, <1>4 DEF EmitFreeOK, Bare
    <3>4. r \notin Requests
      BY <3>3, <1>14
    <3> QED
      BY <3>1, <3>2, <3>4, <1>11, <1>15, <1>19 DEF EmitFreeOK, Bare
  <2>4. ASSUME t.fn = "hangUp"
        PROVE  HangUpOK(req', origin, t.req)
    <3>1. HangUpOK(req, origin, t.req) /\ t.req # r
      BY <2>1, <2>4, <1>2, <1>16 DEF TickOK, HangUpOK, Untouched
    <3> QED
      BY <3>1, <1>15 DEF HangUpOK
  <2>5. t.fn = "end" => t.req \in Requests /\ req'[t.req].res = "read"
    BY <2>1, <1>15, <1>16 DEF TickOK, Parsed
  <2>6. t.fn = "error" => ErrorOK(y, t.sock)
    BY <2>1, <1>19 DEF TickOK, ErrorOK
  <2>7. t.fn = "close" => CloseOK(y, t.sock)
    BY <2>1, <1>19 DEF TickOK, CloseOK
  <2> QED
    BY <2>2, <2>3, <2>4, <2>5, <2>6, <2>7 DEF TickOK
<1>21. SocketOK(y, req', s) /\ Heard(y, s)
  <2>1. SocketOK(w, req, s)
    BY <1>1 DEF Safe
  <2>2. "request" \in c.listeners => /\ c.message = r /\ r \in Requests /\ b = TRUE
                                     /\ req'[r].socket = s /\ req'[r].closed = TRUE
    BY <1>4, <1>5, <1>11, <1>13, <1>14, <1>16
  <2> QED
    BY <2>1, <2>2, <1>11, <1>19 DEF SocketOK, Heard
<1>22. ASSUME r \in Requests
       PROVE  ReqOK(y, req', origin, r) /\ ~Queued(w, r) /\ Kept(y, req', origin, r)
  <2>1. Attached(y, req', r)
    BY <1>11, <1>14, <1>16, <1>19, <1>22 DEF Attached, On
  <2> QED
    BY <2>1, <1>16, <1>22 DEF ReqOK, Kept
<1>23. Nearly(w, req, shouldKeepAlive, origin, s, r)
  BY DEF Accounts, Nearly
<1>24. v \in WorldType /\ Accounts(v, req', shouldKeepAlive, origin)
  <2>1. r \in Requests \cup {None}
    BY <1>14
  <2>2. r \in Requests => /\ ReqOK(y, req', origin, r) /\ ~Queued(w, r)
                          /\ Kept(y, req', origin, r)
    BY <1>22
  <2>3. Forgets(w, y, req, req', shouldKeepAlive, s, r, c) /\ Refills(y, v)
    BY <1>18
  <2> QED
    BY <2>1, <2>2, <2>3, <1>1, <1>2, <1>20, <1>21, <1>23, ForgetsStep
<1> QED
  BY <1>12, <1>24, BecomesPlain

LEMMA RunCloseSound ==
  ASSUME IInv, IInv', Sound, NEW s \in Sockets, RunClose(s)
  PROVE  Sound'
<1>1. PICK h : h = Head(ticks)
  OBVIOUS
<1>2. h.fn = "close" /\ h.req = None /\ h.sock = s /\ ticks # <<>>
  <2>1. None \in Requests \cup {None} /\ s \in Sockets \cup {None}
    OBVIOUS
  <2> QED
    BY <1>1, <2>1, TickFields DEF RunClose, Runs
<1>3. /\ WorldOK(Popped, origin) /\ Popped.conn = conn
      /\ \A t \in ToSet(Popped.ticks) : ~Clash(h, t)
      /\ Safe(Popped, req, shouldKeepAlive, origin)
      /\ \A z \in Sockets : ~Taking(h, z) => Heard(Popped, z)
      /\ \A q \in Requests : h.req # q => Kept(Popped, req, origin, q)
  BY <1>1, <1>2, PoppedSafe
<1>4. Accounts(Popped, req, shouldKeepAlive, origin)
  BY <1>2, <1>3, Typed DEF Accounts, Taking
<1>5. \A t \in ToSet(Popped.ticks) : t.sock = s => t.fn \notin {"onSocket", "error", "close"}
  BY <1>2, <1>3 DEF Clash
<1> QED
  BY <1>3, <1>4, <1>5, ClosedStep DEF RunClose

\* Without close ticks the handle reports its closure when no tick is left.
LEMMA HandleClosedSound ==
  ASSUME IInv, IInv', Sound, NEW s \in Sockets, HandleClosed(s)
  PROVE  Sound'
<1>1. World.ticks = <<>>
  BY ClientAssumption, AgentAssumption, Typed DEF HandleClosed, IO
<1>2. \A t \in ToSet(World.ticks) : t.sock = s => t.fn \notin {"onSocket", "error", "close"}
  <2>1. ToSet(<<>>) = {}
    BY DEF ToSet
  <2> QED
    BY <1>1, <2>1
<1>3. WorldOK(World, origin) /\ World.conn = conn /\ Closed(World, s)
  BY Typed DEF IInv, HandleClosed
<1> QED
  BY <1>2, <1>3, ClosedStep DEF Sound


\* The socket that is given to the program.
Given(c) == [c EXCEPT !.listeners = @ \ {"agent", "request", "reader"}, !.message = None]

LEMMA GivenType ==
  ASSUME NEW c \in ConnType
  PROVE  /\ Given(c) \in ConnType /\ Given(c).state = c.state /\ Given(c).hadError = c.hadError
         /\ Given(c).message = None
         /\ Given(c).listeners = c.listeners \ {"agent", "request", "reader"}
BY DEF Given, ConnType

LEMMA GivenWorld ==
  ASSUME NEW w, WorldOK(w, origin), NEW s \in Sockets, w.conn[s].target \in Origins,
         NEW a, a = AgentRemove(w, s),
         NEW u, u = Unlisten(a, s, {"request", "reader"})
  PROVE  [u EXCEPT !.conn[s].message = None] = Forgotten(w, s, Given(w.conn[s]))
<1>1. w \in WorldType /\ w.conn[s] \in ConnType /\ w.conn[s].state # "unused"
  BY InUse DEF WorldOK
<1>2. PICK g : g = IF "agent" \in w.conn[s].listeners THEN RemoveSocket(w, s) ELSE w
  OBVIOUS
<1>3. g \in WorldType
  BY <1>1, <1>2, RemoveEffect
<1>4. PICK c : c = Unheeded(w.conn[s])
  OBVIOUS
<1>5. a = WithConn(g, s, c)
  BY <1>2, <1>4, AgentRemoveIs DEF Forgotten
<1>6. c \in ConnType
  BY <1>1, <1>4 DEF Unheeded, ConnType
<1>7. a \in WorldType /\ a.conn[s] = c
  BY <1>3, <1>5, <1>6, WithConnType
<1>8. PICK d : d = [c EXCEPT !.listeners = @ \ {"request", "reader"}]
  OBVIOUS
<1>9. u = WithConn(g, s, d)
  <2>1. u = WithConn(a, s, d)
    BY <1>7, <1>8 DEF Unlisten, WithConn, WorldType
  <2>2. WithConn(WithConn(g, s, c), s, d) = WithConn(g, s, d)
    BY <1>3 DEF WithConn, WorldType
  <2> QED
    BY <2>1, <2>2, <1>5
<1>10. d \in ConnType
  BY <1>6, <1>8 DEF ConnType
<1>11. u \in WorldType /\ u.conn[s] = d
  BY <1>3, <1>9, <1>10, WithConnType
<1>12. PICK e : e = [d EXCEPT !.message = None]
  OBVIOUS
<1>13. [u EXCEPT !.conn[s].message = None] = WithConn(g, s, e)
  <2>1. [u EXCEPT !.conn[s].message = None] = WithConn(u, s, e)
    BY <1>11, <1>12 DEF WithConn, WorldType
  <2>2. WithConn(WithConn(g, s, d), s, e) = WithConn(g, s, e)
    BY <1>3 DEF WithConn, WorldType
  <2> QED
    BY <2>1, <2>2, <1>9
<1>14. e = Given(w.conn[s])
  BY <1>1, <1>4, <1>8, <1>12 DEF Unheeded, Given, ConnType
<1> QED
  BY <1>2, <1>13, <1>14 DEF Forgotten

LEMMA UpgradeGivenSound ==
  ASSUME IInv, IInv', Sound, NEW s \in Sockets, "reader" \in conn[s].listeners,
         conn[s].state = "open", NEW r, r = conn[s].message, req[r].res = "none",
         \A q \in Requests : q # r => req'[q] = req[q],
         req'[r].closed = TRUE, req'[r].res = "open", req'[r].errors = req[r].errors,
         NEW v, v = Forgotten(World, s, Given(conn[s])), Become(v),
         UNCHANGED <<origin, shouldKeepAlive>>
  PROVE  Sound'
<1>1. /\ r \in Requests /\ On(World, req, s, r)
      /\ Nearly(World, req, shouldKeepAlive, origin, s, r)
  BY ReadingOn
<1>2. /\ World \in WorldType /\ WorldOK(World, origin) /\ req \in ReqMap /\ req' \in ReqMap
      /\ World.conn = conn /\ shouldKeepAlive \in KeepMap /\ origin \in OriginMap
      /\ conn[s] \in ConnType
  BY Typed DEF IInv, ReqMap, KeepMap
<1>3. Safe(World, req, shouldKeepAlive, origin)
  BY <1>1 DEF Nearly
<1>4. /\ \A t \in ToSet(World.ticks) :
            /\ t.fn \in {"onSocket", "emitFree"} => t.sock # s /\ t.req # r
            /\ t.fn = "hangUp" => t.req # r
      /\ ~Queued(World, r) /\ origin[r] # None
      /\ \A n \in Origins : s \notin World.pool.freeSockets[n]
      /\ "idle" \notin conn[s].listeners
      /\ req[r].errors <= 1
  BY <1>1, <1>2, <1>3, OnTicks
<1>5. PICK c : c = Given(conn[s])
  OBVIOUS
<1>6. /\ c \in ConnType /\ c.state = "open" /\ c.hadError = conn[s].hadError
      /\ c.message = None
      /\ c.listeners = conn[s].listeners \ {"agent", "request", "reader"}
  BY <1>2, <1>5, GivenType
<1>7. OfSocket(World, req, req', shouldKeepAlive, s, r)
  BY <1>1, <1>2 DEF OfSocket, Done, On
<1>8. PICK y : Forgets(World, y, req, req', shouldKeepAlive, s, r, c) /\ Refills(y, v)
  <2>1. /\ c.state # "unused" /\ Marks(World, World, s)
        /\ World.conn[s].target \in Origins
    BY <1>2, <1>6, InUse DEF Marks
  <2>2. /\ World.conn[s].listeners \subseteq World.conn[s].listeners
        /\ v = Forgotten(World, s, c)
    BY <1>5
  <2> QED
    BY <1>2, <1>3, <1>4, <1>6, <1>7, <2>1, <2>2, ForgottenEffect
<1>9. /\ y.conn[s] = c /\ \A z \in Sockets : z # s => y.conn[z] = conn[z]
  BY <1>2, <1>8 DEF Forgets, Near
<1>10. ASSUME NEW t \in ToSet(World.ticks)
       PROVE  Apart(t, s, r) \/ TickOK(y, req', shouldKeepAlive, origin, t)
  <2>1. TickOK(World, req, shouldKeepAlive, origin, t)
    BY <1>3 DEF Safe
  <2>2. t.fn \in {"onSocket", "emitFree"} => Apart(t, s, r)
    BY <1>4 DEF Apart
  <2>3. t.fn = "hangUp" => HangUpOK(req', origin, t.req)
    BY <2>1, <1>4 DEF TickOK, HangUpOK
  <2>4. t.fn = "end" => t.req \in Requests /\ req'[t.req].res = "read"
    BY <2>1 DEF TickOK
  <2>5. t.fn = "error" => ErrorOK(y, t.sock)
    BY <2>1, <1>2, <1>9 DEF TickOK, ErrorOK
  <2>6. t.fn = "close" => CloseOK(y, t.sock)
    BY <2>1, <1>2, <1>9 DEF TickOK, CloseOK
  <2> QED
    BY <2>2, <2>3, <2>4, <2>5, <2>6 DEF TickOK
<1>11. SocketOK(y, req', s) /\ Heard(y, s)
  <2>1. SocketOK(World, req, s)
    BY <1>3 DEF Safe
  <2> QED
    BY <2>1, <1>2, <1>4, <1>6, <1>9 DEF SocketOK, Heard
<1>12. ReqOK(y, req', origin, r) /\ ~Queued(World, r) /\ Kept(y, req', origin, r)
  BY <1>4 DEF ReqOK, Kept
<1>13. v \in WorldType /\ Accounts(v, req', shouldKeepAlive, origin)
  <2>1. r \in Requests \cup {None}
    BY <1>1
  <2>2. Forgets(World, y, req, req', shouldKeepAlive, s, r, c) /\ Refills(y, v)
    BY <1>8
  <2> QED
    BY <2>1, <2>2, <1>1, <1>2, <1>10, <1>11, <1>12, ForgetsStep
<1> QED
  BY <1>13, BecomesPlain

LEMMA UpgradeDroppedSound ==
  ASSUME IInv, IInv', Sound, NEW s \in Sockets, "reader" \in conn[s].listeners,
         NEW r, r = conn[s].message, req[r].res = "none",
         \A q \in Requests : q # r => req'[q] = req[q],
         req'[r].socket = req[r].socket, req'[r].closed = req[r].closed,
         req'[r].errors = req[r].errors,
         NEW u, u = Unlisten(World, s, {"reader"}),
         NEW v, v = DestroySocket(u, s), Become(v),
         UNCHANGED <<origin, shouldKeepAlive>>
  PROVE  Sound'
<1>1. /\ r \in Requests /\ On(World, req, s, r)
      /\ Nearly(World, req, shouldKeepAlive, origin, s, r)
  BY ReadingOn
<1>2. /\ World \in WorldType /\ req \in ReqMap /\ req' \in ReqMap
      /\ World.conn = conn /\ shouldKeepAlive \in KeepMap
  BY Typed DEF IInv, ReqMap, KeepMap
<1>3. /\ Marks(World, u, s)
      /\ u.conn[s].state = World.conn[s].state /\ u.conn[s].hadError = World.conn[s].hadError
      /\ u.conn[s].listeners = World.conn[s].listeners \ {"reader"}
  BY <1>2, UnlistenMarks
<1>4. /\ req[r].errors <= 1
      /\ \A t \in ToSet(World.ticks) : t.fn = "end" => t.req # r
  BY <1>1 DEF Sound, Accounts, Safe, TickOK, ReqOK
<1>5. Marked(World, u, req, req', shouldKeepAlive, shouldKeepAlive, s, r)
  BY <1>3, <1>4 DEF Marked, Done
<1>6. u \in WorldType
  BY <1>3 DEF Marks
<1>7. Accounts(u, req', shouldKeepAlive, origin)
  BY <1>1, <1>2, <1>5, <1>6, MarkStep
<1>8. v \in WorldType /\ Accounts(v, req', shouldKeepAlive, origin)
  BY <1>2, <1>6, <1>7, DestroyAccounts
<1> QED
  BY <1>8, BecomesPlain

LEMMA UpgradeSound ==
  ASSUME IInv, IInv', Sound, NEW s \in Sockets, NEW listening \in BOOLEAN,
         Upgrade(s, listening)
  PROVE  Sound'
<1>1. PICK r : r = conn[s].message
  OBVIOUS
<1>2. /\ "reader" \in conn[s].listeners /\ conn[s].state = "open" /\ req[r].res = "none"
      /\ UNCHANGED <<origin, shouldKeepAlive>>
  BY <1>1 DEF Upgrade, Reading, Has
<1>3. r \in Requests /\ req \in ReqMap /\ req[r] \in ReqType
  BY <1>1, <1>2, ReadingOn, Typed DEF ReqMap
<1>4. CASE /\ Become([Unlisten(AgentRemove(World, s), s, {"request", "reader"})
                         EXCEPT !.conn[s].message = None])
           /\ req' = [req EXCEPT ![r] = [Closes(@) EXCEPT !.res = "open", !.destroyed = TRUE]]
  <2>1. PICK v : v = Forgotten(World, s, Given(conn[s]))
    OBVIOUS
  <2>2. Become(v)
    <3>1. WorldOK(World, origin) /\ World.conn[s].target \in Origins /\ World.conn = conn
      BY <1>2, Typed, InUse DEF IInv
    <3>2. PICK a : a = AgentRemove(World, s)
      OBVIOUS
    <3>3. PICK u : u = Unlisten(a, s, {"request", "reader"})
      OBVIOUS
    <3>4. [u EXCEPT !.conn[s].message = None] = v
      BY <2>1, <3>1, <3>2, <3>3, GivenWorld
    <3> QED
      BY <1>4, <3>2, <3>3, <3>4
  <2>3. /\ \A q \in Requests : q # r => req'[q] = req[q]
        /\ req'[r].closed = TRUE /\ req'[r].res = "open" /\ req'[r].errors = req[r].errors
    <3>1. PICK c : c = Closes(req[r])
      OBVIOUS
    <3>2. c \in ReqType /\ c.closed = TRUE /\ c.errors = req[r].errors
      BY <1>3, <3>1, ClosesFields
    <3>3. /\ \A q \in Requests : q # r => req'[q] = req[q]
          /\ req'[r] = [c EXCEPT !.res = "open", !.destroyed = TRUE]
      BY <1>3, <1>4, <3>1 DEF ReqMap
    <3> QED
      BY <3>2, <3>3 DEF ReqType
  <2> QED
    BY <1>1, <1>2, <2>1, <2>2, <2>3, UpgradeGivenSound
<1>5. CASE /\ Become(DestroySocket(Unlisten(World, s, {"reader"}), s))
           /\ req' = [req EXCEPT ![r].res = "open"]
  <2>1. PICK u : u = Unlisten(World, s, {"reader"})
    OBVIOUS
  <2>2. PICK v : v = DestroySocket(u, s)
    OBVIOUS
  <2>3. Become(v)
    BY <1>5, <2>1, <2>2
  <2>4. /\ \A q \in Requests : q # r => req'[q] = req[q]
        /\ req'[r].socket = req[r].socket /\ req'[r].closed = req[r].closed
        /\ req'[r].errors = req[r].errors
    BY <1>3, <1>5 DEF ReqMap, ReqType
  <2> QED
    BY <1>1, <1>2, <2>1, <2>2, <2>3, <2>4, UpgradeDroppedSound
<1> QED
  BY <1>1, <1>4, <1>5 DEF Upgrade


-----------------------------------------------------------------------------
(* A request is made. *)

\* Request r, not made before, goes to o; all it has changed is that end() may
\* have been called.
Starts(rq, rq2, ka, ka2, og, og2, r, o) ==
    /\ og[r] = None /\ og2[r] = o
    /\ \A q \in Requests : q # r => rq2[q] = rq[q] /\ ka2[q] = ka[q] /\ og2[q] = og[q]
    /\ rq2[r].socket = rq[r].socket /\ rq2[r].errors = rq[r].errors
    /\ rq2[r].closed = rq[r].closed /\ rq2[r].res = rq[r].res

\* No queue and no tick that leads to a socket has the request.
Unplaced(w, r) == /\ ~Queued(w, r)
                  /\ \A t \in ToSet(w.ticks) : t.fn \in {"onSocket", "hangUp"} => t.req # r

LEMMA StartsSafe ==
  ASSUME NEW w \in WorldType, NEW rq \in ReqMap, NEW rq2 \in ReqMap,
         NEW ka \in KeepMap, NEW ka2 \in KeepMap, NEW og \in OriginMap, NEW og2 \in OriginMap,
         NEW r \in Requests, NEW o \in Origins,
         Starts(rq, rq2, ka, ka2, og, og2, r, o), Accounts(w, rq, ka, og)
  PROVE  /\ Safe(w, rq2, ka2, og2) /\ Unplaced(w, r) /\ Untouched(rq2[r])
         /\ \A z \in Sockets : Heard(w, z)
         /\ \A q \in Requests : q # r => Kept(w, rq2, og2, q)
<1>1. None \notin Requests /\ None \notin Sockets /\ None \notin Origins
  BY AgentAssumption
<1>2. Safe(w, rq, ka, og) /\ Untouched(rq[r]) /\ rq[r].errors <= 1
  BY DEF Accounts, Safe, ReqOK, Starts
<1>3. Untouched(rq2[r])
  BY <1>2 DEF Untouched, Starts
<1>4. Unplaced(w, r)
  <2>1. ~Queued(w, r)
    BY <1>1, <1>2 DEF Safe, QueuedByName, Queued, Starts
  <2>2. \A t \in ToSet(w.ticks) : t.fn \in {"onSocket", "hangUp"} => t.req # r
    BY <1>2 DEF Safe, TickOK, OnSocketOK, HangUpOK, Starts
  <2> QED
    BY <2>1, <2>2 DEF Unplaced
<1>5. Near(w, w, rq, rq2, ka, ka2, None, r)
  <2>1. ~Done(rq[r], ka[r]) /\ rq[r].socket = None
    BY <1>2 DEF Done, Untouched
  <2> QED
    BY <2>1, <1>1 DEF Near, Starts
<1>6. ASSUME NEW t \in ToSet(w.ticks), t.req = r
      PROVE  TickOK(w, rq2, ka2, og, t)
  <2>1. TickOK(w, rq, ka, og, t) /\ t.fn \notin {"onSocket", "hangUp"}
    BY <1>2, <1>4, <1>6 DEF Safe, Unplaced
  <2>2. t.fn \notin {"emitFree", "end"}
    BY <2>1, <1>2, <1>6 DEF TickOK, EmitFreeOK, Done, Untouched
  <2> QED
    BY <2>1, <2>2 DEF TickOK
<1>7. Safe(w, rq2, ka2, og)
  <2>1. \A t \in ToSet(w.ticks) : \/ t \in ToSet(w.ticks) /\ Apart(t, None, r)
                                  \/ TickOK(w, rq2, ka2, og, t)
    BY <1>6 DEF Apart
  <2>2. ReqOK(w, rq2, og, r)
    BY <1>3 DEF ReqOK, Untouched
  <2>3. Ordered(w.ticks)
    BY <1>2 DEF Safe
  <2> QED
    BY <2>1, <2>2, <2>3, <1>1, <1>2, <1>3, <1>5, NearSafe
<1>8. ASSUME NEW t \in ToSet(w.ticks)
      PROVE  TickOK(w, rq2, ka2, og2, t)
  <2>1. TickOK(w, rq2, ka2, og, t) /\ (t.fn \in {"onSocket", "hangUp"} => t.req # r)
    BY <1>4, <1>7 DEF Safe, Unplaced
  <2>2. t.req \in Requests /\ t.req # r => og2[t.req] = og[t.req]
    BY DEF Starts
  <2> QED
    BY <2>1, <2>2 DEF TickOK, OnSocketOK, HangUpOK
<1>9. \A q \in Requests : ReqOK(w, rq2, og2, q)
  BY <1>1, <1>7 DEF Safe, ReqOK, Starts
<1>10. QueuedByName(w, og2)
  <2> SUFFICES ASSUME NEW n \in Origins, NEW i \in 1..Len(w.pool.requests[n])
               PROVE  /\ og2[w.pool.requests[n][i]] \in Origins
                      /\ GetName(og2[w.pool.requests[n][i]]) = n
    BY DEF QueuedByName
  <2>1. w.pool.requests[n][i] \in Requests
    BY DEF WorldType, PoolType
  <2>2. w.pool.requests[n][i] # r
    BY <1>4 DEF Unplaced, Queued
  <2>3. og2[w.pool.requests[n][i]] = og[w.pool.requests[n][i]]
    BY <2>1, <2>2 DEF Starts
  <2> QED
    BY <2>3, <1>2 DEF Safe, QueuedByName
<1>11. Safe(w, rq2, ka2, og2)
  BY <1>7, <1>8, <1>9, <1>10 DEF Safe
<1>12. \A z \in Sockets : Heard(w, z)
  BY DEF Accounts
<1>13. \A q \in Requests : q # r => Kept(w, rq2, og2, q)
  BY DEF Accounts, Kept, Starts, Attached
<1> QED
  BY <1>3, <1>4, <1>11, <1>12, <1>13


\* The new request gets a new socket: onSocketNT is queued.
LEMMA HandedSafe ==
  ASSUME NEW w \in WorldType, NEW rq \in ReqMap, NEW ka \in KeepMap, NEW og \in OriginMap,
         NEW k \in Sockets, NEW r \in Requests, og[r] \in Origins,
         Safe(w, rq, ka, og), Vacant(w, rq, ka, k), Unplaced(w, r), Untouched(rq[r]),
         NEW v, v = SetRequestSocket(w, r, k)
  PROVE  v \in WorldType /\ Safe(v, rq, ka, og) /\ Keeps(w, v, rq, og) /\ Kept(v, rq, og, r)
<1>1. PICK t0 : t0 = Tick("onSocket", r, k)
  OBVIOUS
<1>2. /\ t0 \in TickType /\ t0.fn = "onSocket" /\ t0.req = r /\ t0.sock = k
      /\ None \notin Requests /\ None \notin Origins /\ None \notin Sockets
  BY <1>1, TickFields, AgentAssumption
<1>3. w.ticks \in Seq(TickType)
  BY DEF WorldType
<1>4. ASSUME NEW t \in ToSet(w.ticks)
      PROVE  ~Clash(t, t0)
  <2>1. TickOK(w, rq, ka, og, t)
    BY <1>4 DEF Safe
  <2>2. t.fn \in {"onSocket", "hangUp"} => t.req # r
    BY <1>4 DEF Unplaced
  <2>3. t.fn \in {"onSocket", "emitFree"} => t.sock # k
    BY <1>4 DEF Vacant, Taking
  <2>4. t.fn = "close" => t.sock # k
    BY <2>1 DEF TickOK, CloseOK, Vacant
  <2> QED
    BY <2>2, <2>3, <2>4, <1>2 DEF Clash
<1>5. /\ Append(w.ticks, t0) \in Seq(TickType)
      /\ ToSet(Append(w.ticks, t0)) = ToSet(w.ticks) \cup {t0}
      /\ Ordered(Append(w.ticks, t0))
  <2>1. Ordered(w.ticks)
    BY DEF Safe
  <2> QED
    BY <2>1, <1>2, <1>3, <1>4, AppendedTick
<1>6. v = WithTicks(w, Append(w.ticks, t0))
  BY <1>1 DEF SetRequestSocket, WithTicks, WorldType
<1>7. /\ v \in WorldType /\ v.pool = w.pool /\ v.conn = w.conn
      /\ ToSet(v.ticks) = ToSet(w.ticks) \cup {t0} /\ Ordered(v.ticks)
  <2>1. Append(w.ticks, t0) \in Seq(TickType)
    BY <1>5
  <2>2. PICK q \in Seq(TickType) : q = Append(w.ticks, t0)
    BY <2>1
  <2>3. v \in WorldType /\ v.pool = w.pool /\ v.conn = w.conn /\ v.ticks = q
    <3>1. v = WithTicks(w, q)
      BY <2>2, <1>6
    <3> QED
      BY <3>1, WithTicksType
  <2> QED
    BY <2>2, <2>3, <1>5
<1>8. Near(w, v, rq, rq, ka, ka, None, None)
  BY <1>2, <1>7 DEF Near
<1>9. TickOK(v, rq, ka, og, t0)
  <2>1. OnSocketOK(v, rq, ka, og, r, k)
    BY <1>2, <1>7 DEF OnSocketOK, Vacant, Unclosed
  <2> QED
    BY <2>1, <1>2 DEF TickOK
<1>10. ~Queued(v, r)
  BY <1>7 DEF Unplaced, Queued
<1>11. Safe(v, rq, ka, og)
  <2>1. \A t \in ToSet(v.ticks) : \/ t \in ToSet(w.ticks) /\ Apart(t, None, None)
                                  \/ TickOK(v, rq, ka, og, t)
    BY <1>7, <1>9 DEF Apart
  <2>2. \A t \in ToSet(v.ticks) : \/ t \in ToSet(w.ticks)
                                  \/ t.fn \notin {"onSocket", "hangUp"}
                                  \/ ~Queued(v, t.req)
    BY <1>2, <1>7, <1>10
  <2> QED
    BY <2>1, <2>2, <1>2, <1>7, <1>8, NearSafe
<1>12. Keeps(w, v, rq, og)
  <2>1. Spares(w, v, rq, rq, og, None, None)
    BY <1>7, <1>8, NearSpares
  <2> QED
    BY <2>1, <1>2 DEF Keeps, Spares
<1>13. Kept(v, rq, og, r)
  BY <1>2, <1>7 DEF Kept
<1> QED
  BY <1>7, <1>11, <1>12, <1>13

\* From w to v only request r has entered a queue.
Enters(w, v, r) ==
    /\ v \in WorldType /\ v.conn = w.conn /\ v.ticks = w.ticks
    /\ v.pool.sockets = w.pool.sockets /\ v.pool.freeSockets = w.pool.freeSockets
    /\ \A q \in Requests : Queued(v, q) <=> Queued(w, q) \/ q = r
    /\ \A m \in Origins : NoRepeats(v.pool.requests[m])

LEMMA AppendedRequest ==
  ASSUME NEW S, NEW q \in Seq(S), NEW r \in S, NoRepeats(q),
         \A i \in 1..Len(q) : q[i] # r
  PROVE  /\ NoRepeats(Append(q, r))
         /\ \A x : (\E i \in 1..Len(Append(q, r)) : Append(q, r)[i] = x)
                   <=> (\E i \in 1..Len(q) : q[i] = x) \/ x = r
<1> DEFINE p == Append(q, r)
<1>1. /\ Len(p) = Len(q) + 1 /\ p[Len(q) + 1] = r /\ Len(q) \in Nat
      /\ \A i \in 1..Len(q) : p[i] = q[i]
  OBVIOUS
<1> HIDE DEF p
<1>2. \A i \in 1..Len(p) : (i \in 1..Len(q) /\ p[i] = q[i]) \/ (i = Len(q) + 1 /\ p[i] = r)
  BY <1>1
<1>3. NoRepeats(p)
  BY <1>2 DEF NoRepeats
<1>4. ASSUME NEW x
      PROVE  (\E i \in 1..Len(p) : p[i] = x) <=> (\E i \in 1..Len(q) : q[i] = x) \/ x = r
  <2>1. \A i \in 1..Len(q) : i \in 1..Len(p)
    BY <1>1
  <2>2. Len(q) + 1 \in 1..Len(p)
    BY <1>1
  <2> QED
    BY <2>1, <2>2, <1>1, <1>2
<1> QED
  BY <1>3, <1>4 DEF p

LEMMA EnqueueEffect ==
  ASSUME NEW w, NEW og, WorldOK(w, og), NEW r \in Requests, NEW o \in Origins, og[r] = o,
         Unplaced(w, r), \A m \in Origins : NoRepeats(w.pool.requests[m]),
         NEW v, v = Enqueue(w, r, o)
  PROVE  Enters(w, v, r)
<1>1. /\ w \in WorldType /\ w.pool \in PoolType
      /\ w.pool.requests \in [Origins -> Seq(Requests)]
  BY DEF WorldOK, WorldType, PoolType
<1>2. PICK n : n = GetName(o)
  OBVIOUS
<1>3. n \in Origins
  BY <1>2, GetNameType
<1>4. PICK a : a = [w.pool.requests EXCEPT ![n] = Append(@, r)]
  OBVIOUS
<1>5. PICK k : k = IF w.pool.requests[n] = <<>> THEN Append(w.pool.keys, n) ELSE w.pool.keys
  OBVIOUS
<1>6. PICK p : p = [w.pool EXCEPT !.requests = a, !.keys = k]
  OBVIOUS
<1>7. p.requests = a /\ p.sockets = w.pool.sockets /\ p.freeSockets = w.pool.freeSockets
  BY <1>1, <1>6 DEF PoolType
<1>8. v = [w EXCEPT !.pool = p]
  BY <1>1, <1>2, <1>4, <1>5, <1>6 DEF Enqueue, WorldType, PoolType
<1>9. v.pool = p /\ v.conn = w.conn /\ v.ticks = w.ticks
  BY <1>1, <1>8 DEF WorldType
<1>10. v \in WorldType
  BY EnqueueOK DEF WorldOK
<1>11. a[n] = Append(w.pool.requests[n], r) /\ \A m \in Origins : m # n => a[m] = w.pool.requests[m]
  BY <1>1, <1>3, <1>4
<1>12. /\ NoRepeats(a[n])
       /\ \A x : (\E i \in 1..Len(a[n]) : a[n][i] = x)
                 <=> (\E i \in 1..Len(w.pool.requests[n]) : w.pool.requests[n][i] = x) \/ x = r
  <2>1. w.pool.requests[n] \in Seq(Requests) /\ NoRepeats(w.pool.requests[n])
    BY <1>1, <1>3
  <2>2. \A i \in 1..Len(w.pool.requests[n]) : w.pool.requests[n][i] # r
    BY <1>3 DEF Unplaced, Queued
  <2> QED
    BY <2>1, <2>2, <1>11, AppendedRequest
<1>13. \A m \in Origins : NoRepeats(a[m])
  BY <1>11, <1>12
<1>14. ASSUME NEW q \in Requests
       PROVE  Queued(v, q) <=> Queued(w, q) \/ q = r
  <2>1. \A m \in Origins : m # n =>
           ((\E i \in 1..Len(a[m]) : a[m][i] = q)
            <=> (\E i \in 1..Len(w.pool.requests[m]) : w.pool.requests[m][i] = q))
    BY <1>11
  <2>2. Queued(v, q) <=> \E m \in Origins : \E i \in 1..Len(a[m]) : a[m][i] = q
    BY <1>7, <1>9 DEF Queued
  <2>3. (\E i \in 1..Len(a[n]) : a[n][i] = q)
        <=> (\E i \in 1..Len(w.pool.requests[n]) : w.pool.requests[n][i] = q) \/ q = r
    BY <1>12
  <2> QED
    BY <2>1, <2>2, <2>3, <1>3 DEF Queued
<1> QED
  BY <1>7, <1>9, <1>10, <1>13, <1>14 DEF Enters

LEMMA EntersSafe ==
  ASSUME NEW w \in WorldType, NEW rq, NEW ka, NEW og, NEW r \in Requests,
         Safe(w, rq, ka, og), Unplaced(w, r), Untouched(rq[r]),
         NEW v, Enters(w, v, r), QueuedByName(v, og)
  PROVE  Safe(v, rq, ka, og) /\ Keeps(w, v, rq, og) /\ Kept(v, rq, og, r)
<1>1. \A n \in Origins, s \in Sockets : ListedOK(v, n, s)
  BY DEF Safe, ListedOK, Enters
<1>2. \A s \in Sockets : SocketOK(v, rq, s)
  BY DEF Safe, SocketOK, Enters
<1>3. Ordered(v.ticks) /\ \A t \in ToSet(v.ticks) : TickOK(v, rq, ka, og, t)
  BY DEF Safe, Enters, TickOK, OnSocketOK, EmitFreeOK, HangUpOK, ErrorOK, CloseOK
<1>4. \A q \in Requests : ReqOK(v, rq, og, q)
  BY DEF Safe, ReqOK, Attached, Enters
<1>5. \A q \in Requests : QueueOK(v, rq, q)
  BY DEF Safe, QueueOK, Enters, Unplaced
<1>6. \A n \in Origins : NoRepeats(v.pool.requests[n])
  BY DEF Enters
<1>7. \A z \in Sockets : Heard(w, z) => Heard(v, z)
  BY DEF Heard, Enters
<1>8. \A q \in Requests : Kept(w, rq, og, q) => Kept(v, rq, og, q)
  BY DEF Kept, Enters, Attached
<1>9. Kept(v, rq, og, r)
  BY DEF Kept, Enters
<1> QED
  BY <1>1, <1>2, <1>3, <1>4, <1>5, <1>6, <1>7, <1>8, <1>9 DEF Safe, Keeps

LEMMA RequestSound ==
  ASSUME IInv, IInv', Sound,
         NEW r \in Requests, NEW o \in Origins, NEW e \in EndsAtOnce, Request(r, o, e)
  PROVE  Sound'
<1>1. /\ World \in WorldType /\ WorldOK(World, origin)
      /\ req \in ReqMap /\ req' \in ReqMap /\ shouldKeepAlive \in KeepMap
      /\ shouldKeepAlive' \in KeepMap /\ origin \in OriginMap /\ origin' \in OriginMap
  BY Typed DEF IInv, ReqMap, KeepMap
<1>2. /\ origin[r] = None /\ origin' = [origin EXCEPT ![r] = o]
      /\ shouldKeepAlive' = [shouldKeepAlive EXCEPT ![r] = KeepAlive \/ MaxSockets # 0]
      /\ req' = [req EXCEPT ![r].finished = e]
      /\ ~Underloaded(World, o) \/ Fresh(World) # {}
      /\ Become(AddRequest(World, r, o))
  BY DEF Request, Made
<1>3. Starts(req, req', shouldKeepAlive, shouldKeepAlive', origin, origin', r, o)
  BY <1>1, <1>2 DEF Starts, ReqMap, ReqType, KeepMap, OriginMap
<1>4. /\ Safe(World, req', shouldKeepAlive', origin') /\ Unplaced(World, r)
      /\ Untouched(req'[r]) /\ \A z \in Sockets : Heard(World, z)
      /\ \A q \in Requests : q # r => Kept(World, req', origin', q)
  BY <1>1, <1>3, StartsSafe DEF Sound
<1>5. origin'[r] = o
  BY <1>3 DEF Starts
<1>6. WorldOK(World, origin')
  <2>1. QueuedByName(World, origin')
    BY <1>4 DEF Safe
  <2>2. TicksByName(World, origin')
    BY <1>1, <1>3, AgentAssumption DEF WorldOK, TicksByName, Starts
  <2> QED
    BY <1>1, <2>1, <2>2 DEF WorldOK
<1>7. CASE Underloaded(World, o)
  <2>1. PICK k : k = CHOOSE x \in Fresh(World) : TRUE
    OBVIOUS
  <2>2. k \in Fresh(World) /\ k \in Sockets
    BY <2>1, <1>2, <1>7 DEF Fresh
  <2>3. PICK u : u = NewSocket(World, k, o)
    OBVIOUS
  <2>4. PICK v : v = SetRequestSocket(u, r, k)
    OBVIOUS
  <2>5. AddRequest(World, r, o) = v
    BY <2>1, <2>3, <2>4, <1>7 DEF AddRequest
  <2>6. Makes(World, u, k, o)
    BY <2>2, <2>3, <1>1, MakesEffect
  <2>7. /\ Safe(u, req', shouldKeepAlive', origin') /\ Vacant(u, req', shouldKeepAlive', k)
        /\ \A z \in Sockets : z # k /\ Heard(World, z) => Heard(u, z)
        /\ \A q \in Requests : Kept(World, req', origin', q) => Kept(u, req', origin', q)
    BY <2>2, <2>6, <1>1, <1>4, MakesSafe
  <2>8. u \in WorldType /\ Unplaced(u, r)
    BY <2>6, <1>4 DEF Makes, Unplaced, Queued
  <2>9. /\ v \in WorldType /\ Safe(v, req', shouldKeepAlive', origin')
        /\ Keeps(u, v, req', origin') /\ Kept(v, req', origin', r)
    BY <2>2, <2>4, <2>7, <2>8, <1>1, <1>4, <1>5, HandedSafe
  <2>10. Heard(v, k)
    <3>1. /\ Tick("onSocket", r, k).fn = "onSocket" /\ Tick("onSocket", r, k).sock = k
          /\ Tick("onSocket", r, k) \in TickType
      BY <2>2, TickFields
    <3>2. v = WithTicks(u, Append(u.ticks, Tick("onSocket", r, k))) /\ u.ticks \in Seq(TickType)
      BY <2>4, <2>8 DEF SetRequestSocket, WithTicks, WorldType
    <3>3. Tick("onSocket", r, k) \in ToSet(v.ticks)
      <4>1. Append(u.ticks, Tick("onSocket", r, k)) \in Seq(TickType)
        BY <3>1, <3>2, AppendedTick
      <4>2. v.ticks = Append(u.ticks, Tick("onSocket", r, k))
        BY <4>1, <3>2, <2>8, WithTicksType
      <4> QED
        BY <4>2, <3>1, <3>2, AppendedTick
    <3> QED
      BY <3>1, <3>3 DEF Heard, Taking
  <2>11. Accounts(v, req', shouldKeepAlive', origin')
    BY <2>7, <2>9, <2>10, <1>4 DEF Accounts, Keeps
  <2> QED
    BY <2>5, <2>9, <2>11, <1>2, Becomes
<1>8. CASE ~Underloaded(World, o)
  <2>1. PICK v : v = Enqueue(World, r, o)
    OBVIOUS
  <2>2. AddRequest(World, r, o) = v
    BY <2>1, <1>8 DEF AddRequest
  <2>3. Enters(World, v, r)
    BY <2>1, <1>4, <1>5, <1>6, EnqueueEffect DEF Safe
  <2>4. v \in WorldType /\ QueuedByName(v, origin')
    BY <2>1, <1>5, <1>6, EnqueueOK DEF WorldOK
  <2>5. /\ Safe(v, req', shouldKeepAlive', origin')
        /\ Keeps(World, v, req', origin') /\ Kept(v, req', origin', r)
    BY <2>3, <2>4, <1>1, <1>4, EntersSafe
  <2>6. Accounts(v, req', shouldKeepAlive', origin')
    BY <2>5, <1>4 DEF Accounts, Keeps
  <2> QED
    BY <2>2, <2>4, <2>6, <1>2, Becomes
<1> QED
  BY <1>7, <1>8


-----------------------------------------------------------------------------
(* The program destroys the agent. *)

\* From w to v live sockets are destroyed.
Kills(w, v) ==
    /\ v \in WorldType /\ v.pool = w.pool
    /\ \A z \in Sockets :
          \/ v.conn[z] = w.conn[z]
          \/ Live(w, z) /\ v.conn[z] = WithState(w.conn[z], "destroyed")

LEMMA KillsSafe ==
  ASSUME NEW w \in WorldType, NEW v, Kills(w, v),
         NEW rq \in ReqMap, NEW ka \in KeepMap, NEW og, Accounts(w, rq, ka, og),
         Ordered(v.ticks), \A t \in ToSet(w.ticks) : t \in ToSet(v.ticks),
         \A t \in ToSet(v.ticks) : \/ t \in ToSet(w.ticks)
                                   \/ t.fn = "close" /\ CloseOK(v, t.sock)
  PROVE  Accounts(v, rq, ka, og)
<1>1. Safe(w, rq, ka, og) /\ v \in WorldType /\ v.pool = w.pool
  BY DEF Accounts, Kills
<1>2. ASSUME NEW z \in Sockets
      PROVE  /\ v.conn[z].message = w.conn[z].message
             /\ v.conn[z].listeners = w.conn[z].listeners
             /\ v.conn[z].target = w.conn[z].target
             /\ v.conn[z].hadError = w.conn[z].hadError
             /\ \/ v.conn[z].state = w.conn[z].state
                \/ v.conn[z].state = "destroyed" /\ w.conn[z].state \in {"open", "ended"}
  <2>1. w.conn[z] \in ConnType
    BY DEF WorldType
  <2> QED
    BY <2>1, WithStateType DEF Kills, Live
<1>3. \A n \in Origins, z \in Sockets : ListedOK(v, n, z)
  BY <1>1, <1>2 DEF Safe, ListedOK, Unclosed
<1>4. ASSUME NEW z \in Sockets
      PROVE  SocketOK(v, rq, z)
  <2>1. SocketOK(w, rq, z)
    BY <1>1 DEF Safe
  <2> QED
    BY <2>1, <1>2 DEF SocketOK
<1>5. ASSUME NEW t \in ToSet(v.ticks), t \in ToSet(w.ticks)
      PROVE  TickOK(v, rq, ka, og, t)
  <2>1. TickOK(w, rq, ka, og, t)
    BY <1>1, <1>5 DEF Safe
  <2>2. t.fn = "onSocket" => OnSocketOK(v, rq, ka, og, t.req, t.sock)
    BY <2>1, <1>2 DEF TickOK, OnSocketOK, Unclosed, Reusable, Bare
  <2>3. t.fn = "emitFree" => EmitFreeOK(v, rq, ka, t.req, t.sock)
    BY <2>1, <1>2 DEF TickOK, EmitFreeOK, Bare
  <2>4. t.fn = "error" => ErrorOK(v, t.sock)
    BY <2>1, <1>2 DEF TickOK, ErrorOK
  <2>5. t.fn = "close" => CloseOK(v, t.sock)
    BY <2>1, <1>2 DEF TickOK, CloseOK
  <2>6. /\ t.fn = "hangUp" => HangUpOK(rq, og, t.req)
        /\ t.fn = "end" => t.req \in Requests /\ rq[t.req].res = "read"
    BY <2>1 DEF TickOK
  <2> QED
    BY <2>2, <2>3, <2>4, <2>5, <2>6 DEF TickOK
<1>6. \A t \in ToSet(v.ticks) : TickOK(v, rq, ka, og, t)
  <2>1. \A t \in ToSet(v.ticks) : t.fn = "close" /\ CloseOK(v, t.sock)
                                  => TickOK(v, rq, ka, og, t)
    BY DEF TickOK
  <2> QED
    BY <2>1, <1>5
<1>7. \A q \in Requests : Attached(v, rq, q) <=> Attached(w, rq, q)
  BY <1>2 DEF Attached
<1>8. \A q \in Requests : ReqOK(v, rq, og, q)
  BY <1>1, <1>7 DEF Safe, ReqOK
<1>9. \A q \in Requests : Queued(v, q) <=> Queued(w, q)
  BY <1>1 DEF Queued
<1>10. \A q \in Requests : QueueOK(v, rq, q)
  <2>1. \A t \in ToSet(v.ticks) : t.fn \in {"onSocket", "hangUp"} => t \in ToSet(w.ticks)
    OBVIOUS
  <2> QED
    BY <2>1, <1>1, <1>9 DEF Safe, QueueOK
<1>11. (\A n \in Origins : NoRepeats(v.pool.requests[n])) /\ QueuedByName(v, og)
  BY <1>1 DEF Safe, QueuedByName
<1>12. \A z \in Sockets : Heard(v, z)
  BY <1>2 DEF Accounts, Heard
<1>13. \A q \in Requests : Kept(v, rq, og, q)
  <2>1. \A z \in Sockets : Unclosed(w.conn[z]) => Unclosed(v.conn[z])
    BY <1>2 DEF Unclosed
  <2> QED
    BY <2>1, <1>7, <1>9 DEF Accounts, Kept, Attached
<1> QED
  BY <1>3, <1>4, <1>6, <1>8, <1>10, <1>11, <1>12, <1>13 DEF Accounts, Safe

\* A queue that clashes with no tick before it.
LEMMA JoinedTicks ==
  ASSUME NEW S, NEW q \in Seq(S), NEW p \in Seq(S), Ordered(q), Ordered(p),
         \A i \in 1..Len(q), j \in 1..Len(p) : ~Clash(q[i], p[j])
  PROVE  /\ q \o p \in Seq(S) /\ Ordered(q \o p)
         /\ \A t \in ToSet(q) : t \in ToSet(q \o p)
         /\ \A t \in ToSet(q \o p) : t \in ToSet(q) \/ \E j \in 1..Len(p) : t = p[j]
<1> DEFINE u == q \o p
<1>1. /\ u \in Seq(S) /\ Len(u) = Len(q) + Len(p) /\ Len(q) \in Nat /\ Len(p) \in Nat
      /\ \A i \in 1..Len(q) : u[i] = q[i]
  OBVIOUS
<1>2. \A i \in 1..Len(u) : i \notin 1..Len(q) => /\ i - Len(q) \in 1..Len(p)
                                                 /\ u[i] = p[i - Len(q)]
  OBVIOUS
<1> HIDE DEF u
<1>3. ASSUME NEW i \in 1..Len(u), NEW j \in 1..Len(u), i < j
      PROVE  ~Clash(u[i], u[j])
  <2>1. CASE j \in 1..Len(q)
    <3>1. i \in 1..Len(q)
      BY <2>1, <1>1, <1>3
    <3> QED
      BY <2>1, <3>1, <1>1, <1>3 DEF Ordered
  <2>2. CASE i \in 1..Len(q) /\ j \notin 1..Len(q)
    BY <2>2, <1>1, <1>2
  <2>3. CASE i \notin 1..Len(q) /\ j \notin 1..Len(q)
    <3>1. /\ i - Len(q) \in 1..Len(p) /\ u[i] = p[i - Len(q)]
          /\ j - Len(q) \in 1..Len(p) /\ u[j] = p[j - Len(q)]
          /\ i - Len(q) < j - Len(q)
      BY <2>3, <1>1, <1>2, <1>3
    <3> QED
      BY <3>1 DEF Ordered
  <2> QED
    BY <2>1, <2>2, <2>3
<1>4. Ordered(u)
  BY <1>3 DEF Ordered
<1>5. \A t \in ToSet(q) : t \in ToSet(u)
  <2>1. \A i \in 1..Len(q) : i \in 1..Len(u)
    BY <1>1
  <2> QED
    BY <2>1, <1>1 DEF ToSet
<1>6. \A t \in ToSet(u) : t \in ToSet(q) \/ \E j \in 1..Len(p) : t = p[j]
  BY <1>1, <1>2 DEF ToSet
<1> QED
  BY <1>1, <1>4, <1>5, <1>6 DEF u

LEMMA AgentDestroySound ==
  ASSUME IInv, IInv', Sound, AgentDestroy
  PROVE  Sound'
<1>1. /\ World \in WorldType /\ World.pool = pool /\ World.conn = conn /\ World.ticks = ticks
      /\ pool \in PoolType /\ conn \in [Sockets -> ConnType] /\ ticks \in Seq(TickType)
      /\ req \in ReqMap /\ shouldKeepAlive \in KeepMap
  BY Typed DEF WorldType
<1>2. PICK live : live = {s \in UNION {pool.sockets[n] \cup pool.freeSockets[n] : n \in Origins} :
                            Live(World, s)}
  OBVIOUS
<1>3. /\ conn' = [s \in Sockets |-> IF s \in live THEN [conn[s] EXCEPT !.state = "destroyed"]
                                    ELSE conn[s]]
      /\ \E q \in SetToSeqs(live) :
            ticks' = IF CloseByTick
                     THEN ticks \o [i \in 1..Len(q) |-> Tick("close", None, q[i])]
                     ELSE ticks
      /\ UNCHANGED <<pool, origin, shouldKeepAlive, req, crashed>>
  BY <1>2 DEF AgentDestroy
<1>4. live \in SUBSET Sockets /\ \A s \in live : Live(World, s)
  <2>1. /\ pool.sockets \in [Origins -> SUBSET Sockets]
        /\ pool.freeSockets \in [Origins -> SUBSET Sockets]
    BY <1>1 DEF PoolType
  <2> QED
    BY <2>1, <1>2
<1>5. PICK q \in SetToSeqs(live) :
            ticks' = IF CloseByTick
                     THEN ticks \o [i \in 1..Len(q) |-> Tick("close", None, q[i])]
                     ELSE ticks
  BY <1>3
<1>6. /\ Len(q) \in Nat /\ \A i \in 1..Len(q) : q[i] \in live
      /\ \A i, j \in 1..Len(q) : i # j => q[i] # q[j]
  <2>1. PICK c : c = Cardinality(live)
    OBVIOUS
  <2>2. c \in Nat
    BY <2>1, <1>4, AgentAssumption, FS_Subset, FS_CardinalityType
  <2>3. q \in [1..c -> live] /\ \A i, j \in 1..c : i # j => q[i] # q[j]
    BY <2>1 DEF SetToSeqs
  <2>4. Len(q) = c
    BY <2>2, <2>3
  <2> QED
    BY <2>2, <2>3, <2>4
<1>7. PICK z : z = [i \in 1..Len(q) |-> Tick("close", None, q[i])]
  OBVIOUS
<1>8. ASSUME NEW i \in 1..Len(q)
      PROVE  /\ Tick("close", None, q[i]) \in TickType
             /\ Tick("close", None, q[i]).fn = "close"
             /\ Tick("close", None, q[i]).sock = q[i]
  <2>1. q[i] \in Sockets \cup {None}
    BY <1>4, <1>6
  <2> QED
    BY <2>1, TickFields
<1>9. /\ z \in Seq(TickType) /\ Len(z) = Len(q)
      /\ \A i \in 1..Len(z) : z[i].fn = "close" /\ z[i].sock = q[i]
  <2>1. z \in Seq(TickType) /\ Len(z) = Len(q)
    BY <1>6, <1>7, <1>8
  <2> QED
    BY <2>1, <1>7, <1>8
<1>10. World' \in WorldType /\ World'.ticks = ticks' /\ World'.conn = conn' /\ World'.pool = pool
  <2>1. World' \in WorldType
    BY DEF IInv, WorldOK
  <2> QED
    BY <2>1, <1>3 DEF World
<1>11. Kills(World, World')
  <2>1. ASSUME NEW s \in Sockets
        PROVE  \/ conn'[s] = conn[s]
               \/ Live(World, s) /\ conn'[s] = WithState(conn[s], "destroyed")
    BY <1>3, <1>4 DEF WithState
  <2> QED
    BY <2>1, <1>1, <1>10 DEF Kills
<1>12. Ordered(ticks) /\ \A t \in ToSet(ticks) : t.fn = "close" => ~Live(World, t.sock)
  BY <1>1 DEF Sound, Accounts, Safe, TickOK, CloseOK, Live
<1>13. /\ Ordered(ticks') /\ \A t \in ToSet(ticks) : t \in ToSet(ticks')
       /\ \A t \in ToSet(ticks') : \/ t \in ToSet(ticks)
                                   \/ t.fn = "close" /\ CloseOK(World', t.sock)
  <2>1. CASE CloseByTick
    <3>1. ticks' = ticks \o z
      BY <2>1, <1>5, <1>7
    <3>2. Ordered(z)
      BY <1>6, <1>9 DEF Ordered, Clash
    <3>3. \A i \in 1..Len(ticks), j \in 1..Len(z) : ~Clash(ticks[i], z[j])
      <4> SUFFICES ASSUME NEW i \in 1..Len(ticks), NEW j \in 1..Len(z)
                   PROVE  ~Clash(ticks[i], z[j])
        OBVIOUS
      <4>1. ticks[i] \in ToSet(ticks)
        BY DEF ToSet
      <4>2. ticks[i].fn = "close" => ~Live(World, ticks[i].sock)
        BY <4>1, <1>12
      <4>3. z[j].fn = "close" /\ Live(World, z[j].sock)
        BY <1>4, <1>6, <1>9
      <4> QED
        BY <4>2, <4>3 DEF Clash
    <3>4. \A j \in 1..Len(z) : z[j].fn = "close" /\ CloseOK(World', z[j].sock)
      <4>1. \A s \in live : s \in Sockets /\ conn'[s].state = "destroyed"
        BY <1>1, <1>3, <1>4 DEF ConnType
      <4> QED
        BY <4>1, <1>6, <1>9, <1>10 DEF CloseOK
    <3>5. /\ Ordered(ticks \o z) /\ \A t \in ToSet(ticks) : t \in ToSet(ticks \o z)
          /\ \A t \in ToSet(ticks \o z) : t \in ToSet(ticks) \/ \E j \in 1..Len(z) : t = z[j]
      BY <3>2, <3>3, <1>1, <1>9, <1>12, JoinedTicks
    <3> QED
      BY <3>1, <3>4, <3>5
  <2>2. CASE ~CloseByTick
    BY <2>2, <1>5, <1>12
  <2> QED
    BY <2>1, <2>2
<1>14. Accounts(World', req, shouldKeepAlive, origin)
  BY <1>1, <1>10, <1>11, <1>13, KillsSafe DEF Sound
<1> QED
  BY <1>3, <1>14 DEF Sound


-----------------------------------------------------------------------------
(* The account holds in every reachable state. *)

LEMMA InitSound ==
  ASSUME Init
  PROVE  Sound
<1>1. /\ World \in WorldType /\ World.pool = pool /\ World.conn = conn /\ World.ticks = ticks
  BY InitOK, Typed
<1>2. /\ ticks = <<>> /\ ToSet(ticks) = {}
      /\ \A n \in Origins : /\ pool.requests[n] = <<>> /\ pool.sockets[n] = {}
                            /\ pool.freeSockets[n] = {}
  BY DEF Init, AgentInit, ToSet
<1>3. \A s \in Sockets : /\ conn[s].state = "unused" /\ conn[s].listeners = {}
  BY DEF Init, AgentInit
<1>4. \A r \in Requests : Untouched(req[r]) /\ origin[r] = None
  BY DEF Init, AgentInit, Untouched
<1>5. \A r \in Requests : ~Queued(World, r)
  BY <1>1, <1>2 DEF Queued
<1>6. \A n \in Origins, s \in Sockets : ListedOK(World, n, s)
  BY <1>1, <1>2 DEF ListedOK
<1>7. \A s \in Sockets : SocketOK(World, req, s)
  BY <1>1, <1>3 DEF SocketOK
<1>8. /\ Ordered(World.ticks)
      /\ \A t \in ToSet(World.ticks) : TickOK(World, req, shouldKeepAlive, origin, t)
  BY <1>1, <1>2 DEF Ordered
<1>9. \A r \in Requests : ReqOK(World, req, origin, r) /\ QueueOK(World, req, r)
  BY <1>4, <1>5 DEF ReqOK, QueueOK, Untouched
<1>10. (\A n \in Origins : NoRepeats(World.pool.requests[n])) /\ QueuedByName(World, origin)
  BY <1>1, <1>2 DEF NoRepeats, QueuedByName
<1>11. /\ \A s \in Sockets : Heard(World, s)
       /\ \A r \in Requests : Kept(World, req, origin, r)
  BY <1>1, <1>3, <1>4 DEF Heard, Kept
<1> QED
  BY <1>6, <1>7, <1>8, <1>9, <1>10, <1>11 DEF Sound, Accounts, Safe

LEMMA NextSound ==
  ASSUME IInv, IInv', Sound, [Next]_vars
  PROVE  Sound'
<1>1. CASE UNCHANGED vars
  <2>1. Become(World) /\ UNCHANGED <<origin, shouldKeepAlive, req>>
    BY <1>1 DEF vars, agentVars, Become, World
  <2>2. World \in WorldType
    BY Typed
  <2> QED
    BY <2>1, <2>2, BecomesPlain DEF Sound
<1>2. CASE Program
  <2>1. ASSUME NEW r \in Requests, NEW o \in Origins, NEW e \in EndsAtOnce, Request(r, o, e)
        PROVE  Sound'
    BY <2>1, RequestSound
  <2>2. ASSUME NEW r \in Requests,
               End(r) \/ Abort(r) \/ Destroy(r, TRUE) \/ Destroy(r, FALSE) \/ ReadResponse(r)
        PROVE  Sound'
    BY <2>2, EndSound, DestroyCallSound, ReadResponseSound
  <2>3. CASE AgentDestroy
    BY <2>3, AgentDestroySound
  <2> QED
    BY <1>2, <2>1, <2>2, <2>3 DEF Program
<1>3. CASE RunTick
  <2>1. ASSUME NEW r \in Requests, NEW s \in Sockets,
               RunOnSocket(r, s) \/ RunOnSocketDestroyed(r, s) \/ RunEmitFree(r, s)
        PROVE  Sound'
    BY <2>1, RunOnSocketSound, RunOnSocketDestroyedSound, RunEmitFreeSound
  <2>2. ASSUME NEW r \in Requests, RunEnd(r) \/ RunHangUp(r)
        PROVE  Sound'
    BY <2>2, RunEndSound, RunHangUpSound
  <2>3. ASSUME NEW s \in Sockets, RunClose(s) \/ RunError(s)
        PROVE  Sound'
    BY <2>3, RunCloseSound, RunErrorSound
  <2> QED
    BY <1>3, <2>1, <2>2, <2>3 DEF RunTick
<1>4. CASE Network
  <2>1. ASSUME NEW s \in Sockets, NEW k \in BOOLEAN, NEW b \in {"open", "toEnd"},
               ResponseHead(s, k, b)
        PROVE  Sound'
    BY <2>1, ResponseHeadSound
  <2>2. ASSUME NEW s \in Sockets, NEW d \in BOOLEAN, ResponseComplete(s, d) \/ Upgrade(s, d)
        PROVE  Sound'
    BY <2>2, ResponseCompleteSound, UpgradeSound
  <2>3. ASSUME NEW s \in Sockets, ParseError(s) \/ PeerEnd(s) \/ HandleClosed(s)
        PROVE  Sound'
    BY <2>3, ParseErrorSound, PeerEndSound, HandleClosedSound
  <2>4. ASSUME NEW s \in Sockets, SocketError(s) \/ SocketFinish(s) \/ IdleTimeout(s)
        PROVE  Sound'
    BY <2>4, DestroyStepSound
  <2> QED
    BY <1>4, <2>1, <2>2, <2>3, <2>4 DEF Network
<1> QED
  BY <1>1, <1>2, <1>3, <1>4 DEF Next

\* The invariant of the client: types, names and accounts.
CInv == IInv /\ Sound

LEMMA AlwaysSound == Spec => []CInv
<1>1. Init => CInv
  BY InitOK, InitSound DEF CInv
<1>2. CInv /\ [Next]_vars => CInv'
  BY NextOK, NextSound DEF CInv
<1> QED
  BY <1>1, <1>2, PTL DEF Spec

-----------------------------------------------------------------------------
(* What follows from it. *)

\* A tick that takes a socket is the only one, finds no request's and no idle
\* listeners on it.
LEMMA OneTaker ==
  ASSUME CInv, NEW s \in Sockets, NEW t \in ToSet(ticks), Taking(t, s)
  PROVE  /\ Bare(conn[s])
         /\ \A u \in ToSet(ticks) : Taking(u, s) => u = t
<1>1. World.ticks = ticks /\ World.conn = conn /\ ticks \in Seq(TickType)
  BY Typed DEF CInv
<1>2. Ordered(ticks) /\ TickOK(World, req, shouldKeepAlive, origin, t)
  BY <1>1 DEF CInv, Sound, Accounts, Safe
<1>3. Bare(conn[s])
  BY <1>1, <1>2 DEF TickOK, OnSocketOK, EmitFreeOK, Reusable, Taking
<1>4. ASSUME NEW u \in ToSet(ticks), Taking(u, s)
      PROVE  u = t
  <2>1. PICK i \in 1..Len(ticks) : t = ticks[i]
    BY <1>1 DEF ToSet
  <2>2. PICK j \in 1..Len(ticks) : u = ticks[j]
    BY <1>1 DEF ToSet
  <2>3. ~(i < j) /\ ~(j < i)
    BY <2>1, <2>2, <1>2, <1>4 DEF Ordered, Clash, Taking
  <2>4. i = j
    BY <2>3
  <2> QED
    BY <2>1, <2>2, <2>4
<1> QED
  BY <1>3, <1>4

\* A socket serves one request at a time, and none while it idles, whatever
\* the program, the server and the network do and in whatever order ticks and
\* events of any number of requests come: onSocketNT, emitFreeNT and the
\* listeners of client.js never share a socket between two requests.
THEOREM OneRequestPerSocket == Spec => []SocketExclusive
<1>1. ASSUME CInv, NEW s \in Sockets
      PROVE  /\ Cardinality(Users(s)) <= 1
             /\ IsIdle(s) => Users(s) = {}
  <2>1. World.ticks = ticks /\ World.conn = conn /\ World.pool = pool
    BY <1>1, Typed DEF CInv
  <2>2. PendingFor(s) = {t \in ToSet(ticks) : Taking(t, s)}
    BY DEF PendingFor, Taking
  <2>3. CASE PendingFor(s) = {}
    <3>1. Users(s) = {} \/ (Has(s, "request") /\ Users(s) = {conn[s].message})
      BY <2>3 DEF Users
    <3>2. IsIdle(s) => ~Has(s, "request")
      <4>1. SocketOK(World, req, s) /\ \A n \in Origins : ListedOK(World, n, s)
        BY <1>1 DEF CInv, Sound, Accounts, Safe
      <4> QED
        BY <4>1, <2>1 DEF IsIdle, Has, ListedOK, SocketOK
    <3>3. Cardinality(Users(s)) \in {0, 1}
      BY <3>1, FS_EmptySet, FS_Singleton
    <3> QED
      BY <3>1, <3>2, <3>3
  <2>4. CASE PendingFor(s) # {}
    <3>1. PICK t \in ToSet(ticks) : Taking(t, s)
      BY <2>2, <2>4
    <3>2. Bare(conn[s]) /\ PendingFor(s) = {t}
      BY <1>1, <2>2, <3>1, OneTaker
    <3>3. Users(s) = {t.req}
      BY <3>2 DEF Users, Bare, Has
    <3>4. Cardinality(Users(s)) = 1
      BY <3>3, FS_Singleton
    <3>5. ~IsIdle(s)
      <4>1. \A n \in Origins : ListedOK(World, n, s)
        BY <1>1 DEF CInv, Sound, Accounts, Safe
      <4> QED
        BY <4>1, <2>1, <3>2 DEF IsIdle, Bare, ListedOK
    <3> QED
      BY <3>4, <3>5
  <2> QED
    BY <2>3, <2>4
<1>2. CInv => SocketExclusive
  BY <1>1 DEF SocketExclusive
<1> QED
  BY <1>2, AlwaysSound, PTL

\* A request whose 'close' is to come is queued, in a tick, or listening for
\* the 'close' of a socket that has yet to emit it: no order of agent
\* callbacks, responses, errors and calls of the program loses one.
THEOREM NoneForgotten == Spec => []NoRequestForgotten
<1>1. ASSUME CInv, NEW r \in Requests, Made(r), ~req[r].closed
      PROVE  \/ \E n \in Origins : r \in ToSet(pool.requests[n])
             \/ \E t \in ToSet(ticks) : t.req = r
             \/ /\ req[r].socket # None /\ conn[req[r].socket].message = r
                /\ Has(req[r].socket, "request")
                /\ conn[req[r].socket].state \in {"open", "ended", "destroyed"}
  <2>1. /\ World.ticks = ticks /\ World.conn = conn /\ World.pool = pool
        /\ None \notin Sockets /\ pool \in PoolType
    BY <1>1, Typed DEF CInv, WorldType
  <2>2. Kept(World, req, origin, r)
    BY <1>1 DEF CInv, Sound, Accounts
  <2>3. Queued(World, r) => \E n \in Origins : r \in ToSet(pool.requests[n])
    <3>1. \A n \in Origins : pool.requests[n] \in Seq(Requests)
      BY <2>1 DEF PoolType
    <3>2. \A n \in Origins : \A i \in 1..Len(pool.requests[n]) :
             pool.requests[n][i] \in ToSet(pool.requests[n])
      BY <3>1 DEF ToSet
    <3> QED
      BY <3>2, <2>1 DEF Queued
  <2> QED
    BY <1>1, <2>1, <2>2, <2>3 DEF Kept, Made, Attached, Unclosed, Has
<1>2. CInv => NoRequestForgotten
  BY <1>1 DEF NoRequestForgotten
<1> QED
  BY <1>2, AlwaysSound, PTL

\* No list of the agent holds a socket that is closed or that the program was
\* given: removeSocket always comes before either.
THEOREM ForgottenWhenGone == Spec => []GoneIsForgotten
<1>1. CInv => GoneIsForgotten
  <2> SUFFICES ASSUME CInv PROVE GoneIsForgotten
    OBVIOUS
  <2>1. World.conn = conn /\ World.pool = pool
    BY Typed DEF CInv
  <2>2. \A n \in Origins, s \in Sockets : ListedOK(World, n, s)
    BY DEF CInv, Sound, Accounts, Safe
  <2> QED
    BY <2>1, <2>2 DEF GoneIsForgotten, ListedOK, Unclosed, Has
<1> QED
  BY <1>1, AlwaysSound, PTL

\* Whichever of the places in client.js that emit 'error' come together, a
\* request emits it at most once.
THEOREM OneError == Spec => []AtMostOneError
<1>1. CInv => AtMostOneError
  BY DEF CInv, Sound, Accounts, Safe, ReqOK, AtMostOneError
<1> QED
  BY <1>1, AlwaysSound, PTL

\* A live socket of the agent has an 'error' listener, or the tick that
\* attaches one or frees the socket is queued.
THEOREM GapIsClosing == Spec => []ErrorListenerGap
<1>1. CInv => ErrorListenerGap
  <2> SUFFICES ASSUME CInv PROVE ErrorListenerGap
    OBVIOUS
  <2>1. World.conn = conn /\ World.ticks = ticks
    BY Typed DEF CInv
  <2>2. \A s \in Sockets : Heard(World, s)
    BY DEF CInv, Sound, Accounts
  <2> QED
    BY <2>1, <2>2 DEF ErrorListenerGap, Heard, PendingFor, Taking, Live, Has
<1> QED
  BY <1>1, AlwaysSound, PTL


-----------------------------------------------------------------------------
(* After 'close' there is no 'error'. *)

\* The request that listens to a socket which has yet to close has yet to close.
LEMMA ListenerOpen ==
  ASSUME CInv, NEW s \in Sockets, "request" \in conn[s].listeners, Unclosed(conn[s])
  PROVE  /\ conn[s].message \in Requests /\ req[conn[s].message].closed = FALSE
<1>1. World.conn = conn /\ req \in ReqMap
  BY Typed DEF CInv
<1>2. SocketOK(World, req, s)
  BY DEF CInv, Sound, Accounts, Safe
<1>3. conn[s].message \in Requests /\ ~req[conn[s].message].closed
  BY <1>1, <1>2 DEF SocketOK, Unclosed
<1> QED
  BY <1>1, <1>3 DEF ReqMap, ReqType

LEMMA ReaderListens ==
  ASSUME CInv, NEW s \in Sockets, "reader" \in conn[s].listeners
  PROVE  "request" \in conn[s].listeners
<1>1. World.conn = conn
  BY Typed DEF CInv
<1> QED
  BY <1>1 DEF CInv, Sound, Accounts, Safe, SocketOK

\* A tick that attaches or ends a request that has no socket yet finds it open.
LEMMA OfferOpen ==
  ASSUME CInv, ticks # <<>>, NEW h, h = Head(ticks), h.fn \in {"onSocket", "hangUp"}
  PROVE  ~req[h.req].closed
<1>1. TickOK(World, req, shouldKeepAlive, origin, h)
  BY PoppedSafe DEF CInv
<1> QED
  BY <1>1 DEF TickOK, OnSocketOK, HangUpOK, Untouched

\* What the two ways of a request to end do to its errors.
LEMMA ErrsNone ==
  ASSUME NEW q \in ReqType
  PROVE  Errs(q, 0).errors = q.errors /\ Closes(q).errors = q.errors
BY DEF Errs, Closes, ReqType


LEMMA ClosedApart ==
  ASSUME CInv, NEW s \in Sockets, NEW w, w.conn = conn, Closed(w, s)
  PROVE  \A q \in Requests : req[q].closed => req'[q].errors = req[q].errors
<1>1. req \in ReqMap
  BY Typed DEF CInv
<1>2. Unclosed(conn[s])
  BY DEF Closed, Unclosed
<1>3. CASE "request" \in conn[s].listeners
  BY <1>1, <1>2, <1>3, ListenerOpen DEF Closed, Has, ReqMap
<1>4. CASE "request" \notin conn[s].listeners
  BY <1>4 DEF Closed, Has
<1> QED
  BY <1>3, <1>4

LEMMA ErrorsStay ==
  ASSUME CInv, [Next]_vars
  PROVE  \A q \in Requests : req[q].closed => req'[q].errors = req[q].errors
<1> DEFINE Stay == \A q \in Requests : req[q].closed => req'[q].errors = req[q].errors
<1>1. req \in ReqMap /\ \A q \in Requests : req[q] \in ReqType
  BY Typed DEF CInv, ReqMap
<1>2. CASE UNCHANGED vars
  BY <1>2 DEF vars
\* Calls of the program.
<1>3. ASSUME NEW r \in Requests, NEW o \in Origins, NEW e \in EndsAtOnce, Request(r, o, e)
      PROVE  Stay
  BY <1>1, <1>3 DEF Request, ReqMap, ReqType
<1>4. ASSUME NEW r \in Requests,
             \/ End(r) \/ Abort(r) \/ Destroy(r, TRUE) \/ Destroy(r, FALSE)
             \/ ReadResponse(r)
      PROVE  Stay
  BY <1>1, <1>4 DEF End, Abort, Destroy, ReadResponse, ReqMap, ReqType
<1>5. CASE AgentDestroy
  BY <1>5 DEF AgentDestroy
\* Ticks.
<1>6. ASSUME NEW r \in Requests, NEW s \in Sockets, RunOnSocket(r, s)
      PROVE  Stay
  BY <1>1, <1>6 DEF RunOnSocket, ReqMap, ReqType
<1>7. ASSUME NEW r \in Requests, NEW s \in Sockets, RunOnSocketDestroyed(r, s)
      PROVE  Stay
  <2>1. ~req[r].closed
    <3>1. PICK h : h = Head(ticks)
      OBVIOUS
    <3>2. h.fn = "onSocket" /\ h.req = r /\ ticks # <<>>
      BY <1>7, <3>1, TickFields DEF RunOnSocketDestroyed, Runs
    <3> QED
      BY <3>1, <3>2, OfferOpen
  <2>2. \A q \in Requests : q # r => req'[q] = req[q]
    BY <1>1, <1>7 DEF RunOnSocketDestroyed, ReqMap
  <2> QED
    BY <2>1, <2>2
<1>8. ASSUME NEW r \in Requests, RunHangUp(r)
      PROVE  Stay
  <2>1. ~req[r].closed
    <3>1. PICK h : h = Head(ticks)
      OBVIOUS
    <3>2. None \in Sockets \cup {None} /\ r \in Requests \cup {None}
      OBVIOUS
    <3>3. h.fn = "hangUp" /\ h.req = r /\ ticks # <<>>
      BY <1>8, <3>1, <3>2, TickFields DEF RunHangUp, Runs
    <3> QED
      BY <3>1, <3>3, OfferOpen
  <2>2. \A q \in Requests : q # r => req'[q] = req[q]
    BY <1>1, <1>8 DEF RunHangUp, ReqMap
  <2> QED
    BY <2>1, <2>2
<1>9. ASSUME NEW r \in Requests, NEW s \in Sockets, RunEmitFree(r, s)
      PROVE  Stay
  BY <1>1, <1>9, ErrsNone DEF RunEmitFree, ReqMap
<1>10. ASSUME NEW r \in Requests, RunEnd(r)
       PROVE  Stay
  BY <1>1, <1>10 DEF RunEnd, ReqMap, ReqType
<1>11. ASSUME NEW s \in Sockets, RunClose(s)
       PROVE  Stay
  <2>1. Popped.conn = conn
    BY DEF Popped, World
  <2> QED
    BY <1>11, <2>1, ClosedApart DEF RunClose
<1>12. ASSUME NEW s \in Sockets, RunError(s)
       PROVE  Stay
  <2>1. CASE "request" \in conn[s].listeners
    <3>1. Unclosed(conn[s])
      <4>1. PICK h : h = Head(ticks)
        OBVIOUS
      <4>2. None \in Requests \cup {None} /\ s \in Sockets \cup {None}
        OBVIOUS
      <4>3. h.fn = "error" /\ h.sock = s /\ ticks # <<>>
        BY <1>12, <4>1, <4>2, TickFields DEF RunError, Runs
      <4>4. TickOK(World, req, shouldKeepAlive, origin, h) /\ World.conn = conn
        BY <4>1, <4>3, PoppedSafe, Typed DEF CInv
      <4> QED
        BY <4>3, <4>4 DEF TickOK, ErrorOK, Unclosed
    <3>2. conn[s].message \in Requests /\ ~req[conn[s].message].closed
      BY <2>1, <3>1, ListenerOpen
    <3>3. \A q \in Requests : q # conn[s].message => req'[q] = req[q]
      BY <1>1, <1>12, <2>1 DEF RunError, Has, ReqMap
    <3> QED
      BY <3>2, <3>3
  <2>2. CASE "request" \notin conn[s].listeners
    BY <1>12, <2>2 DEF RunError, Has
  <2> QED
    BY <2>1, <2>2
\* Events of the network.
<1>13. ASSUME NEW s \in Sockets, NEW k \in BOOLEAN, NEW b \in {"open", "toEnd"},
              ResponseHead(s, k, b)
       PROVE  Stay
  BY <1>1, <1>13 DEF ResponseHead, ReqMap, ReqType
<1>14. ASSUME NEW s \in Sockets, NEW d \in BOOLEAN, ResponseComplete(s, d)
       PROVE  Stay
  BY <1>1, <1>14 DEF ResponseComplete, ReqMap, ReqType
<1>15. ASSUME NEW s \in Sockets, NEW d \in BOOLEAN, Upgrade(s, d)
       PROVE  Stay
  <2>1. \A q \in ReqType : [Closes(q) EXCEPT !.res = "open", !.destroyed = TRUE].errors = q.errors
    BY DEF Closes, ReqType
  <2>2. \A q \in ReqType : [q EXCEPT !.res = "open"].errors = q.errors
    BY DEF ReqType
  <2>3. PICK m : m = conn[s].message
    OBVIOUS
  <2>4. PICK x : x \in {[Closes(req[m]) EXCEPT !.res = "open", !.destroyed = TRUE],
                        [req[m] EXCEPT !.res = "open"]}
                 /\ req' = [req EXCEPT ![m] = x]
    BY <1>15, <2>3 DEF Upgrade
  <2>5. m \in Requests => x.errors = req[m].errors
    BY <1>1, <2>1, <2>2, <2>4
  <2> QED
    BY <1>1, <2>4, <2>5 DEF ReqMap
<1>16. ASSUME NEW s \in Sockets, ParseError(s) \/ (PeerEnd(s) /\ Has(s, "reader"))
       PROVE  Stay
  <2>1. "reader" \in conn[s].listeners /\ Unclosed(conn[s])
    <3>1. World.conn = conn
      BY Typed DEF CInv
    <3> QED
      BY <1>16, <3>1 DEF ParseError, PeerEnd, Reading, Has, Live, Unclosed
  <2>2. conn[s].message \in Requests /\ ~req[conn[s].message].closed
    BY <2>1, ReaderListens, ListenerOpen
  <2>3. \A q \in Requests : q # conn[s].message => req'[q] = req[q]
    BY <1>1, <1>16 DEF ParseError, PeerEnd, ReqMap
  <2> QED
    BY <2>2, <2>3
<1>17. ASSUME NEW s \in Sockets, HandleClosed(s)
       PROVE  Stay
  <2>1. World.conn = conn
    BY Typed DEF CInv
  <2> QED
    BY <1>17, <2>1, ClosedApart DEF HandleClosed
<1>18. ASSUME NEW s \in Sockets, \/ PeerEnd(s) /\ ~Has(s, "reader")
                                 \/ SocketError(s) \/ SocketFinish(s) \/ IdleTimeout(s)
       PROVE  Stay
  BY <1>18 DEF PeerEnd, SocketError, SocketFinish, IdleTimeout
<1>19. CASE Network
  <2>1. \A s \in Sockets : PeerEnd(s) => Stay
    BY <1>16, <1>18
  <2> QED
    BY <1>13, <1>14, <1>15, <1>16, <1>17, <1>18, <1>19, <2>1 DEF Network
<1>20. CASE RunTick
  BY <1>6, <1>7, <1>8, <1>9, <1>10, <1>11, <1>12, <1>20 DEF RunTick
<1>21. CASE Program
  BY <1>3, <1>4, <1>5, <1>21 DEF Program
<1> QED
  BY <1>2, <1>19, <1>20, <1>21 DEF Next

\* Once a request has emitted 'close' none of the handlers of client.js makes
\* it emit 'error' any more, whatever socket, tick or call of the program
\* still comes to it.
THEOREM SilentAfterClose == Spec => NoErrorAfterClose
<1>1. CInv /\ [Next]_vars => [\A r \in Requests : req[r].closed
                                 => req'[r].errors = req[r].errors]_vars
  BY ErrorsStay
<1> QED
  BY <1>1, AlwaysSound, PTL DEF Spec, NoErrorAfterClose


-----------------------------------------------------------------------------
(* The account of the pool: how many sockets the agent has, and that it has *)
(* one while requests wait.                                                 *)

Busy(w) == UNION {w.pool.sockets[n] : n \in Origins}
Used(w) == {s \in Sockets : w.conn[s].state # "unused"}
Waits(w) == \E n \in Origins : Len(w.pool.requests[n]) > 0

\* The requests that were made and have left the queue, if they were in it.
Placed(w, og) == {r \in Requests : og[r] # None /\ ~Queued(w, r)}

Filed(w) ==
    \A n \in Origins, s \in Sockets : s \in w.pool.sockets[n] =>
        n = GetName(w.conn[s].target) /\ w.conn[s].state # "unused"

Limited(w) ==
    /\ \A n \in Origins : w.pool.freeSockets[n] = {}
    /\ w.pool.total = Cardinality(Busy(w))
    /\ w.pool.total <= MaxTotalSockets
    /\ MaxSockets # 0 => \A n \in Origins : Cardinality(w.pool.sockets[n]) <= MaxSockets

Owned(w, s) == "agent" \in w.conn[s].listeners /\ Unclosed(w.conn[s])
                  => s \in w.pool.sockets[GetName(w.conn[s].target)]

\* There are sockets for all requests: createConnection, which has no bound in
\* the code, never runs out of them.
Enough == IsFiniteSet(Requests) /\ Cardinality(Requests) <= Cardinality(Sockets)

\* A socket is made only when a request gets it; a busy one serves those that
\* wait.
Supplied(w, og) == Cardinality(Used(w)) <= Cardinality(Placed(w, og))
Served(w) == Waits(w) => Busy(w) # {}

\* totalSocketCount never counts a busy socket that is not there; without
\* keepAlive it is exact, the limits hold, and the agent has every socket it
\* listens to in its lists, but perhaps s.
Balanced(w, og, s) ==
    /\ Filed(w)
    /\ w.pool.total <= Cardinality(Busy(w))
    /\ ~KeepAlive => Limited(w) /\ \A z \in Sockets : z # s => Owned(w, z)
    /\ Enough => Supplied(w, og)

PoolOK(w, og) == Balanced(w, og, None) /\ (Enough => Served(w))

\* From w to v the lists of the agent stay, and no socket comes into use or
\* comes to be owned.
Mild(w, v) ==
    /\ v \in WorldType
    /\ v.pool = w.pool
    /\ \A s \in Sockets :
          /\ v.conn[s].state = "unused" <=> w.conn[s].state = "unused"
          /\ v.conn[s].target = w.conn[s].target
          /\ "agent" \in v.conn[s].listeners /\ Unclosed(v.conn[s])
                => "agent" \in w.conn[s].listeners /\ Unclosed(w.conn[s])

LEMMA MildPool ==
  ASSUME NEW w, NEW v, NEW og, Mild(w, v), PoolOK(w, og)
  PROVE  PoolOK(v, og)
<1>1. Busy(v) = Busy(w)
  BY DEF Mild, Busy
<1>2. Used(v) = Used(w)
  BY DEF Mild, Used
<1>3. Placed(v, og) = Placed(w, og)
  BY DEF Mild, Placed, Queued
<1>4. Filed(v)
  BY DEF Mild, PoolOK, Balanced, Filed
<1>5. ~KeepAlive => Limited(v)
  BY <1>1 DEF Mild, PoolOK, Balanced, Limited
<1>6. ~KeepAlive => \A s \in Sockets : s # None => Owned(v, s)
  BY DEF Mild, PoolOK, Balanced, Owned
<1>7. Waits(v) <=> Waits(w)
  BY DEF Mild, Waits
<1> QED
  BY <1>1, <1>2, <1>3, <1>4, <1>5, <1>6, <1>7 DEF Mild, PoolOK, Balanced, Supplied, Served

\* The sets of sockets and requests are finite.
LEMMA FinitePool ==
  ASSUME NEW w \in WorldType, NEW og
  PROVE  /\ IsFiniteSet(Busy(w)) /\ Cardinality(Busy(w)) \in Nat
         /\ IsFiniteSet(Used(w)) /\ Cardinality(Used(w)) \in Nat
         /\ \A n \in Origins : /\ IsFiniteSet(w.pool.sockets[n])
                               /\ Cardinality(w.pool.sockets[n]) \in Nat
         /\ IsFiniteSet(Requests) => /\ IsFiniteSet(Placed(w, og))
                                     /\ Cardinality(Placed(w, og)) \in Nat
         /\ w.pool.total \in Int
<1>1. IsFiniteSet(Sockets)
  BY AgentAssumption
<1>2. \A n \in Origins : w.pool.sockets[n] \subseteq Sockets
  BY DEF WorldType, PoolType
<1>3. Busy(w) \subseteq Sockets /\ Used(w) \subseteq Sockets
  BY <1>2 DEF Busy, Used
<1>4. Placed(w, og) \subseteq Requests
  BY DEF Placed
<1>5. w.pool.total \in Int
  BY DEF WorldType, PoolType
<1> QED
  BY <1>1, <1>2, <1>3, <1>4, <1>5, FS_Subset, FS_CardinalityType

\* Whoever waits is not placed; the others are.
LEMMA FreshLeft ==
  ASSUME NEW w \in WorldType, NEW og, Enough, Supplied(w, og), NEW n \in Origins,
         Len(w.pool.requests[n]) > 0
  PROVE  Fresh(w) # {}
<1>1. PICK r \in Requests : r = w.pool.requests[n][1]
  <2>1. w.pool.requests[n] \in Seq(Requests)
    BY DEF WorldType, PoolType
  <2> QED
    BY <2>1
<1>2. Queued(w, r)
  BY <1>1 DEF Queued, WorldType, PoolType
<1>3. Placed(w, og) \subseteq Requests /\ r \notin Placed(w, og)
  BY <1>2 DEF Placed
<1>4. /\ IsFiniteSet(Placed(w, og)) /\ Cardinality(Placed(w, og)) \in Nat
      /\ Cardinality(Used(w)) \in Nat
  BY FinitePool DEF Enough
<1>5. /\ Cardinality(Requests) \in Nat /\ Cardinality(Sockets) \in Nat
      /\ Cardinality(Placed(w, og)) < Cardinality(Requests)
  <2>1. Placed(w, og) # Requests
    BY <1>1, <1>3
  <2>2. Cardinality(Requests) \in Nat /\ Cardinality(Sockets) \in Nat
    BY FS_CardinalityType, AgentAssumption DEF Enough
  <2>3. /\ Cardinality(Placed(w, og)) <= Cardinality(Requests)
        /\ Cardinality(Placed(w, og)) # Cardinality(Requests)
    BY <2>1, <1>3, FS_Subset DEF Enough
  <2> QED
    BY <2>2, <2>3, <1>4
<1>6. Cardinality(Used(w)) # Cardinality(Sockets)
  BY <1>4, <1>5 DEF Enough, Supplied
<1>7. PICK s \in Sockets : w.conn[s].state = "unused"
  BY <1>6 DEF Used
<1> QED
  BY <1>7 DEF Fresh


\* One socket more is in use, and busy, and one request more has its socket.
LEMMA MakesPool ==
  ASSUME NEW w \in WorldType, NEW u, NEW k \in Sockets, NEW o \in Origins,
         Makes(w, u, k, o), Filed(w)
  PROVE  /\ Filed(u)
         /\ Busy(u) # {} /\ Cardinality(Busy(u)) = Cardinality(Busy(w)) + 1
         /\ Cardinality(Used(u)) = Cardinality(Used(w)) + 1
         /\ Cardinality(u.pool.sockets[GetName(o)])
               = Cardinality(w.pool.sockets[GetName(o)]) + 1
<1>1. w.conn[k].state = "unused" /\ u.conn[k].state = "open" /\ u.conn[k].target = o
  BY DEF Makes, Fresh
<1>2. PICK n \in Origins : n = GetName(o)
  BY GetNameType
<1>3. /\ u.pool.sockets[n] = w.pool.sockets[n] \cup {k}
      /\ \A m \in Origins : m # n => u.pool.sockets[m] = w.pool.sockets[m]
      /\ \A z \in Sockets : z # k => u.conn[z] = w.conn[z]
  BY <1>2 DEF Makes
<1>4. \A m \in Origins : k \notin w.pool.sockets[m]
  BY <1>1 DEF Filed
<1>5. Filed(u)
  BY <1>1, <1>2, <1>3, <1>4 DEF Filed
<1>6. Busy(u) = Busy(w) \cup {k} /\ k \notin Busy(w)
  BY <1>2, <1>3, <1>4 DEF Busy
<1>7. Used(u) = Used(w) \cup {k} /\ k \notin Used(w)
  BY <1>1, <1>3 DEF Used
<1>8. /\ IsFiniteSet(Busy(w)) /\ IsFiniteSet(Used(w)) /\ IsFiniteSet(w.pool.sockets[n])
  BY FinitePool
<1> QED
  BY <1>2, <1>3, <1>4, <1>5, <1>6, <1>7, <1>8, FS_AddElement

\* w and v have the same sockets.
SameSocketsOf(w, v) ==
    /\ v \in WorldType /\ v.conn = w.conn
    /\ v.pool.sockets = w.pool.sockets /\ v.pool.freeSockets = w.pool.freeSockets
    /\ v.pool.total = w.pool.total

LEMMA SamePool ==
  ASSUME NEW w, NEW v, NEW og, NEW og2, NEW s, SameSocketsOf(w, v), Balanced(w, og, s),
         Enough => Supplied(v, og2)
  PROVE  Balanced(v, og2, s) /\ Busy(v) = Busy(w) /\ Used(v) = Used(w)
<1>1. Busy(v) = Busy(w) /\ Used(v) = Used(w)
  BY DEF SameSocketsOf, Busy, Used
<1>2. Filed(v)
  BY DEF SameSocketsOf, Balanced, Filed
<1>3. ~KeepAlive => Limited(v)
  BY <1>1 DEF SameSocketsOf, Balanced, Limited
<1>4. ~KeepAlive => \A z \in Sockets : z # s => Owned(v, z)
  BY DEF SameSocketsOf, Balanced, Owned
<1> QED
  BY <1>1, <1>2, <1>3, <1>4 DEF SameSocketsOf, Balanced

\* The request that is served is placed.
LEMMA ServesPlaced ==
  ASSUME NEW w \in WorldType, NEW v \in WorldType, NEW og, NEW n \in Origins, NEW s,
         Serves(w, v, n, s), QueuedByName(w, og),
         \A m \in Origins : NoRepeats(w.pool.requests[m]), IsFiniteSet(Requests)
  PROVE  Cardinality(Placed(v, og)) = Cardinality(Placed(w, og)) + 1
<1>1. PICK r : r = w.pool.requests[n][1]
  OBVIOUS
<1>2. Leaves(w, v, og, r)
  BY <1>1, ServedQueue
<1>3. Placed(v, og) = Placed(w, og) \cup {r} /\ r \notin Placed(w, og)
  <2>1. og[r] # None /\ r \in Requests
    BY <1>2, AgentAssumption DEF Leaves
  <2> QED
    BY <1>2, <2>1 DEF Leaves, Placed
<1>4. IsFiniteSet(Placed(w, og))
  BY FinitePool
<1> QED
  BY <1>3, <1>4, FS_AddElement

LEMMA UnderloadedIs ==
  ASSUME NEW w, NEW o
  PROVE  Underloaded(w, o) <=>
            /\ MaxSockets = 0 \/ Cardinality(w.pool.sockets[GetName(o)]) < MaxSockets
            /\ w.pool.total < MaxTotalSockets
BY DEF Underloaded

\* A socket is made for a request that gets it at once, within the limits.
LEMMA CreatesPool ==
  ASSUME NEW w \in WorldType, Targeted(w), NEW og, NEW og2, NEW s, Balanced(w, og, s),
         NEW u, NEW k \in Sockets, NEW o \in Origins, Makes(w, u, k, o),
         KeepAlive \/ Underloaded(w, o),
         NEW v, SameSocketsOf(u, v),
         Enough => Cardinality(Placed(v, og2)) = Cardinality(Placed(w, og)) + 1
  PROVE  Balanced(v, og2, s) /\ Busy(v) # {}
<1>1. /\ Filed(u)
      /\ Busy(u) # {} /\ Cardinality(Busy(u)) = Cardinality(Busy(w)) + 1
      /\ Cardinality(Used(u)) = Cardinality(Used(w)) + 1
      /\ Cardinality(u.pool.sockets[GetName(o)])
            = Cardinality(w.pool.sockets[GetName(o)]) + 1
  BY MakesPool DEF Balanced
<1>2. u.pool.total = w.pool.total + 1 /\ u.pool.freeSockets = w.pool.freeSockets
  BY DEF Makes
<1>3. /\ Cardinality(Busy(w)) \in Nat /\ Cardinality(Used(w)) \in Nat
      /\ \A n \in Origins : Cardinality(w.pool.sockets[n]) \in Nat
      /\ Enough => Cardinality(Placed(w, og)) \in Nat
      /\ w.pool.total \in Int /\ MaxTotalSockets \in Nat /\ MaxSockets \in Nat
  BY FinitePool, AgentAssumption DEF Enough
<1>4. u.pool.total <= Cardinality(Busy(u))
  BY <1>1, <1>2, <1>3 DEF Balanced
<1>5. ASSUME ~KeepAlive
      PROVE  Limited(u) /\ \A z \in Sockets : z # s => Owned(u, z)
  <2>1. /\ Limited(w) /\ \A z \in Sockets : z # s => Owned(w, z)
        /\ Underloaded(w, o)
    BY <1>5 DEF Balanced
  <2>2. \A n \in Origins : u.pool.freeSockets[n] = {}
    BY <2>1, <1>2 DEF Limited
  <2>3. u.pool.total = Cardinality(Busy(u)) /\ u.pool.total <= MaxTotalSockets
    BY <2>1, <1>1, <1>2, <1>3, UnderloadedIs DEF Limited
  <2>4. ASSUME MaxSockets # 0, NEW n \in Origins
        PROVE  Cardinality(u.pool.sockets[n]) <= MaxSockets
    <3>1. CASE n = GetName(o)
      BY <3>1, <2>1, <2>4, <1>1, <1>3, UnderloadedIs
    <3>2. CASE n # GetName(o)
      BY <3>2, <2>1, <2>4 DEF Makes, Limited
    <3> QED
      BY <3>1, <3>2
  <2>5. ASSUME NEW z \in Sockets, z # s
        PROVE  Owned(u, z)
    <3>1. Owned(w, z)
      BY <2>1, <2>5
    <3>2. CASE z = k
      <4>1. u.conn[z].target = o /\ z \in u.pool.sockets[GetName(o)]
        BY <3>2 DEF Makes
      <4> QED
        BY <4>1 DEF Owned
    <3>3. CASE z # k
      <4>1. u.conn[z] = w.conn[z] /\ \A n \in Origins : w.pool.sockets[n] \subseteq u.pool.sockets[n]
        BY <3>3 DEF Makes
      <4>2. "agent" \in w.conn[z].listeners => GetName(w.conn[z].target) \in Origins
        BY GetNameType DEF Targeted
      <4> QED
        BY <3>1, <4>1, <4>2 DEF Owned
    <3> QED
      BY <3>2, <3>3
  <2> QED
    BY <2>2, <2>3, <2>4, <2>5 DEF Limited
<1>6. Busy(v) = Busy(u) /\ Used(v) = Used(u)
  BY DEF SameSocketsOf, Busy, Used
<1>7. Enough => Supplied(v, og2)
  BY <1>1, <1>3, <1>6 DEF Balanced, Supplied
<1>8. Filed(v)
  BY <1>1 DEF SameSocketsOf, Filed
<1>9. ~KeepAlive => Limited(v) /\ \A z \in Sockets : z # s => Owned(v, z)
  BY <1>5, <1>6 DEF SameSocketsOf, Limited, Owned
<1>10. v.pool.total <= Cardinality(Busy(v))
  BY <1>4, <1>6 DEF SameSocketsOf
<1> QED
  BY <1>1, <1>6, <1>7, <1>8, <1>9, <1>10 DEF Balanced


-----------------------------------------------------------------------------
(* The pool when a socket leaves it. *)

\* The socket to drop is under its name, and without keepAlive it is busy.
LEMMA DropPool ==
  ASSUME NEW w \in WorldType, NEW og, PoolOK(w, og), NEW s \in Sockets,
         w.conn[s].target \in Origins,
         ~KeepAlive => s \in w.pool.sockets[GetName(w.conn[s].target)],
         NEW d, d = DropSocket(w, s)
  PROVE  /\ d \in WorldType /\ Balanced(d, og, s)
         /\ ~KeepAlive => Underloaded(d, w.conn[s].target)
<1>1. PICK n \in Origins : n = GetName(w.conn[s].target)
  BY GetNameType
<1>2. PICK a : a = [w.pool.sockets EXCEPT ![n] = @ \ {s}]
  OBVIOUS
<1>3. PICK idle \in BOOLEAN : idle = TRUE <=> (w.conn[s].state # "open" /\ s \in w.pool.freeSockets[n])
  <2>1. CASE w.conn[s].state # "open" /\ s \in w.pool.freeSockets[n]
    BY <2>1
  <2>2. CASE ~(w.conn[s].state # "open" /\ s \in w.pool.freeSockets[n])
    BY <2>2
  <2> QED
    BY <2>1, <2>2
<1>4. PICK b : b = [w.pool.freeSockets EXCEPT ![n] = IF idle THEN @ \ {s} ELSE @]
  OBVIOUS
<1>5. PICK t : t = w.pool.total - (IF s \in w.pool.sockets[n] THEN 1 ELSE 0) - (IF idle THEN 1 ELSE 0)
  OBVIOUS
<1>6. PICK p : p = WithSockets(w.pool, a, b, t)
  OBVIOUS
<1>7. /\ w.pool \in PoolType /\ a \in [Origins -> SUBSET Sockets]
      /\ b \in [Origins -> SUBSET Sockets] /\ t \in Int
  BY <1>1, <1>2, <1>4, <1>5 DEF WorldType, PoolType
<1>8. d = [w EXCEPT !.pool = p]
  <2>1. d = [w EXCEPT !.pool = [w.pool EXCEPT !.sockets = a, !.freeSockets = b, !.total = t]]
    BY <1>1, <1>2, <1>3, <1>4, <1>5 DEF DropSocket, Writable, WorldType, PoolType
  <2> QED
    BY <2>1, <1>6 DEF WithSockets
<1>9. /\ p \in PoolType /\ p.requests = w.pool.requests
      /\ p.sockets = a /\ p.freeSockets = b /\ p.total = t
  BY <1>6, <1>7, UpdatePool DEF WithSockets, PoolType
<1>10. /\ d \in WorldType /\ d.pool.requests = w.pool.requests /\ d.conn = w.conn
       /\ d.pool.sockets = a /\ d.pool.freeSockets = b /\ d.pool.total = t
  BY <1>8, <1>9 DEF WorldType
<1>11. Filed(w) /\ w.pool.total <= Cardinality(Busy(w)) /\ \A z \in Origins : z # n => s \notin w.pool.sockets[z]
  BY <1>1 DEF PoolOK, Balanced, Filed
<1>12. /\ a[n] = w.pool.sockets[n] \ {s}
       /\ \A m \in Origins : m # n => a[m] = w.pool.sockets[m]
  BY <1>1, <1>2 DEF WorldType, PoolType
<1>13. Filed(d)
  BY <1>10, <1>11, <1>12 DEF Filed
<1>14. Busy(d) = Busy(w) \ {s} /\ (s \in Busy(w) <=> s \in w.pool.sockets[n])
  BY <1>1, <1>10, <1>11, <1>12 DEF Busy
<1>15. /\ IsFiniteSet(Busy(w)) /\ Cardinality(Busy(w)) \in Nat /\ w.pool.total \in Int
       /\ IsFiniteSet(w.pool.sockets[n]) /\ Cardinality(w.pool.sockets[n]) \in Nat
       /\ MaxTotalSockets \in Nat /\ MaxSockets \in Nat
  BY <1>1, FinitePool, AgentAssumption
<1>16. Cardinality(Busy(d)) = IF s \in w.pool.sockets[n] THEN Cardinality(Busy(w)) - 1
                              ELSE Cardinality(Busy(w))
  BY <1>14, <1>15, FS_RemoveElement
<1>17. d.pool.total <= Cardinality(Busy(d))
  BY <1>5, <1>10, <1>11, <1>15, <1>16
<1>18. ASSUME ~KeepAlive
       PROVE  /\ Limited(d) /\ d.pool.total < MaxTotalSockets
              /\ MaxSockets # 0 => Cardinality(d.pool.sockets[n]) < MaxSockets
  <2>1. s \in w.pool.sockets[n] /\ Limited(w)
    BY <1>1, <1>18 DEF PoolOK, Balanced
  <2>2. idle = FALSE
    BY <2>1, <1>1, <1>3 DEF Limited
  <2>3. \A m \in Origins : b[m] = {}
    BY <2>1, <2>2, <1>1, <1>4 DEF Limited, WorldType, PoolType
  <2>4. d.pool.total = w.pool.total - 1
    BY <2>1, <2>2, <1>5, <1>10, <1>15
  <2>5. Cardinality(a[n]) = Cardinality(w.pool.sockets[n]) - 1
    <3>1. PICK S : S = w.pool.sockets[n]
      OBVIOUS
    <3>2. IsFiniteSet(S) /\ s \in S /\ a[n] = S \ {s}
      BY <2>1, <3>1, <1>12, <1>15
    <3>3. Cardinality(S \ {s}) = Cardinality(S) - 1
      BY <3>2, FS_RemoveElement
    <3> QED
      BY <3>1, <3>2, <3>3
  <2>6. ASSUME MaxSockets # 0
        PROVE  /\ Cardinality(a[n]) < MaxSockets
               /\ \A m \in Origins : Cardinality(a[m]) <= MaxSockets
    <3>1. \A m \in Origins : Cardinality(w.pool.sockets[m]) <= MaxSockets
      BY <2>1, <2>6 DEF Limited
    <3>2. Cardinality(a[n]) < MaxSockets /\ Cardinality(a[n]) <= MaxSockets
      BY <3>1, <2>5, <1>15
    <3> QED
      BY <3>1, <3>2, <1>12
  <2>7. d.pool.total = Cardinality(Busy(d)) /\ d.pool.total < MaxTotalSockets
    BY <2>1, <2>4, <1>15, <1>16 DEF Limited
  <2>8. d.pool.total <= MaxTotalSockets
    BY <2>7, <2>4, <1>15
  <2> QED
    BY <2>3, <2>6, <2>7, <2>8, <1>10 DEF Limited
<1>19. ASSUME ~KeepAlive, NEW z \in Sockets, z # s
       PROVE  Owned(d, z)
  <2>1. Owned(w, z)
    <3>1. CASE z # None
      BY <3>1, <1>19 DEF PoolOK, Balanced
    <3>2. CASE z = None
      BY <3>2, AgentAssumption
    <3> QED
      BY <3>1, <3>2
  <2>2. ASSUME z \in w.pool.sockets[GetName(w.conn[z].target)]
        PROVE  z \in a[GetName(w.conn[z].target)]
    BY <2>2, <1>2, <1>7, <1>19 DEF WorldType, PoolType
  <2> QED
    BY <2>1, <2>2, <1>10 DEF Owned
<1>20. Enough => Supplied(d, og)
  <2>1. Used(d) = Used(w) /\ Placed(d, og) = Placed(w, og)
    BY <1>10 DEF Used, Placed, Queued
  <2> QED
    BY <2>1 DEF PoolOK, Balanced, Supplied
<1>21. ~KeepAlive => Underloaded(d, w.conn[s].target)
  BY <1>1, <1>18, UnderloadedIs
<1> QED
  BY <1>10, <1>13, <1>17, <1>18, <1>19, <1>20, <1>21 DEF Balanced


\* No request waits twice.
Queues(w) == \A n \in Origins : NoRepeats(w.pool.requests[n])

LEMMA WaitingPool ==
  ASSUME NEW w, NEW og, WorldOK(w, og), Queues(w), NEW s, Balanced(w, og, s),
         NEW o \in Origins, w.pool.requests[GetName(o)] # <<>>,
         KeepAlive \/ Underloaded(w, o),
         NEW v, v = SocketForWaiting(w, o)
  PROVE  v \in WorldType /\ Balanced(v, og, s) /\ (Enough => Served(v))
<1>1. /\ w \in WorldType /\ Targeted(w) /\ QueuedByName(w, og)
      /\ GetName(o) \in Origins
  BY GetNameType DEF WorldOK
<1>2. Len(w.pool.requests[GetName(o)]) > 0
  BY <1>1 DEF WorldType, PoolType
<1>3. CASE Fresh(w) = {}
  <2>1. v = w
    BY <1>3 DEF SocketForWaiting
  <2>2. ~Enough
    BY <1>1, <1>2, <1>3, FreshLeft DEF Balanced
  <2> QED
    BY <2>1, <2>2, <1>1
<1>4. CASE Fresh(w) # {}
  <2>1. PICK k : k = CHOOSE x \in Fresh(w) : TRUE
    OBVIOUS
  <2>2. PICK u : u = NewSocket(w, k, o)
    OBVIOUS
  <2>3. k \in Fresh(w) /\ k \in Sockets
    BY <1>4, <2>1 DEF Fresh
  <2>4. /\ WorldOK(u, og) /\ u.conn[k].target = o /\ u.pool.requests = w.pool.requests
        /\ u \in WorldType
    BY <2>2, <2>3, NewSocketOK DEF WorldOK
  <2>5. Makes(w, u, k, o)
    BY <2>2, <2>3, MakesEffect
  <2>6. v = ServeFirst(u, GetName(o), k)
    BY <1>4, <2>1, <2>2 DEF SocketForWaiting
  <2>7. Serves(u, v, GetName(o), k)
    BY <1>1, <2>3, <2>4, <2>6, ServeFirstEffect
  <2>8. v \in WorldType /\ SameSocketsOf(u, v)
    BY <2>7 DEF Serves, SameSocketsOf
  <2>9. Enough => Cardinality(Placed(v, og)) = Cardinality(Placed(w, og)) + 1
    <3>1. Placed(u, og) = Placed(w, og)
      BY <2>4 DEF Placed, Queued
    <3>2. QueuedByName(u, og) /\ \A m \in Origins : NoRepeats(u.pool.requests[m])
      BY <2>4 DEF WorldOK, Queues
    <3> QED
      BY <1>1, <2>4, <2>7, <2>8, <3>1, <3>2, ServesPlaced DEF Enough
  <2>10. Balanced(v, og, s) /\ Busy(v) # {}
    BY <1>1, <2>3, <2>5, <2>8, <2>9, CreatesPool
  <2> QED
    BY <2>8, <2>10 DEF Served
<1> QED
  BY <1>3, <1>4

\* After the refill whoever waits has a busy socket to wait for.
LEMMA RefillPool ==
  ASSUME NEW w, WorldOK(w, origin), Queues(w), NEW s \in Sockets,
         w.conn[s].target \in Origins, Balanced(w, origin, s),
         KeepAlive \/ Underloaded(w, w.conn[s].target),
         NEW v, v = Refill(w, s)
  PROVE  v \in WorldType /\ Balanced(v, origin, s) /\ (Enough => Served(v))
<1>1. PICK n : n = GetName(w.conn[s].target)
  OBVIOUS
<1>2. PICK m : m = Head(w.pool.keys)
  OBVIOUS
<1>3. PICK r : r = Head(w.pool.requests[m])
  OBVIOUS
<1>4. /\ w \in WorldType /\ w.pool.requests \in [Origins -> Seq(Requests)]
      /\ w.pool.keys \in Seq(Origins)
  BY DEF WorldOK, WorldType, PoolType
<1>5. CASE w.pool.requests[n] # <<>>
  <2>1. v = SocketForWaiting(w, w.conn[s].target)
    BY <1>1, <1>5 DEF Refill
  <2> QED
    BY <2>1, <1>1, <1>5, WaitingPool
<1>6. CASE w.pool.requests[n] = <<>> /\ w.pool.keys # <<>> /\ w.pool.sockets[m] = {}
  <2>1. 1 \in 1..Len(w.pool.keys) /\ m = w.pool.keys[1] /\ m \in Origins
    BY <1>2, <1>4, <1>6
  <2>2. Len(w.pool.requests[m]) > 0
    BY <2>1 DEF WorldOK, KeysMatch, KeysOf
  <2>3. w.pool.requests[m] # <<>> /\ 1 \in 1..Len(w.pool.requests[m])
        /\ r = w.pool.requests[m][1]
    BY <1>3, <1>4, <2>1, <2>2
  <2>4. origin[r] \in Origins /\ GetName(origin[r]) = m
    BY <2>1, <2>3 DEF WorldOK, QueuedByName
  <2>5. KeepAlive \/ Underloaded(w, origin[r])
    <3>1. Cardinality(w.pool.sockets[m]) = 0
      BY <1>6, FS_EmptySet
    <3>2. MaxSockets \in Nat
      BY AgentAssumption
    <3>3. KeepAlive \/ w.pool.total < MaxTotalSockets
      BY UnderloadedIs
    <3> QED
      BY <2>4, <3>1, <3>2, <3>3, UnderloadedIs
  <2>6. v = SocketForWaiting(w, origin[r])
    BY <1>1, <1>2, <1>3, <1>6 DEF Refill
  <2>7. w.pool.requests[GetName(origin[r])] # <<>>
    BY <2>3, <2>4
  <2> QED
    BY <2>4, <2>5, <2>6, <2>7, WaitingPool
<1>7. CASE w.pool.requests[n] = <<>> /\ ~(w.pool.keys # <<>> /\ w.pool.sockets[m] = {})
  <2>1. v = w
    BY <1>1, <1>2, <1>7 DEF Refill
  <2>2. ASSUME Waits(w)
        PROVE  Busy(w) # {}
    <3>1. PICK q \in Origins : Len(w.pool.requests[q]) > 0
      BY <2>2 DEF Waits
    <3>2. PICK i \in 1..Len(w.pool.keys) : w.pool.keys[i] = q
      BY <3>1 DEF WorldOK, KeysMatch, KeysOf
    <3>3. w.pool.keys # <<>> /\ m \in Origins
      BY <3>2, <1>2, <1>4
    <3> QED
      BY <3>3, <1>7 DEF Busy
  <2> QED
    BY <2>1, <2>2, <1>4 DEF Served
<1> QED
  BY <1>5, <1>6, <1>7

\* The socket that was dropped becomes c, which the agent need not own.
LEMMA WithConnPool ==
  ASSUME NEW w \in WorldType, NEW og, NEW s \in Sockets, Balanced(w, og, s),
         Enough => Served(w),
         NEW c \in ConnType, c.state # "unused", w.conn[s].state # "unused",
         c.target = w.conn[s].target,
         KeepAlive \/ "agent" \notin c.listeners \/ ~Unclosed(c),
         NEW v, v = WithConn(w, s, c)
  PROVE  PoolOK(v, og)
<1>1. /\ v \in WorldType /\ v.pool = w.pool /\ v.conn[s] = c
      /\ \A z \in Sockets : z # s => v.conn[z] = w.conn[z]
  BY WithConnType
<1>2. Used(v) = Used(w) /\ Busy(v) = Busy(w) /\ Placed(v, og) = Placed(w, og)
  BY <1>1 DEF Used, Busy, Placed, Queued
<1>3. Filed(v)
  BY <1>1 DEF Balanced, Filed
<1>4. ~KeepAlive => Limited(v)
  BY <1>1, <1>2 DEF Balanced, Limited
<1>5. ASSUME ~KeepAlive, NEW z \in Sockets
      PROVE  Owned(v, z)
  BY <1>1, <1>5 DEF Balanced, Owned
<1>6. Waits(v) <=> Waits(w)
  BY <1>1 DEF Waits
<1> QED
  BY <1>1, <1>2, <1>3, <1>4, <1>5, <1>6 DEF PoolOK, Balanced, Supplied, Served

\* removeSocket.
LEMMA RemovePool ==
  ASSUME NEW w, WorldOK(w, origin), Queues(w), PoolOK(w, origin), NEW s \in Sockets,
         w.conn[s].target \in Origins,
         ~KeepAlive => s \in w.pool.sockets[GetName(w.conn[s].target)],
         NEW v, v = RemoveSocket(w, s)
  PROVE  v \in WorldType /\ Balanced(v, origin, s) /\ (Enough => Served(v))
<1>1. PICK d : d = DropSocket(w, s)
  OBVIOUS
<1>2. w \in WorldType
  BY DEF WorldOK
<1>3. /\ d \in WorldType /\ Balanced(d, origin, s)
      /\ ~KeepAlive => Underloaded(d, w.conn[s].target)
  BY <1>1, <1>2, DropPool
<1>4. WorldOK(d, origin) /\ d.conn = w.conn
  BY <1>1, DropSocketOK
<1>5. Queues(d)
  BY <1>1, <1>2 DEF DropSocket, Queues, WorldType, PoolType
<1>6. v = Refill(d, s)
  BY <1>1 DEF RemoveSocket
<1> QED
  BY <1>3, <1>4, <1>5, <1>6, RefillPool

\* A socket leaves the agent.
LEMMA ForgottenPool ==
  ASSUME NEW w, WorldOK(w, origin), Queues(w), PoolOK(w, origin), NEW s \in Sockets,
         w.conn[s].target \in Origins,
         ~KeepAlive /\ "agent" \in w.conn[s].listeners
            => s \in w.pool.sockets[GetName(w.conn[s].target)],
         NEW c \in ConnType, c.state # "unused", c.target = w.conn[s].target,
         c.listeners \subseteq w.conn[s].listeners,
         "agent" \notin c.listeners \/ ~Unclosed(c),
         NEW v, v = Forgotten(w, s, c)
  PROVE  PoolOK(v, origin)
<1>1. w \in WorldType /\ w.conn[s].state # "unused"
  BY InUse DEF WorldOK
<1>2. CASE "agent" \in w.conn[s].listeners
  <2>1. PICK m : m = RemoveSocket(w, s)
    OBVIOUS
  <2>2. m \in WorldType /\ Balanced(m, origin, s) /\ (Enough => Served(m))
    BY <1>2, <2>1, RemovePool
  <2>3. m.conn[s] = w.conn[s]
    BY <2>1, RemoveEffect
  <2>4. v = WithConn(m, s, c)
    BY <1>2, <2>1 DEF Forgotten
  <2>5. m.conn[s].state # "unused" /\ c.target = m.conn[s].target
    BY <2>3, <1>1
  <2> QED
    BY <2>2, <2>4, <2>5, WithConnPool
<1>3. CASE "agent" \notin w.conn[s].listeners
  <2>1. v = WithConn(w, s, c)
    BY <1>3 DEF Forgotten
  <2>2. Mild(w, v)
    <3>1. /\ v \in WorldType /\ v.pool = w.pool /\ v.conn[s] = c
          /\ \A z \in Sockets : z # s => v.conn[z] = w.conn[z]
      BY <2>1, <1>1, WithConnType
    <3> QED
      BY <3>1, <1>1, <1>3 DEF Mild
  <2> QED
    BY <2>2, MildPool
<1> QED
  BY <1>2, <1>3


LEMMA DestroyMild ==
  ASSUME NEW w \in WorldType, NEW s \in Sockets,
         NEW v, v \in {DestroySocket(w, s), DestroySocketWithError(w, s)}
  PROVE  Mild(w, v)
<1>1. CASE ~Live(w, s)
  <2>1. v = w
    BY <1>1 DEF DestroySocket, DestroySocketWithError
  <2> QED
    BY <2>1 DEF Mild
<1>2. CASE Live(w, s)
  <2>1. Destroys(w, v, s)
    BY <1>2, DestroyEffect, DestroyWithErrorEffect
  <2>2. w.conn[s] \in ConnType /\ "destroyed" \in {"unused", "open", "ended", "destroyed", "closed"}
    BY DEF WorldType
  <2>3. /\ v.conn[s].state = "destroyed" /\ v.conn[s].target = w.conn[s].target
        /\ v.conn[s].listeners = w.conn[s].listeners
    BY <2>1, <2>2, WithStateType DEF Destroys
  <2> QED
    BY <1>2, <2>1, <2>3 DEF Mild, Destroys, Live, Unclosed
<1> QED
  BY <1>1, <1>2

\* A waiting request gets a socket the agent has.
LEMMA ServePool ==
  ASSUME NEW w, NEW og, WorldOK(w, og), Queues(w), PoolOK(w, og),
         NEW n \in Origins, NEW s, NEW v, Serves(w, v, n, s)
  PROVE  PoolOK(v, og)
<1>1. w \in WorldType /\ QueuedByName(w, og)
  BY DEF WorldOK
<1>2. v \in WorldType /\ SameSocketsOf(w, v)
  BY DEF Serves, SameSocketsOf
<1>3. Enough => Supplied(v, og)
  <2>1. ASSUME Enough
        PROVE  /\ Cardinality(Placed(v, og)) = Cardinality(Placed(w, og)) + 1
               /\ Cardinality(Placed(w, og)) \in Nat /\ Cardinality(Used(w)) \in Nat
    BY <1>1, <1>2, <2>1, ServesPlaced, FinitePool DEF Enough, Queues
  <2>2. Used(v) = Used(w)
    BY <1>2 DEF SameSocketsOf, Used
  <2> QED
    BY <2>1, <2>2 DEF PoolOK, Balanced, Supplied
<1>4. Balanced(w, og, None)
  BY DEF PoolOK
<1>5. Balanced(v, og, None) /\ Busy(v) = Busy(w)
  BY <1>2, <1>3, <1>4, SamePool
<1>6. Waits(w)
  BY DEF Serves, Waits
<1> QED
  BY <1>5, <1>6 DEF PoolOK, Served

\* A new request.
LEMMA AddPool ==
  ASSUME NEW w, NEW og, WorldOK(w, og), Queues(w), PoolOK(w, og),
         NEW r \in Requests, NEW o \in Origins, og[r] = None, NEW og2, og2[r] = o,
         \A q \in Requests : q # r => og2[q] = og[q], WorldOK(w, og2),
         ~Underloaded(w, o) \/ Fresh(w) # {}, Unplaced(w, r),
         NEW v, v = AddRequest(w, r, o)
  PROVE  PoolOK(v, og2)
<1>1. w \in WorldType /\ Targeted(w) /\ Balanced(w, og, None) /\ o # None
  BY AgentAssumption DEF WorldOK, PoolOK
<1>2. CASE Underloaded(w, o)
  <2>1. PICK k : k = CHOOSE x \in Fresh(w) : TRUE
    OBVIOUS
  <2>2. k \in Fresh(w) /\ k \in Sockets
    BY <2>1, <1>2 DEF Fresh
  <2>3. PICK u : u = NewSocket(w, k, o)
    OBVIOUS
  <2>4. Makes(w, u, k, o) /\ u \in WorldType
    BY <2>2, <2>3, MakesEffect DEF Makes
  <2>5. v = SetRequestSocket(u, r, k)
    BY <2>1, <2>3, <1>2 DEF AddRequest
  <2>6. v \in WorldType /\ v.pool = u.pool /\ v.conn = u.conn
    <3>1. Tick("onSocket", r, k) \in TickType
      BY <2>2, TickFields
    <3> QED
      BY <3>1, <2>4, <2>5, AppendTick DEF SetRequestSocket
  <2>7. SameSocketsOf(u, v)
    BY <2>6 DEF SameSocketsOf
  <2>8. Enough => Cardinality(Placed(v, og2)) = Cardinality(Placed(w, og)) + 1
    <3>1. \A q \in Requests : Queued(v, q) <=> Queued(w, q)
      BY <2>4, <2>6 DEF Queued, Makes
    <3>2. Placed(v, og2) = Placed(w, og) \cup {r} /\ r \notin Placed(w, og)
      BY <3>1, <1>1 DEF Placed, Unplaced
    <3>3. Enough => IsFiniteSet(Placed(w, og))
      BY <1>1, FinitePool DEF Enough
    <3> QED
      BY <3>2, <3>3, FS_AddElement
  <2>9. Balanced(v, og2, None) /\ Busy(v) # {}
    BY <2>2, <2>4, <2>7, <2>8, <1>1, <1>2, CreatesPool
  <2> QED
    BY <2>9 DEF PoolOK, Served
<1>3. CASE ~Underloaded(w, o)
  <2>1. v = Enqueue(w, r, o)
    BY <1>3 DEF AddRequest
  <2>2. Enters(w, v, r)
    BY <2>1, EnqueueEffect DEF Queues
  <2>3. SameSocketsOf(w, v)
    <3>1. v.pool.total = w.pool.total
      <4>1. PICK a : a = [w.pool.requests EXCEPT ![GetName(o)] = Append(@, r)]
        OBVIOUS
      <4>2. PICK b : b = IF w.pool.requests[GetName(o)] = <<>>
                         THEN Append(w.pool.keys, GetName(o)) ELSE w.pool.keys
        OBVIOUS
      <4>3. w.pool \in PoolType
        BY <1>1 DEF WorldType
      <4>4. v.pool = [w.pool EXCEPT !.requests = a, !.keys = b]
        BY <2>1, <4>1, <4>2, <1>1 DEF Enqueue, WorldType, PoolType
      <4> QED
        BY <4>3, <4>4 DEF PoolType
    <3> QED
      BY <3>1, <2>2 DEF SameSocketsOf, Enters
  <2>4. Placed(v, og2) = Placed(w, og)
    BY <2>2, <1>1 DEF Enters, Placed
  <2>5. Enough => Supplied(v, og2)
    BY <2>3, <2>4, <1>1 DEF Balanced, Supplied, SameSocketsOf, Used
  <2>6. Balanced(v, og2, None) /\ Busy(v) = Busy(w)
    BY <2>3, <2>5, <1>1, SamePool
  <2>7. Busy(w) # {}
    <3>1. /\ w.pool.total \in Int /\ MaxTotalSockets \in Nat \ {0} /\ MaxSockets \in Nat
          /\ GetName(o) \in Origins
      BY <1>1, FinitePool, AgentAssumption, GetNameType
    <3>2. CASE w.pool.total >= MaxTotalSockets
      <4>1. Cardinality(Busy(w)) # 0
        BY <3>1, <3>2, <1>1, FinitePool DEF Balanced
      <4> QED
        BY <4>1, FS_EmptySet
    <3>3. CASE MaxSockets # 0 /\ ~(Cardinality(w.pool.sockets[GetName(o)]) < MaxSockets)
      <4>1. Cardinality(w.pool.sockets[GetName(o)]) # 0
        BY <3>1, <3>3
      <4>2. w.pool.sockets[GetName(o)] # {}
        BY <4>1, FS_EmptySet
      <4>3. w.pool.sockets[GetName(o)] \subseteq Busy(w)
        BY <3>1 DEF Busy
      <4> QED
        BY <4>2, <4>3
    <3> QED
      BY <3>1, <3>2, <3>3, <1>3, UnderloadedIs
  <2> QED
    BY <2>6, <2>7 DEF PoolOK, Served
<1> QED
  BY <1>2, <1>3


-----------------------------------------------------------------------------
(* What most steps have in common. *)

\* No socket gets a request, and no error is queued.
Calm(w, v) ==
    /\ \A s \in Sockets : v.conn[s].message \in {w.conn[s].message, None}
    /\ \A t \in ToSet(v.ticks) : t.fn = "error" => t \in ToSet(w.ticks)

\* The tick that is due stays at the head of the queue, and the sockets in use
\* keep their listeners.
Firm(w, v) ==
    /\ Len(w.ticks) > 0 => Len(v.ticks) > 0 /\ v.ticks[1] = w.ticks[1]
    /\ \A s \in Sockets : w.conn[s].state # "unused" => v.conn[s].listeners = w.conn[s].listeners

Orderly(w, v) == /\ v \in WorldType /\ Calm(w, v)
                 /\ PoolOK(w, origin) => PoolOK(v, origin)

LEMMA OrderlyTrans ==
  ASSUME NEW w, NEW u, NEW v, Orderly(w, u), Orderly(u, v)
  PROVE  Orderly(w, v)
BY DEF Orderly, Calm

LEMMA MildOrderly ==
  ASSUME NEW w, NEW v, Mild(w, v), Calm(w, v)
  PROVE  Orderly(w, v)
BY MildPool DEF Orderly, Mild

LEMMA MarksOrderly ==
  ASSUME NEW w \in WorldType, NEW v, NEW s \in Sockets, Marks(w, v, s),
         v.conn[s].listeners \subseteq w.conn[s].listeners,
         \/ v.conn[s].state = w.conn[s].state
         \/ Unclosed(w.conn[s]) /\ v.conn[s].state # "unused"
  PROVE  Orderly(w, v) /\ Mild(w, v)
<1>1. Mild(w, v)
  BY DEF Marks, Mild, Unclosed
<1>2. Calm(w, v)
  BY DEF Marks, Calm
<1> QED
  BY <1>1, <1>2, MildOrderly

LEMMA AppendOrderly ==
  ASSUME NEW w \in WorldType, NEW t \in TickType, t.fn # "error",
         NEW v, v = WithTicks(w, Append(w.ticks, t))
  PROVE  Orderly(w, v)
<1>1. PICK q : q = Append(w.ticks, t)
  OBVIOUS
<1>2. w.ticks \in Seq(TickType) /\ q \in Seq(TickType)
  BY <1>1 DEF WorldType
<1>3. v \in WorldType /\ v.pool = w.pool /\ v.conn = w.conn /\ v.ticks = q
  BY <1>1, <1>2, WithTicksType
<1>4. Mild(w, v)
  BY <1>3 DEF Mild
<1>5. Calm(w, v)
  <2>1. \A a \in ToSet(q) : a \in ToSet(w.ticks) \/ a = t
    BY <1>1, <1>2, AppendedSet
  <2> QED
    BY <2>1, <1>3 DEF Calm
<1> QED
  BY <1>4, <1>5, MildOrderly

LEMMA DestroyOrderly ==
  ASSUME NEW w \in WorldType, NEW s \in Sockets, NEW v, v = DestroySocket(w, s)
  PROVE  Orderly(w, v)
<1>1. Mild(w, v) /\ \A z \in Sockets : v.conn[z].message = w.conn[z].message
  BY DestroyMild, DestroyHeard
<1>2. ASSUME NEW a \in ToSet(v.ticks), a.fn = "error"
      PROVE  a \in ToSet(w.ticks)
  <2>1. CASE ~Live(w, s)
    BY <2>1, <1>2 DEF DestroySocket
  <2>2. CASE Live(w, s)
    <3>1. PICK t : t = Tick("close", None, s)
      OBVIOUS
    <3>2. None \in Requests \cup {None} /\ s \in Sockets \cup {None}
      OBVIOUS
    <3>3. t \in TickType /\ t.fn = "close"
      BY <3>1, <3>2, TickFields
    <3>4. v.ticks = IF CloseByTick THEN Append(w.ticks, t) ELSE w.ticks
      BY <2>2, <3>1, DestroyEffect
    <3>5. w.ticks \in Seq(TickType)
      BY DEF WorldType
    <3>6. a \in ToSet(w.ticks) \/ a = t
      BY <3>4, <3>5, <1>2, AppendedSet
    <3> QED
      BY <3>3, <3>6, <1>2
  <2> QED
    BY <2>1, <2>2
<1>3. Calm(w, v)
  BY <1>1, <1>2 DEF Calm
<1> QED
  BY <1>1, <1>3, MildOrderly

LEMMA ServesCalm ==
  ASSUME NEW w \in WorldType, NEW v, NEW n \in Origins, NEW s \in Sockets, Serves(w, v, n, s)
  PROVE  Calm(w, v)
<1>1. PICK r \in Requests : r = w.pool.requests[n][1]
  <2>1. w.pool.requests[n] \in Seq(Requests) /\ Len(w.pool.requests[n]) > 0
    BY DEF WorldType, PoolType, Serves
  <2> QED
    BY <2>1
<1>2. PICK t : t = Tick("onSocket", r, s)
  OBVIOUS
<1>3. t.fn = "onSocket" /\ v.ticks = Append(w.ticks, t) /\ v.conn = w.conn
  BY <1>1, <1>2, TickFields DEF Serves
<1>4. \A a \in ToSet(v.ticks) : a \in ToSet(w.ticks) \/ a = t
  <2>1. w.ticks \in Seq(TickType)
    BY DEF WorldType
  <2> QED
    BY <2>1, <1>3, AppendedSet
<1> QED
  BY <1>3, <1>4 DEF Calm

LEMMA MakesCalm ==
  ASSUME NEW w, NEW u, NEW k, NEW o, Makes(w, u, k, o)
  PROVE  Calm(w, u)
<1>1. u.conn[k].message = None
  BY DEF Makes
<1> QED
  BY <1>1 DEF Makes, Calm

LEMMA RefillsCalm ==
  ASSUME NEW w \in WorldType, NEW v, Refills(w, v)
  PROVE  Calm(w, v)
<1>1. CASE v = w
  BY <1>1 DEF Calm
<1>2. CASE v # w
  <2>1. PICK u \in WorldType, k \in Sockets, o \in Origins :
                Makes(w, u, k, o) /\ Serves(u, v, GetName(o), k)
    BY <1>2 DEF Refills
  <2>2. Calm(w, u) /\ Calm(u, v)
    BY <2>1, MakesCalm, ServesCalm, GetNameType
  <2> QED
    BY <2>2 DEF Calm
<1> QED
  BY <1>1, <1>2

\* removeSocket, and what becomes of the socket afterwards.
LEMMA RemoveCalm ==
  ASSUME NEW w, WorldOK(w, origin), NEW s \in Sockets, w.conn[s].target \in Origins,
         NEW c \in ConnType, c.state # "unused", c.message \in {w.conn[s].message, None},
         NEW v, v = WithConn(RemoveSocket(w, s), s, c)
  PROVE  Calm(w, v)
<1>1. PICK y \in WorldType : Drops(w, y, s, c) /\ Refills(y, v)
  BY RemoveEffect
<1>2. Calm(w, y)
  BY <1>1 DEF Drops, Calm
<1>3. Calm(y, v)
  BY <1>1, RefillsCalm
<1> QED
  BY <1>2, <1>3 DEF Calm

LEMMA ForgottenOrderly ==
  ASSUME NEW x \in WorldType, NEW w, WorldOK(w, origin), Queues(x),
         NEW s \in Sockets, Marks(x, w, s), Mild(x, w),
         Unclosed(x.conn[s]), w.conn[s].target \in Origins,
         w.conn[s].listeners \subseteq x.conn[s].listeners,
         NEW c \in ConnType, c.state # "unused", c.target = w.conn[s].target,
         c.message \in {w.conn[s].message, None},
         c.listeners \subseteq w.conn[s].listeners,
         "agent" \notin c.listeners \/ ~Unclosed(c),
         NEW v, v = Forgotten(w, s, c)
  PROVE  Orderly(x, v)
<1>1. w \in WorldType /\ None \notin Sockets
  BY AgentAssumption DEF WorldOK
<1>2. Calm(x, w)
  BY DEF Marks, Calm
<1>3. v \in WorldType /\ Calm(w, v)
  <2>1. CASE "agent" \in w.conn[s].listeners
    <3>1. v = WithConn(RemoveSocket(w, s), s, c) /\ RemoveSocket(w, s) \in WorldType
      BY <2>1, RemoveEffect DEF Forgotten
    <3> QED
      BY <3>1, RemoveCalm, WithConnType
  <2>2. CASE "agent" \notin w.conn[s].listeners
    <3>1. v = WithConn(w, s, c)
      BY <2>2 DEF Forgotten
    <3> QED
      BY <3>1, <1>1, WithConnType DEF Calm
  <2> QED
    BY <2>1, <2>2
<1>4. Calm(x, v)
  BY <1>2, <1>3 DEF Calm
<1>5. ASSUME PoolOK(x, origin)
      PROVE  PoolOK(v, origin)
  <2>1. PoolOK(w, origin)
    BY <1>5, MildPool
  <2>2. Queues(w)
    BY DEF Marks, Queues
  <2>3. ~KeepAlive /\ "agent" \in w.conn[s].listeners
           => s \in w.pool.sockets[GetName(w.conn[s].target)]
    <3>1. ~KeepAlive => Owned(x, s)
      BY <1>1, <1>5 DEF PoolOK, Balanced
    <3> QED
      BY <3>1 DEF Owned, Marks
  <2> QED
    BY <2>1, <2>2, <2>3, ForgottenPool
<1> QED
  BY <1>3, <1>4, <1>5 DEF Orderly


\* An idle socket moves from one list of the agent to the other.
LEMMA IdleOrderly ==
  ASSUME NEW w, WorldOK(w, origin), Queues(w), NEW s \in Sockets,
         w.conn[s].target \in Origins, KeepAlive, NEW v, v = PoolSocket(w, s)
  PROVE  Orderly(w, v)
<1>1. /\ w \in WorldType /\ w.conn[s] \in ConnType /\ w.conn[s].state # "unused"
      /\ None \notin Sockets /\ None \notin Requests
  BY InUse, AgentAssumption DEF WorldOK
<1>2. PICK n \in Origins : n = GetName(w.conn[s].target)
  BY GetNameType
<1>3. PICK d : d = [w.conn[s] EXCEPT !.message = None]
  OBVIOUS
<1>4. PICK c : c = [d EXCEPT !.listeners = @ \cup {"idle"}]
  OBVIOUS
<1>5. /\ d \in ConnType /\ d.target = w.conn[s].target /\ d.state = w.conn[s].state
      /\ d.listeners = w.conn[s].listeners
  BY <1>1, <1>3 DEF ConnType
<1>6. c \in ConnType /\ c.target = w.conn[s].target /\ c.state = w.conn[s].state
  BY <1>5, <1>4 DEF ConnType
<1>7. PICK x : x = WithConn(w, s, d)
  OBVIOUS
<1>8. /\ x \in WorldType /\ x.pool = w.pool /\ x.ticks = w.ticks /\ x.conn[s] = d
      /\ \A z \in Sockets : z # s => x.conn[z] = w.conn[z]
  BY <1>1, <1>5, <1>7, WithConnType
<1>9. WorldOK(x, origin)
  <2>1. w.conn[s].state # "unused" /\ d.state # "unused"
    BY <1>1, <1>5
  <2> QED
    BY <2>1, <1>5, <1>7, UpdateSocket DEF WithConn
<1>10. Mild(w, x) /\ Calm(w, x) /\ Queues(x)
  <2>1. Mild(w, x)
    <3>1. \A z \in Sockets : /\ x.conn[z].state = w.conn[z].state
                             /\ x.conn[z].target = w.conn[z].target
                             /\ x.conn[z].listeners = w.conn[z].listeners
      BY <1>5, <1>8
    <3> QED
      BY <3>1, <1>8 DEF Mild, Unclosed
  <2>2. Calm(w, x)
    BY <1>1, <1>3, <1>8 DEF Calm, ConnType
  <2> QED
    BY <2>1, <2>2, <1>8 DEF Queues
<1>11. PICK m : m = RemoveSocket(x, s)
  OBVIOUS
<1>12. x.conn[s].target \in Origins /\ d.state # "unused" /\ c.state # "unused"
       /\ c.message \in {x.conn[s].message, None}
  BY <1>1, <1>4, <1>5, <1>6, <1>8 DEF ConnType
<1>13. m \in WorldType /\ m.conn[s] = d
  BY <1>5, <1>8, <1>9, <1>11, <1>12, RemoveEffect
<1>14. PICK u : u = WithConn(m, s, c)
  OBVIOUS
<1>15. u \in WorldType /\ Calm(x, u)
  BY <1>6, <1>9, <1>11, <1>12, <1>13, <1>14, RemoveCalm, WithConnType
<1>16. v = WithFree(u, n, s)
  <2>1. u = [m EXCEPT !.conn[s].listeners = @ \cup {"idle"}]
    BY <1>4, <1>13, <1>14 DEF WithConn, WorldType
  <2>2. x = [w EXCEPT !.conn[s].message = None]
    BY <1>1, <1>3, <1>7 DEF WithConn, WorldType
  <2> QED
    BY <2>1, <2>2, <1>2, <1>11, <1>13 DEF PoolSocket, WithFree, WorldType
<1>17. /\ v \in WorldType /\ v.conn = u.conn /\ v.ticks = u.ticks
       /\ v.pool.requests = u.pool.requests
       /\ v.pool.sockets = u.pool.sockets /\ v.pool.total = u.pool.total
  BY <1>15, <1>16, WithFreeType
<1>18. ASSUME PoolOK(w, origin)
       PROVE  PoolOK(v, origin)
  <2>1. PoolOK(x, origin)
    BY <1>10, <1>18, MildPool
  <2>2. Balanced(m, origin, s) /\ (Enough => Served(m))
    BY <2>1, <1>9, <1>10, <1>11, <1>12, RemovePool
  <2>3. PoolOK(u, origin)
    BY <2>2, <1>5, <1>6, <1>12, <1>13, <1>14, WithConnPool
  <2>4. Busy(v) = Busy(u) /\ Used(v) = Used(u) /\ Placed(v, origin) = Placed(u, origin)
    BY <1>17 DEF Busy, Used, Placed, Queued
  <2>5. Filed(v) /\ (Waits(v) <=> Waits(u))
    BY <2>3, <1>17 DEF PoolOK, Balanced, Filed, Waits
  <2> QED
    BY <2>3, <2>4, <2>5, <1>17 DEF PoolOK, Balanced, Supplied, Served
<1> QED
  BY <1>10, <1>15, <1>17, <1>18 DEF Orderly, Calm

\* The 'free' event of a socket.
LEMMA FreeOrderly ==
  ASSUME NEW w, WorldOK(w, origin), Queues(w), NEW s \in Sockets,
         NEW v, v = FreeSocket(w, s)
  PROVE  Orderly(w, v)
<1>1. w \in WorldType
  BY DEF WorldOK
<1>2. PICK n : n = GetName(w.conn[s].target)
  OBVIOUS
<1>3. CASE v = w
  BY <1>1, <1>3 DEF Orderly, Calm
<1>4. CASE v = DestroySocket(w, s)
  BY <1>1, <1>4, DestroyOrderly
<1>5. CASE /\ "agent" \in w.conn[s].listeners
           /\ w.pool.requests[n] # <<>> /\ v = ServeFirst(w, n, s)
  <2>1. w.conn[s].target \in Origins /\ n \in Origins
    BY <1>2, <1>5, InUse, GetNameType
  <2>2. Serves(w, v, n, s)
    BY <2>1, <1>2, <1>5, ServeFirstEffect
  <2>3. v \in WorldType /\ Calm(w, v)
    BY <2>1, <2>2, <1>1, ServesCalm DEF Serves
  <2> QED
    BY <2>1, <2>2, <2>3, ServePool DEF Orderly
<1>6. CASE "agent" \in w.conn[s].listeners /\ Poolable(w, s) /\ v = PoolSocket(w, s)
  <2>1. w.conn[s].target \in Origins /\ KeepAlive
    BY <1>6, InUse DEF Poolable
  <2> QED
    BY <2>1, <1>6, IdleOrderly
<1> QED
  BY <1>2, <1>3, <1>4, <1>5, <1>6 DEF FreeSocket


-----------------------------------------------------------------------------
(* Which steps are orderly: all but those that attach a request to a socket, *)
(* make a request, or fail a socket.                                         *)

LEMMA BecomesOrderly ==
  ASSUME NEW w, NEW v, Orderly(w, v), Become(v)
  PROVE  Orderly(w, World')
<1>1. World' = v
  BY DEF Become, World, Orderly, WorldType
<1> QED
  BY <1>1

LEMMA StillOrderly ==
  ASSUME CInv, UNCHANGED <<pool, conn, ticks>>
  PROVE  Orderly(World, World')
<1>1. World \in WorldType /\ World' = World
  BY Typed DEF CInv, World
<1> QED
  BY <1>1 DEF Orderly, Calm

LEMMA ReadResponseOrderly ==
  ASSUME CInv, NEW r \in Requests, ReadResponse(r)
  PROVE  Orderly(World, World')
<1>1. PICK t : t = Tick("end", r, None)
  OBVIOUS
<1>2. t \in TickType /\ t.fn # "error"
  <2>1. None \in Sockets \cup {None} /\ r \in Requests \cup {None}
    OBVIOUS
  <2> QED
    BY <2>1, <1>1, TickFields
<1>3. PICK v : v = WithTicks(World, Append(World.ticks, t))
  OBVIOUS
<1>4. World \in WorldType
  BY Typed DEF CInv
<1>5. Orderly(World, v)
  BY <1>2, <1>3, <1>4, AppendOrderly
<1>6. World.ticks = ticks /\ ticks' = Append(ticks, t) /\ UNCHANGED <<pool, conn>>
  BY <1>1, Typed DEF CInv, ReadResponse
<1>7. Become(v)
  <2>1. v.ticks = Append(ticks, t) /\ v.pool = pool /\ v.conn = conn
    BY <1>3, <1>6 DEF WithTicks, World
  <2> QED
    BY <2>1, <1>6 DEF Become
<1> QED
  BY <1>5, <1>7, BecomesOrderly

\* The calls, events and timeouts that destroy a socket, if there is one.
LEMMA DestroyedOrderly ==
  ASSUME CInv, NEW s \in Sockets, Become(DestroySocket(World, s))
  PROVE  Orderly(World, World')
<1>1. World \in WorldType
  BY Typed DEF CInv
<1>2. PICK v : v = DestroySocket(World, s)
  OBVIOUS
<1>3. Orderly(World, v) /\ Become(v)
  BY <1>1, <1>2, DestroyOrderly
<1> QED
  BY <1>3, BecomesOrderly

LEMMA DestroyCallOrderly ==
  ASSUME CInv, NEW r \in Requests, Destroy(r, FALSE) \/ Abort(r)
  PROVE  Orderly(World, World')
<1>1. PICK s : s = req[r].socket
  OBVIOUS
<1>2. CASE s = None
  <2>1. Become(World)
    BY <1>1, <1>2 DEF Destroy, Abort
  <2>2. UNCHANGED <<pool, conn, ticks>>
    BY <2>1, Typed DEF Become, CInv
  <2> QED
    BY <2>2, StillOrderly
<1>3. CASE s # None
  <2>1. s \in Sockets
    BY <1>1, <1>3, Typed DEF CInv, ReqMap, ReqType
  <2>2. Become(DestroySocket(World, s))
    BY <1>1, <1>3 DEF Destroy, Abort
  <2> QED
    BY <2>1, <2>2, DestroyedOrderly
<1> QED
  BY <1>2, <1>3

LEMMA AgentDestroyOrderly ==
  ASSUME CInv, AgentDestroy
  PROVE  Orderly(World, World') /\ Firm(World, World')
<1>1. /\ World \in WorldType /\ World.pool = pool /\ World.conn = conn /\ World.ticks = ticks
      /\ pool \in PoolType /\ conn \in [Sockets -> ConnType] /\ ticks \in Seq(TickType)
  BY Typed DEF WorldType, CInv
<1>2. PICK live : live = {s \in UNION {pool.sockets[n] \cup pool.freeSockets[n] : n \in Origins} :
                            Live(World, s)}
  OBVIOUS
<1>3. /\ conn' = [s \in Sockets |-> IF s \in live THEN [conn[s] EXCEPT !.state = "destroyed"]
                                    ELSE conn[s]]
      /\ \E q \in SetToSeqs(live) :
            ticks' = IF CloseByTick
                     THEN ticks \o [i \in 1..Len(q) |-> Tick("close", None, q[i])]
                     ELSE ticks
      /\ pool' = pool
  BY <1>2 DEF AgentDestroy
<1>4. live \in SUBSET Sockets /\ \A s \in live : Live(World, s)
  <2>1. /\ pool.sockets \in [Origins -> SUBSET Sockets]
        /\ pool.freeSockets \in [Origins -> SUBSET Sockets]
    BY <1>1 DEF PoolType
  <2> QED
    BY <2>1, <1>2
<1>5. PICK q \in SetToSeqs(live) :
            ticks' = IF CloseByTick
                     THEN ticks \o [i \in 1..Len(q) |-> Tick("close", None, q[i])]
                     ELSE ticks
  BY <1>3
<1>6. Len(q) \in Nat /\ \A i \in 1..Len(q) : q[i] \in live
  <2>1. PICK c : c = Cardinality(live)
    OBVIOUS
  <2>2. c \in Nat
    BY <2>1, <1>4, AgentAssumption, FS_Subset, FS_CardinalityType
  <2>3. q \in [1..c -> live]
    BY <2>1 DEF SetToSeqs
  <2>4. Len(q) = c
    BY <2>2, <2>3
  <2> QED
    BY <2>2, <2>3, <2>4
<1>7. PICK z : z = [i \in 1..Len(q) |-> Tick("close", None, q[i])]
  OBVIOUS
<1>8. ASSUME NEW i \in 1..Len(q)
      PROVE  Tick("close", None, q[i]) \in TickType /\ Tick("close", None, q[i]).fn = "close"
  <2>1. q[i] \in Sockets \cup {None} /\ None \in Requests \cup {None}
    BY <1>4, <1>6
  <2> QED
    BY <2>1, TickFields
<1>9. z \in Seq(TickType) /\ Len(z) = Len(q) /\ \A i \in 1..Len(z) : z[i].fn = "close"
  BY <1>6, <1>7, <1>8
<1>10. /\ ticks' \in Seq(TickType)
       /\ \A t \in ToSet(ticks') : t.fn = "error" => t \in ToSet(ticks)
  <2>1. ticks \o z \in Seq(TickType)
    BY <1>1, <1>9
  <2>2. \A t \in ToSet(ticks \o z) : t \in ToSet(ticks) \/ \E i \in 1..Len(z) : t = z[i]
    <3>1. ASSUME NEW i \in 1..Len(ticks \o z)
          PROVE  (ticks \o z)[i] \in ToSet(ticks) \/ \E j \in 1..Len(z) : (ticks \o z)[i] = z[j]
      <4>1. CASE i \in 1..Len(ticks)
        BY <4>1, <1>1, <1>9 DEF ToSet
      <4>2. CASE i \notin 1..Len(ticks)
        <5>1. i - Len(ticks) \in 1..Len(z) /\ (ticks \o z)[i] = z[i - Len(ticks)]
          BY <4>2, <1>1, <1>9
        <5> QED
          BY <5>1
      <4> QED
        BY <4>1, <4>2
    <3> QED
      BY <3>1, <2>1 DEF ToSet
  <2> QED
    BY <2>1, <2>2, <1>1, <1>5, <1>7, <1>9
<1>11. conn' \in [Sockets -> ConnType]
       /\ \A s \in Sockets : \/ conn'[s] = conn[s]
                             \/ Live(World, s) /\ conn'[s] = WithState(conn[s], "destroyed")
  <2>1. ASSUME NEW s \in Sockets
        PROVE  WithState(conn[s], "destroyed") \in ConnType
    <3>1. conn[s] \in ConnType
      BY <1>1
    <3> QED
      BY <3>1 DEF WithState, ConnType
  <2>2. conn' = [s \in Sockets |-> IF s \in live THEN WithState(conn[s], "destroyed")
                                   ELSE conn[s]]
    BY <1>3 DEF WithState
  <2> QED
    BY <2>1, <2>2, <1>1, <1>4
<1>12. World' \in WorldType /\ World'.pool = pool /\ World'.conn = conn' /\ World'.ticks = ticks'
  BY <1>1, <1>3, <1>10, <1>11 DEF World, WorldType
<1>13. ASSUME NEW s \in Sockets
       PROVE  /\ conn'[s].message = conn[s].message /\ conn'[s].target = conn[s].target
              /\ conn'[s].listeners = conn[s].listeners
              /\ \/ conn'[s].state = conn[s].state
                 \/ conn[s].state \in {"open", "ended"} /\ conn'[s].state = "destroyed"
  <2>1. conn[s] \in ConnType
    BY <1>1
  <2>2. /\ WithState(conn[s], "destroyed").message = conn[s].message
        /\ WithState(conn[s], "destroyed").target = conn[s].target
        /\ WithState(conn[s], "destroyed").listeners = conn[s].listeners
        /\ WithState(conn[s], "destroyed").state = "destroyed"
    BY <2>1 DEF WithState, ConnType
  <2> QED
    BY <2>2, <1>1, <1>11 DEF Live
<1>14. Mild(World, World') /\ Calm(World, World')
  BY <1>1, <1>3, <1>10, <1>12, <1>13 DEF Mild, Calm, Unclosed
<1>15. Len(ticks) > 0 => Len(ticks') > 0 /\ ticks'[1] = ticks[1]
  BY <1>1, <1>5, <1>7, <1>9
<1>16. Firm(World, World')
  BY <1>1, <1>12, <1>13, <1>15 DEF Firm
<1> QED
  BY <1>14, <1>16, MildOrderly


\* Events of the network: what they do to the socket s.
LEMMA ResponseCompleteOrderly ==
  ASSUME CInv, NEW s \in Sockets, NEW double \in BOOLEAN, ResponseComplete(s, double)
  PROVE  Orderly(World, World')
<1>1. CASE double = TRUE
  <2>1. Become(DestroySocket(World, s))
    BY <1>1 DEF ResponseComplete
  <2> QED
    BY <2>1, DestroyedOrderly
<1>2. CASE double # TRUE
  <2>1. PICK v : v = Unlisten(World, s, {"reader"})
    OBVIOUS
  <2>2. World \in WorldType
    BY Typed DEF CInv
  <2>3. Marks(World, v, s) /\ v.conn[s].state = World.conn[s].state
        /\ v.conn[s].listeners = World.conn[s].listeners \ {"reader"}
    BY <2>1, <2>2, UnlistenMarks
  <2>4. v.conn[s].listeners \subseteq World.conn[s].listeners
    BY <2>3
  <2>5. Orderly(World, v)
    BY <2>2, <2>3, <2>4, MarksOrderly
  <2>6. Become(v)
    BY <1>2, <2>1 DEF ResponseComplete
  <2> QED
    BY <2>5, <2>6, BecomesOrderly
<1> QED
  BY <1>1, <1>2

\* A socket is destroyed and its error noted, or not.
LEMMA FailOrderly ==
  ASSUME CInv, NEW s \in Sockets, NEW b \in BOOLEAN,
         NEW d, d = DestroySocket(World, s), NEW v, v = SetError(d, s, b), Become(v)
  PROVE  Orderly(World, World')
<1>1. World \in WorldType
  BY Typed DEF CInv
<1>2. Orderly(World, d) /\ d \in WorldType
  BY <1>1, DestroyOrderly DEF Orderly
<1>3. Marks(d, v, s) /\ v.conn[s].state = d.conn[s].state
      /\ v.conn[s].listeners = d.conn[s].listeners
  BY <1>2, ErrorMarks
<1>4. v.conn[s].listeners \subseteq d.conn[s].listeners
  BY <1>3
<1>5. Orderly(d, v)
  BY <1>2, <1>3, <1>4, MarksOrderly
<1>6. Orderly(World, v)
  BY <1>2, <1>5, OrderlyTrans
<1> QED
  BY <1>6, BecomesOrderly

LEMMA ParseErrorOrderly ==
  ASSUME CInv, NEW s \in Sockets, ParseError(s)
  PROVE  Orderly(World, World')
<1>1. PICK d : d = DestroySocket(World, s)
  OBVIOUS
<1>2. PICK v : v = SetError(d, s, TRUE)
  OBVIOUS
<1>3. Become(v) /\ TRUE \in BOOLEAN
  BY <1>1, <1>2 DEF ParseError, SetError
<1> QED
  BY <1>1, <1>2, <1>3, FailOrderly

\* A socket that is used up: destroySoon, or the end of its own side.
LEMMA EndedOrderly ==
  ASSUME NEW w \in WorldType, NEW s \in Sockets, w.conn[s].state = "open",
         NEW v, v = SetState(w, s, "ended")
  PROVE  Orderly(w, v)
<1>1. "ended" \in {"ended", "closed"}
  OBVIOUS
<1>2. Marks(w, v, s) /\ v.conn[s].state = "ended"
      /\ v.conn[s].listeners = w.conn[s].listeners
  BY <1>1, StateMarks
<1>3. /\ v.conn[s].listeners \subseteq w.conn[s].listeners
      /\ Unclosed(w.conn[s]) /\ v.conn[s].state # "unused"
  BY <1>2 DEF Unclosed
<1> QED
  BY <1>2, <1>3, MarksOrderly

LEMMA PeerEndOrderly ==
  ASSUME CInv, NEW s \in Sockets, PeerEnd(s)
  PROVE  Orderly(World, World')
<1>1. CASE Live(World, s) /\ Has(s, "reader")
  <2>1. PICK d : d = DestroySocket(World, s)
    OBVIOUS
  <2>2. PICK b : b = (d.conn[s].hadError \/ (req[conn[s].message].res = "none"
                                                /\ ~conn[s].hadError))
    OBVIOUS
  <2>3. PICK v : v = SetError(d, s, b)
    OBVIOUS
  <2>4. /\ d \in WorldType /\ World \in WorldType
        /\ World.conn = conn
    BY <2>1, DestroyOrderly, Typed DEF CInv, Orderly
  <2>5. Become(v)
    BY <1>1, <2>1, <2>2, <2>3, <2>4 DEF PeerEnd, SetError
  <2>6. b \in BOOLEAN
    BY <2>2, Zenon
  <2> QED
    BY <2>1, <2>3, <2>5, <2>6, FailOrderly
<1>2. CASE ~(Live(World, s) /\ Has(s, "reader"))
  <2>1. PICK v : v = SetState(World, s, "ended")
    OBVIOUS
  <2>2. Become(v) /\ World \in WorldType /\ World.conn[s].state = "open"
    BY <1>2, <2>1, Typed DEF PeerEnd, SetState, CInv
  <2>3. Orderly(World, v)
    BY <2>1, <2>2, EndedOrderly
  <2> QED
    BY <2>2, <2>3, BecomesOrderly
<1> QED
  BY <1>1, <1>2

LEMMA AlwaysQueues ==
  ASSUME CInv
  PROVE  Queues(World) /\ WorldOK(World, origin)
BY DEF CInv, IInv, Sound, Accounts, Safe, Queues

LEMMA UpgradeOrderly ==
  ASSUME CInv, NEW s \in Sockets, NEW listening \in BOOLEAN, Upgrade(s, listening)
  PROVE  Orderly(World, World')
<1>1. /\ World \in WorldType /\ World.conn = conn /\ WorldOK(World, origin)
      /\ Queues(World) /\ conn[s] \in ConnType
  BY Typed, AlwaysQueues DEF CInv
<1>2. conn[s].state = "open" /\ "reader" \in conn[s].listeners
  BY DEF Upgrade, Reading, Has
<1>3. CASE Become([Unlisten(AgentRemove(World, s), s, {"request", "reader"})
                      EXCEPT !.conn[s].message = None])
  <2>1. World.conn[s].target \in Origins
    BY <1>1, <1>2, InUse
  <2>2. PICK a : a = AgentRemove(World, s)
    OBVIOUS
  <2>3. PICK u : u = Unlisten(a, s, {"request", "reader"})
    OBVIOUS
  <2>4. PICK c : c = Given(World.conn[s])
    OBVIOUS
  <2>5. PICK v : v = Forgotten(World, s, c)
    OBVIOUS
  <2>6. Become(v)
    <3>1. [u EXCEPT !.conn[s].message = None] = v
      BY <1>1, <2>1, <2>2, <2>3, <2>4, <2>5, GivenWorld
    <3> QED
      BY <3>1, <1>3, <2>2, <2>3
  <2>7. /\ c \in ConnType /\ c.state = "open" /\ c.message = None
        /\ c.listeners = conn[s].listeners \ {"agent", "request", "reader"}
        /\ c.target = World.conn[s].target
    <3>1. c.target = World.conn[s].target
      BY <1>1, <2>4 DEF Given, ConnType
    <3> QED
      BY <3>1, <1>1, <1>2, <2>4, GivenType
  <2>8. Marks(World, World, s) /\ Mild(World, World) /\ Unclosed(World.conn[s])
    BY <1>1, <1>2 DEF Marks, Mild, Unclosed
  <2>9. /\ c.state # "unused" /\ c.message \in {World.conn[s].message, None}
        /\ c.listeners \subseteq World.conn[s].listeners
        /\ "agent" \notin c.listeners \/ ~Unclosed(c)
        /\ World.conn[s].listeners \subseteq World.conn[s].listeners
    BY <1>1, <2>7
  <2>10. Orderly(World, v)
    BY <1>1, <2>1, <2>5, <2>7, <2>8, <2>9, ForgottenOrderly
  <2> QED
    BY <2>6, <2>10, BecomesOrderly
<1>4. CASE Become(DestroySocket(Unlisten(World, s, {"reader"}), s))
  <2>1. PICK u : u = Unlisten(World, s, {"reader"})
    OBVIOUS
  <2>2. PICK v : v = DestroySocket(u, s)
    OBVIOUS
  <2>3. Marks(World, u, s) /\ u.conn[s].state = World.conn[s].state
        /\ u.conn[s].listeners = World.conn[s].listeners \ {"reader"}
    BY <1>1, <2>1, UnlistenMarks
  <2>4. u.conn[s].listeners \subseteq World.conn[s].listeners
    BY <2>3
  <2>5. Orderly(World, u) /\ u \in WorldType
    BY <1>1, <2>3, <2>4, MarksOrderly DEF Marks
  <2>6. Orderly(u, v)
    BY <2>2, <2>5, DestroyOrderly
  <2>7. Orderly(World, v) /\ Become(v)
    BY <1>4, <2>1, <2>2, <2>5, <2>6, OrderlyTrans
  <2> QED
    BY <2>7, BecomesOrderly
<1> QED
  BY <1>3, <1>4 DEF Upgrade


\* What the ticks start from.
LEMMA PoppedStart ==
  ASSUME CInv, ticks # <<>>
  PROVE  /\ Popped \in WorldType /\ WorldOK(Popped, origin) /\ Queues(Popped)
         /\ Popped.conn = conn /\ Popped.pool = pool
         /\ Orderly(World, Popped)
<1>1. PICK h : h = Head(ticks)
  OBVIOUS
<1>2. /\ Popped \in WorldType /\ WorldOK(Popped, origin)
      /\ Popped.conn = conn /\ Popped.pool = pool
      /\ \A t \in ToSet(Popped.ticks) : t \in ToSet(World.ticks)
      /\ Safe(Popped, req, shouldKeepAlive, origin)
  BY <1>1, PoppedSafe DEF CInv
<1>3. World.conn = conn /\ World.pool = pool
  BY Typed DEF CInv
<1>4. Queues(Popped) /\ Mild(World, Popped) /\ Calm(World, Popped)
  BY <1>2, <1>3 DEF Safe, Queues, Mild, Calm
<1>5. Orderly(World, Popped)
  BY <1>4, MildOrderly
<1> QED
  BY <1>1, <1>2, <1>4, <1>5

LEMMA SameOrderly ==
  ASSUME CInv, ticks # <<>>, Become(Popped)
  PROVE  Orderly(Popped, World')
<1>1. Orderly(Popped, Popped)
  BY PoppedStart DEF Orderly, Calm
<1> QED
  BY <1>1, BecomesOrderly

LEMMA RunOnSocketDestroyedOrderly ==
  ASSUME CInv, NEW r \in Requests, NEW s \in Sockets, RunOnSocketDestroyed(r, s)
  PROVE  Orderly(Popped, World')
<1>1. PICK w : w = Popped
  OBVIOUS
<1>2. w \in WorldType /\ WorldOK(w, origin) /\ Queues(w)
  BY <1>1, PoppedStart DEF RunOnSocketDestroyed, Runs
<1>3. CASE Become(FreeSocket(w, s))
  <2>1. PICK v : v = FreeSocket(w, s)
    OBVIOUS
  <2>2. Orderly(w, v) /\ Become(v)
    BY <1>2, <1>3, <2>1, FreeOrderly
  <2> QED
    BY <2>2, <1>1, BecomesOrderly
<1>4. CASE Become([Popped EXCEPT !.ticks = Append(@, Tick("hangUp", r, None))])
  <2>1. PICK t : t = Tick("hangUp", r, None)
    OBVIOUS
  <2>2. PICK v : v = WithTicks(w, Append(w.ticks, t))
    OBVIOUS
  <2>3. t \in TickType /\ t.fn # "error"
    <3>1. None \in Sockets \cup {None} /\ r \in Requests \cup {None}
      OBVIOUS
    <3> QED
      BY <3>1, <2>1, TickFields
  <2>4. Orderly(w, v)
    BY <1>2, <2>2, <2>3, AppendOrderly
  <2>5. Become(v)
    BY <1>1, <1>4, <2>1, <2>2 DEF WithTicks
  <2> QED
    BY <2>4, <2>5, <1>1, BecomesOrderly
<1> QED
  BY <1>1, <1>3, <1>4 DEF RunOnSocketDestroyed

LEMMA RunEmitFreeOrderly ==
  ASSUME CInv, NEW r \in Requests, NEW s \in Sockets, RunEmitFree(r, s)
  PROVE  Orderly(Popped, World')
<1>1. PICK w : w = Popped
  OBVIOUS
<1>2. w \in WorldType /\ WorldOK(w, origin) /\ Queues(w)
  BY <1>1, PoppedStart DEF RunEmitFree, Runs
<1>3. PICK v : v = FreeSocket(w, s)
  OBVIOUS
<1>4. Orderly(w, v) /\ Become(v)
  BY <1>1, <1>2, <1>3, FreeOrderly DEF RunEmitFree
<1> QED
  BY <1>4, <1>1, BecomesOrderly

LEMMA RunEndOrderly ==
  ASSUME CInv, NEW r \in Requests, RunEnd(r)
  PROVE  Orderly(Popped, World')
<1>1. PICK w : w = Popped
  OBVIOUS
<1>2. PICK s : s = req[r].socket
  OBVIOUS
<1>3. ticks # <<>> /\ w \in WorldType /\ w.conn = conn /\ s \in Sockets
  BY <1>1, <1>2, EndOn DEF RunEnd, Runs, CInv
<1>4. CASE Become([Unlisten(w, s, {"request", "reader"}) EXCEPT
                      !.ticks = Append(@, Tick("emitFree", r, s))])
  <2>1. PICK u : u = Unlisten(w, s, {"request", "reader"})
    OBVIOUS
  <2>2. PICK t : t = Tick("emitFree", r, s)
    OBVIOUS
  <2>3. PICK v : v = WithTicks(u, Append(u.ticks, t))
    OBVIOUS
  <2>4. t \in TickType /\ t.fn # "error"
    <3>1. s \in Sockets \cup {None} /\ r \in Requests \cup {None}
      BY <1>3
    <3> QED
      BY <3>1, <2>2, TickFields
  <2>5. Marks(w, u, s) /\ u.conn[s].state = w.conn[s].state
        /\ u.conn[s].listeners = w.conn[s].listeners \ {"request", "reader"}
    BY <1>3, <2>1, UnlistenMarks
  <2>6. u.conn[s].listeners \subseteq w.conn[s].listeners
    BY <2>5
  <2>7. Orderly(w, u) /\ u \in WorldType
    BY <1>3, <2>5, <2>6, MarksOrderly DEF Marks
  <2>8. Orderly(u, v)
    BY <2>3, <2>4, <2>7, AppendOrderly
  <2>9. Orderly(w, v) /\ Become(v)
    BY <1>4, <2>1, <2>2, <2>3, <2>7, <2>8, OrderlyTrans DEF WithTicks
  <2> QED
    BY <2>9, <1>1, BecomesOrderly
<1>5. CASE w.conn[s].state = "open" /\ Become([w EXCEPT !.conn[s].state = "ended"])
  <2>1. PICK v : v = SetState(w, s, "ended")
    OBVIOUS
  <2>2. Orderly(w, v) /\ Become(v)
    BY <1>3, <1>5, <2>1, EndedOrderly DEF SetState
  <2> QED
    BY <2>2, <1>1, BecomesOrderly
<1>6. CASE Become(w)
  BY <1>1, <1>3, <1>6, SameOrderly
<1>7. Writable(World, s) <=> w.conn[s].state = "open"
  BY <1>3, Typed DEF Writable, CInv
<1> QED
  BY <1>1, <1>2, <1>4, <1>5, <1>6, <1>7 DEF RunEnd

LEMMA RunErrorOrderly ==
  ASSUME CInv, NEW s \in Sockets, RunError(s)
  PROVE  Orderly(Popped, World')
<1>1. PICK w : w = Popped
  OBVIOUS
<1>2. /\ ticks # <<>> /\ w \in WorldType /\ WorldOK(w, origin) /\ Queues(w) /\ w.conn = conn
  BY <1>1, PoppedStart DEF RunError, Runs
<1>3. conn[s].state = "destroyed"
  <2>1. PICK h : h = Head(ticks)
    OBVIOUS
  <2>2. h.fn = "error" /\ h.sock = s
    <3>1. None \in Requests \cup {None} /\ s \in Sockets \cup {None}
      OBVIOUS
    <3> QED
      BY <3>1, <2>1, TickFields DEF RunError, Runs
  <2>3. TickOK(World, req, shouldKeepAlive, origin, h)
    BY <2>1, <1>2, PoppedSafe DEF CInv
  <2> QED
    BY <2>2, <2>3, Typed DEF TickOK, ErrorOK, CInv
<1>4. CASE Become([Unlisten(w, s, {"reader"}) EXCEPT !.conn[s].hadError = TRUE])
  <2>1. PICK u : u = Unlisten(w, s, {"reader"})
    OBVIOUS
  <2>2. PICK b \in BOOLEAN : b = TRUE
    OBVIOUS
  <2>3. PICK v : v = SetError(u, s, b)
    OBVIOUS
  <2>4. Marks(w, u, s) /\ u.conn[s].state = w.conn[s].state
        /\ u.conn[s].listeners = w.conn[s].listeners \ {"reader"}
    BY <1>2, <2>1, UnlistenMarks
  <2>5. u.conn[s].listeners \subseteq w.conn[s].listeners
    BY <2>4
  <2>6. Orderly(w, u) /\ u \in WorldType
    BY <1>2, <2>4, <2>5, MarksOrderly DEF Marks
  <2>7. Marks(u, v, s) /\ v.conn[s].state = u.conn[s].state
        /\ v.conn[s].listeners = u.conn[s].listeners
    BY <2>3, <2>6, ErrorMarks
  <2>8. v.conn[s].listeners \subseteq u.conn[s].listeners
    BY <2>7
  <2>9. Orderly(u, v)
    BY <2>6, <2>7, <2>8, MarksOrderly
  <2>10. Orderly(w, v) /\ Become(v)
    BY <1>4, <2>1, <2>2, <2>3, <2>6, <2>9, OrderlyTrans DEF SetError
  <2> QED
    BY <2>10, <1>1, BecomesOrderly
<1>5. CASE Has(s, "idle") /\ Become(AgentRemove(Unlisten(w, s, {"idle"}), s))
  <2>1. PICK u : u = Unlisten(w, s, {"idle"})
    OBVIOUS
  <2>2. /\ Marks(w, u, s) /\ u.conn[s].state = w.conn[s].state
        /\ u.conn[s].listeners = w.conn[s].listeners \ {"idle"}
    BY <1>2, <2>1, UnlistenMarks
  <2>3. u.conn[s].listeners \subseteq w.conn[s].listeners
    BY <2>2
  <2>4. w.conn[s].target \in Origins /\ u.conn[s].target \in Origins /\ u \in WorldType
    BY <1>2, <1>5, <2>2, InUse DEF Has, Marks
  <2>5. Mild(w, u)
    BY <1>2, <2>2, <2>3, MarksOrderly
  <2>6. WorldOK(u, origin)
    BY <1>2, <2>1, <2>4, UnlistenOK
  <2>7. PICK c : c = Unheeded(u.conn[s])
    OBVIOUS
  <2>8. u.conn[s] \in ConnType
    BY <2>4 DEF WorldType
  <2>9. /\ c \in ConnType /\ c.state = u.conn[s].state /\ c.message = u.conn[s].message
        /\ c.target = u.conn[s].target /\ c.listeners = u.conn[s].listeners \ {"agent"}
    BY <2>7, <2>8 DEF Unheeded, ConnType
  <2>10. PICK v : v = Forgotten(u, s, c)
    OBVIOUS
  <2>11. Become(v)
    <3>1. v = AgentRemove(u, s)
      BY <2>4, <2>6, <2>7, <2>10, AgentRemoveIs
    <3> QED
      BY <3>1, <2>1, <1>5
  <2>12. /\ Unclosed(w.conn[s]) /\ c.state # "unused"
         /\ c.message \in {u.conn[s].message, None}
         /\ c.listeners \subseteq u.conn[s].listeners
         /\ "agent" \notin c.listeners \/ ~Unclosed(c)
    BY <1>2, <1>3, <2>2, <2>9 DEF Unclosed
  <2>13. Orderly(w, v)
    BY <1>2, <2>2, <2>3, <2>4, <2>5, <2>6, <2>9, <2>10, <2>12, ForgottenOrderly
  <2> QED
    BY <2>11, <2>13, <1>1, BecomesOrderly
<1>6. CASE Become(w)
  BY <1>1, <1>2, <1>6, SameOrderly
<1> QED
  BY <1>1, <1>4, <1>5, <1>6 DEF RunError

LEMMA ClosedOrderly ==
  ASSUME NEW w, WorldOK(w, origin), Queues(w), w.conn = conn, NEW s \in Sockets,
         Closed(w, s)
  PROVE  Orderly(w, World')
<1>1. /\ w \in WorldType /\ w.conn[s] \in ConnType /\ w.conn[s].state = "destroyed"
      /\ w.conn[s].target \in Origins
  BY DEF WorldOK, WorldType, Closed, Targeted
<1>2. PICK b \in BOOLEAN :
          b = TRUE <=> w.conn[s].hadError = TRUE \/ "request" \in w.conn[s].listeners
  <2>1. CASE w.conn[s].hadError = TRUE \/ "request" \in w.conn[s].listeners
    BY <2>1
  <2>2. CASE ~(w.conn[s].hadError = TRUE \/ "request" \in w.conn[s].listeners)
    BY <2>2
  <2> QED
    BY <2>1, <2>2
<1>3. PICK k : k = SetState(w, s, "closed")
  OBVIOUS
<1>4. PICK c : c = Shut(w.conn[s], b)
  OBVIOUS
<1>5. PICK v : v = Forgotten(k, s, c)
  OBVIOUS
<1>6. Become(v)
  BY <1>2, <1>3, <1>4, <1>5, ClosedBecomes
<1>7. /\ Marks(w, k, s) /\ k.conn[s].state = "closed" /\ WorldOK(k, origin)
      /\ k.conn[s].listeners = w.conn[s].listeners
  <2>1. PICK g : g = IF "agent" \in w.conn[s].listeners THEN RemoveSocket(k, s) ELSE k
    OBVIOUS
  <2>2. PICK x : x = SetError(g, s, b)
    OBVIOUS
  <2> QED
    BY <1>1, <1>3, <2>1, <2>2, ClosedWorld
<1>8. /\ c \in ConnType /\ c.state = "closed" /\ c.target = w.conn[s].target
      /\ c.message = w.conn[s].message /\ c.listeners = w.conn[s].listeners
  <2>1. c.target = w.conn[s].target
    BY <1>1, <1>4 DEF Shut, ConnType
  <2> QED
    BY <2>1, <1>1, <1>4, ShutType
<1>9. Mild(w, k)
  <2>1. /\ k.conn[s].listeners \subseteq w.conn[s].listeners
        /\ Unclosed(w.conn[s]) /\ k.conn[s].state # "unused"
    BY <1>1, <1>7 DEF Unclosed
  <2> QED
    BY <2>1, <1>1, <1>7, MarksOrderly
<1>10. /\ Unclosed(w.conn[s]) /\ c.state # "unused" /\ k.conn[s].target \in Origins
       /\ c.target = k.conn[s].target /\ c.message \in {k.conn[s].message, None}
       /\ c.listeners \subseteq k.conn[s].listeners
       /\ k.conn[s].listeners \subseteq w.conn[s].listeners
       /\ "agent" \notin c.listeners \/ ~Unclosed(c)
  BY <1>1, <1>7, <1>8 DEF Unclosed, Marks
<1>11. Orderly(w, v)
  BY <1>1, <1>5, <1>7, <1>8, <1>9, <1>10, ForgottenOrderly
<1> QED
  BY <1>6, <1>11, BecomesOrderly


-----------------------------------------------------------------------------
(* The steps, by what they do to ticks and sockets. *)

LEMMA AppendedHead ==
  ASSUME NEW S, NEW q \in Seq(S), NEW t \in S
  PROVE  /\ Len(Append(q, t)) > 0
         /\ Len(q) > 0 => Append(q, t)[1] = q[1]
OBVIOUS

LEMMA DestroyFirm ==
  ASSUME NEW w \in WorldType, NEW s \in Sockets, NEW v, v = DestroySocket(w, s)
  PROVE  Firm(w, v)
<1>1. CASE ~Live(w, s)
  BY <1>1 DEF DestroySocket, Firm
<1>2. CASE Live(w, s)
  <2>1. PICK t : t = Tick("close", None, s)
    OBVIOUS
  <2>2. t \in TickType
    <3>1. None \in Requests \cup {None} /\ s \in Sockets \cup {None}
      OBVIOUS
    <3> QED
      BY <3>1, <2>1, TickFields
  <2>3. /\ Destroys(w, v, s)
        /\ v.ticks = IF CloseByTick THEN Append(w.ticks, t) ELSE w.ticks
    BY <1>2, <2>1, DestroyEffect
  <2>4. Len(w.ticks) > 0 => Len(v.ticks) > 0 /\ v.ticks[1] = w.ticks[1]
    BY <2>2, <2>3, AppendedHead DEF WorldType
  <2>5. \A z \in Sockets : v.conn[z].listeners = w.conn[z].listeners
    <3>1. w.conn[s] \in ConnType
      BY DEF WorldType
    <3>2. WithState(w.conn[s], "destroyed").listeners = w.conn[s].listeners
      BY <3>1 DEF WithState, ConnType
    <3> QED
      BY <2>3, <3>2 DEF Destroys
  <2> QED
    BY <2>4, <2>5 DEF Firm
<1> QED
  BY <1>1, <1>2

LEMMA BecomesFirm ==
  ASSUME NEW w, NEW v \in WorldType, Firm(w, v), Become(v)
  PROVE  Firm(w, World')
<1>1. World' = v
  BY DEF Become, World, WorldType
<1> QED
  BY <1>1

LEMMA StillFirm ==
  ASSUME CInv, UNCHANGED <<pool, conn, ticks>>
  PROVE  Firm(World, World')
<1>1. World' = World
  BY DEF World
<1> QED
  BY <1>1 DEF Firm

LEMMA DestroyCallFirm ==
  ASSUME CInv, NEW r \in Requests, Destroy(r, FALSE) \/ Abort(r)
  PROVE  Firm(World, World')
<1>1. PICK s : s = req[r].socket
  OBVIOUS
<1>2. CASE s = None
  <2>1. Become(World)
    BY <1>1, <1>2 DEF Destroy, Abort
  <2>2. UNCHANGED <<pool, conn, ticks>>
    BY <2>1, Typed DEF Become, CInv
  <2> QED
    BY <2>2, StillFirm
<1>3. CASE s # None
  <2>1. s \in Sockets /\ World \in WorldType
    BY <1>1, <1>3, Typed DEF CInv, ReqMap, ReqType
  <2>2. PICK v : v = DestroySocket(World, s)
    OBVIOUS
  <2>3. Become(v) /\ v \in WorldType
    BY <1>1, <1>3, <2>1, <2>2, DestroyOrderly DEF Destroy, Abort, Orderly
  <2> QED
    BY <2>1, <2>2, <2>3, DestroyFirm, BecomesFirm
<1> QED
  BY <1>2, <1>3

LEMMA ReadResponseFirm ==
  ASSUME CInv, NEW r \in Requests, ReadResponse(r)
  PROVE  Firm(World, World')
<1>1. PICK t : t = Tick("end", r, None)
  OBVIOUS
<1>2. t \in TickType
  <2>1. None \in Sockets \cup {None} /\ r \in Requests \cup {None}
    OBVIOUS
  <2> QED
    BY <2>1, <1>1, TickFields
<1>3. ticks' = Append(ticks, t) /\ conn' = conn /\ ticks \in Seq(TickType)
  BY <1>1, Typed DEF ReadResponse, CInv
<1>4. /\ World.ticks = ticks /\ World'.ticks = ticks' /\ World.conn = conn /\ World'.conn = conn'
  BY DEF World
<1>5. Len(ticks) > 0 => Len(ticks') > 0 /\ ticks'[1] = ticks[1]
  BY <1>2, <1>3, AppendedHead
<1> QED
  BY <1>3, <1>4, <1>5 DEF Firm

LEMMA AddRequestCalm ==
  ASSUME NEW w, NEW og, WorldOK(w, og), NEW r \in Requests, NEW o \in Origins,
         ~Underloaded(w, o) \/ Fresh(w) # {}, NEW v, v = AddRequest(w, r, o)
  PROVE  Calm(w, v) /\ Firm(w, v)
<1>1. w \in WorldType /\ w.ticks \in Seq(TickType)
  BY DEF WorldOK, WorldType
<1>2. CASE Underloaded(w, o)
  <2>1. PICK k : k = CHOOSE x \in Fresh(w) : TRUE
    OBVIOUS
  <2>2. k \in Fresh(w) /\ k \in Sockets
    BY <2>1, <1>2 DEF Fresh
  <2>3. PICK u : u = NewSocket(w, k, o)
    OBVIOUS
  <2>4. Makes(w, u, k, o)
    BY <2>2, <2>3, <1>1, MakesEffect
  <2>5. PICK t : t = Tick("onSocket", r, k)
    OBVIOUS
  <2>6. t \in TickType /\ t.fn # "error"
    <3>1. r \in Requests \cup {None} /\ k \in Sockets \cup {None}
      BY <2>2
    <3> QED
      BY <3>1, <2>5, TickFields
  <2>7. v = WithTicks(u, Append(u.ticks, t))
    BY <1>2, <2>1, <2>3, <2>5 DEF AddRequest, SetRequestSocket, WithTicks
  <2>8. u \in WorldType /\ u.ticks = w.ticks
    BY <2>4 DEF Makes
  <2>9. PICK q : q = Append(w.ticks, t)
    OBVIOUS
  <2>10. v.conn = u.conn /\ v.ticks = Append(w.ticks, t)
    <3>1. q \in Seq(TickType)
      BY <1>1, <2>6, <2>9, AppendedTick
    <3>2. v = WithTicks(u, q)
      BY <2>7, <2>8, <2>9
    <3>3. WithTicks(u, q).conn = u.conn /\ WithTicks(u, q).ticks = q
      BY <2>8, <3>1, WithTicksType
    <3> QED
      BY <2>9, <3>2, <3>3
  <2>11. Calm(w, v)
    <3>1. Calm(w, u)
      BY <2>4, MakesCalm
    <3>2. \A a \in ToSet(v.ticks) : a \in ToSet(w.ticks) \/ a = t
      BY <1>1, <2>10, AppendedSet
    <3> QED
      BY <3>1, <3>2, <2>6, <2>10 DEF Calm
  <2>12. Firm(w, v)
    <3>1. Len(w.ticks) > 0 => Len(v.ticks) > 0 /\ v.ticks[1] = w.ticks[1]
      BY <1>1, <2>6, <2>10, AppendedHead
    <3>2. \A s \in Sockets : w.conn[s].state # "unused" => v.conn[s] = w.conn[s]
      BY <2>2, <2>4, <2>10 DEF Makes, Fresh
    <3> QED
      BY <3>1, <3>2 DEF Firm
  <2> QED
    BY <2>11, <2>12
<1>3. CASE ~Underloaded(w, o)
  <2>1. v = Enqueue(w, r, o)
    BY <1>3 DEF AddRequest
  <2>2. v.conn = w.conn /\ v.ticks = w.ticks
    BY <2>1, <1>1 DEF Enqueue, WorldType
  <2> QED
    BY <2>2 DEF Calm, Firm
<1> QED
  BY <1>2, <1>3


\* The steps of the program, of the network, and the ticks, but those of four
\* actions.
Called == Orderly(World, World') /\ Firm(World, World') /\ UNCHANGED <<origin, crashed>>
Happened == Orderly(World, World') /\ IO /\ UNCHANGED <<origin, crashed>>
Ticked == /\ ticks # <<>> /\ Orderly(Popped, World') /\ UNCHANGED origin
          /\ UNCHANGED crashed \/ \E s \in Sockets : RunError(s)

LEMMA ProgramCalled ==
  ASSUME CInv, NEW r \in Requests,
         End(r) \/ Abort(r) \/ Destroy(r, FALSE) \/ ReadResponse(r)
  PROVE  Called
<1>1. CASE End(r)
  <2>1. UNCHANGED <<pool, conn, ticks, origin, crashed>>
    BY <1>1 DEF End, agentVars
  <2> QED
    BY <2>1, StillOrderly, StillFirm DEF Called
<1>2. CASE Abort(r) \/ Destroy(r, FALSE)
  <2>1. UNCHANGED <<origin, crashed>>
    BY <1>2 DEF Abort, Destroy
  <2> QED
    BY <1>2, <2>1, DestroyCallOrderly, DestroyCallFirm DEF Called
<1>3. CASE ReadResponse(r)
  <2>1. UNCHANGED <<origin, crashed>>
    BY <1>3 DEF ReadResponse
  <2> QED
    BY <1>3, <2>1, ReadResponseOrderly, ReadResponseFirm DEF Called
<1> QED
  BY <1>1, <1>2, <1>3

LEMMA NetworkHappened ==
  ASSUME CInv, NEW s \in Sockets,
         \/ \E k \in BOOLEAN, b \in {"open", "toEnd"} : ResponseHead(s, k, b)
         \/ \E d \in BOOLEAN : ResponseComplete(s, d)
         \/ \E h \in BOOLEAN : Upgrade(s, h)
         \/ ParseError(s) \/ PeerEnd(s)
         \/ SocketFinish(s) \/ HandleClosed(s) \/ IdleTimeout(s)
  PROVE  Happened
<1>1. ASSUME NEW k \in BOOLEAN, NEW b \in {"open", "toEnd"}, ResponseHead(s, k, b)
      PROVE  Happened
  <2>1. IO /\ UNCHANGED <<pool, conn, ticks, origin, crashed>>
    BY <1>1 DEF ResponseHead, Reading
  <2> QED
    BY <2>1, StillOrderly DEF Happened
<1>2. ASSUME NEW d \in BOOLEAN, ResponseComplete(s, d)
      PROVE  Happened
  <2>1. IO /\ UNCHANGED <<origin, crashed>>
    BY <1>2 DEF ResponseComplete, Reading
  <2> QED
    BY <1>2, <2>1, ResponseCompleteOrderly DEF Happened
<1>3. ASSUME NEW h \in BOOLEAN, Upgrade(s, h)
      PROVE  Happened
  <2>1. IO /\ UNCHANGED <<origin, crashed>>
    BY <1>3 DEF Upgrade, Reading
  <2> QED
    BY <1>3, <2>1, UpgradeOrderly DEF Happened
<1>4. CASE ParseError(s)
  <2>1. IO /\ UNCHANGED <<origin, crashed>>
    BY <1>4 DEF ParseError, Reading
  <2> QED
    BY <1>4, <2>1, ParseErrorOrderly DEF Happened
<1>5. CASE PeerEnd(s)
  <2>1. IO /\ UNCHANGED <<origin, crashed>>
    BY <1>5 DEF PeerEnd
  <2> QED
    BY <1>5, <2>1, PeerEndOrderly DEF Happened
<1>6. CASE SocketFinish(s) \/ IdleTimeout(s)
  <2>1. IO /\ UNCHANGED <<origin, crashed>> /\ Become(DestroySocket(World, s))
    BY <1>6 DEF SocketFinish, IdleTimeout
  <2> QED
    BY <2>1, DestroyedOrderly DEF Happened
<1>7. CASE HandleClosed(s)
  <2>1. IO /\ UNCHANGED <<origin, crashed>> /\ Closed(World, s)
    BY <1>7 DEF HandleClosed, Closed
  <2>2. WorldOK(World, origin) /\ Queues(World) /\ World.conn = conn
    BY AlwaysQueues, Typed DEF CInv
  <2> QED
    BY <2>1, <2>2, ClosedOrderly DEF Happened
<1> QED
  BY <1>1, <1>2, <1>3, <1>4, <1>5, <1>6, <1>7

LEMMA TicksTicked ==
  ASSUME CInv,
         \/ \E r \in Requests, s \in Sockets : RunOnSocketDestroyed(r, s) \/ RunEmitFree(r, s)
         \/ \E r \in Requests : RunEnd(r) \/ RunHangUp(r)
         \/ \E s \in Sockets : RunClose(s) \/ RunError(s)
  PROVE  Ticked
<1>1. ASSUME NEW r \in Requests, NEW s \in Sockets, RunOnSocketDestroyed(r, s)
      PROVE  Ticked
  <2>1. ticks # <<>> /\ UNCHANGED <<origin, crashed>>
    BY <1>1 DEF RunOnSocketDestroyed, Runs
  <2> QED
    BY <1>1, <2>1, RunOnSocketDestroyedOrderly DEF Ticked
<1>2. ASSUME NEW r \in Requests, NEW s \in Sockets, RunEmitFree(r, s)
      PROVE  Ticked
  <2>1. ticks # <<>> /\ UNCHANGED <<origin, crashed>>
    BY <1>2 DEF RunEmitFree, Runs
  <2> QED
    BY <1>2, <2>1, RunEmitFreeOrderly DEF Ticked
<1>3. ASSUME NEW r \in Requests, RunEnd(r)
      PROVE  Ticked
  <2>1. ticks # <<>> /\ UNCHANGED <<origin, crashed>>
    BY <1>3 DEF RunEnd, Runs
  <2> QED
    BY <1>3, <2>1, RunEndOrderly DEF Ticked
<1>4. ASSUME NEW r \in Requests, RunHangUp(r)
      PROVE  Ticked
  <2>1. ticks # <<>> /\ UNCHANGED <<origin, crashed>> /\ Become(Popped)
    BY <1>4 DEF RunHangUp, Runs
  <2> QED
    BY <2>1, SameOrderly DEF Ticked
<1>5. ASSUME NEW s \in Sockets, RunClose(s)
      PROVE  Ticked
  <2>1. ticks # <<>> /\ UNCHANGED <<origin, crashed>> /\ Closed(Popped, s)
    BY <1>5 DEF RunClose, Runs, Closed
  <2>2. WorldOK(Popped, origin) /\ Queues(Popped) /\ Popped.conn = conn
    BY <2>1, PoppedStart
  <2> QED
    BY <2>1, <2>2, ClosedOrderly DEF Ticked
<1>6. ASSUME NEW s \in Sockets, RunError(s)
      PROVE  Ticked
  <2>1. ticks # <<>> /\ UNCHANGED origin
    BY <1>6 DEF RunError, Runs
  <2> QED
    BY <1>6, <2>1, RunErrorOrderly DEF Ticked
<1> QED
  BY <1>1, <1>2, <1>3, <1>4, <1>5, <1>6

LEMMA StepKinds ==
  ASSUME CInv, [Next]_vars
  PROVE  \/ Called \/ Happened \/ Ticked
         \/ \E r \in Requests, o \in Origins, e \in EndsAtOnce : Request(r, o, e)
         \/ \E r \in Requests : Destroy(r, TRUE)
         \/ \E s \in Sockets : SocketError(s)
         \/ \E r \in Requests, s \in Sockets : RunOnSocket(r, s)
<1>1. CASE UNCHANGED vars
  <2>1. UNCHANGED <<pool, conn, ticks, origin, crashed>>
    BY <1>1 DEF vars, agentVars
  <2> QED
    BY <2>1, StillOrderly, StillFirm DEF Called
<1>2. AgentDestroy => Called
  <2>1. AgentDestroy => UNCHANGED <<origin, crashed>>
    BY DEF AgentDestroy
  <2> QED
    BY <2>1, AgentDestroyOrderly DEF Called
<1>3. CASE Program
  BY <1>2, <1>3, ProgramCalled DEF Program
<1>4. CASE RunTick
  BY <1>4, TicksTicked DEF RunTick
<1>5. CASE Network
  BY <1>5, NetworkHappened DEF Network
<1> QED
  BY <1>1, <1>3, <1>4, <1>5 DEF Next


-----------------------------------------------------------------------------
(* The pool in every reachable state. *)

CPool == PoolOK(World, origin)

LEMMA InitPool ==
  ASSUME Init
  PROVE  CPool
<1>1. /\ World.pool = pool /\ World.conn = conn
      /\ \A n \in Origins : pool.sockets[n] = {} /\ pool.freeSockets[n] = {}
                            /\ pool.requests[n] = <<>>
      /\ pool.total = 0
      /\ \A s \in Sockets : conn[s].state = "unused" /\ conn[s].listeners = {}
      /\ \A r \in Requests : origin[r] = None
  BY DEF Init, AgentInit, World
<1>2. Busy(World) = {} /\ Used(World) = {} /\ Placed(World, origin) = {}
  BY <1>1 DEF Busy, Used, Placed
<1>3. Cardinality({}) = 0
  BY FS_EmptySet
<1>4. Filed(World) /\ ~Waits(World)
  BY <1>1 DEF Filed, Waits
<1>5. Limited(World)
  <2>1. Cardinality(Busy(World)) = 0 /\ World.pool.total = 0 /\ 0 <= MaxTotalSockets
    BY <1>1, <1>2, <1>3, AgentAssumption
  <2>2. ASSUME NEW n \in Origins, MaxSockets # 0
        PROVE  Cardinality(World.pool.sockets[n]) <= MaxSockets
    <3>1. World.pool.sockets[n] = {}
      BY <1>1
    <3>2. Cardinality(World.pool.sockets[n]) = 0
      BY <3>1, <1>3
    <3> QED
      BY <3>2, AgentAssumption
  <2> QED
    BY <2>1, <2>2, <1>1 DEF Limited
<1>6. \A s \in Sockets : Owned(World, s)
  BY <1>1 DEF Owned
<1> QED
  BY <1>1, <1>2, <1>3, <1>4, <1>5, <1>6 DEF CPool, PoolOK, Balanced, Supplied, Served

LEMMA RequestPool ==
  ASSUME CInv, CInv', CPool,
         NEW r \in Requests, NEW o \in Origins, NEW e \in EndsAtOnce, Request(r, o, e)
  PROVE  CPool'
<1>1. /\ World \in WorldType /\ WorldOK(World, origin) /\ Queues(World)
      /\ req \in ReqMap /\ req' \in ReqMap /\ shouldKeepAlive \in KeepMap
      /\ shouldKeepAlive' \in KeepMap /\ origin \in OriginMap /\ origin' \in OriginMap
  BY Typed, AlwaysQueues DEF IInv, ReqMap, KeepMap, CInv
<1>2. /\ origin[r] = None /\ origin' = [origin EXCEPT ![r] = o]
      /\ shouldKeepAlive' = [shouldKeepAlive EXCEPT ![r] = KeepAlive \/ MaxSockets # 0]
      /\ req' = [req EXCEPT ![r].finished = e]
      /\ ~Underloaded(World, o) \/ Fresh(World) # {}
      /\ Become(AddRequest(World, r, o))
  BY DEF Request, Made
<1>3. Starts(req, req', shouldKeepAlive, shouldKeepAlive', origin, origin', r, o)
  BY <1>1, <1>2 DEF Starts, ReqMap, ReqType, KeepMap, OriginMap
<1>4. Safe(World, req', shouldKeepAlive', origin') /\ Unplaced(World, r)
  BY <1>1, <1>3, StartsSafe DEF CInv, Sound
<1>5. /\ origin'[r] = o /\ \A q \in Requests : q # r => origin'[q] = origin[q]
  BY <1>3 DEF Starts
<1>6. WorldOK(World, origin')
  <2>1. QueuedByName(World, origin')
    BY <1>4 DEF Safe
  <2>2. TicksByName(World, origin')
    BY <1>1, <1>3, AgentAssumption DEF WorldOK, TicksByName, Starts
  <2> QED
    BY <1>1, <2>1, <2>2 DEF WorldOK
<1>7. PICK v : v = AddRequest(World, r, o)
  OBVIOUS
<1>8. PoolOK(v, origin')
  BY <1>1, <1>2, <1>4, <1>5, <1>6, <1>7, AddPool DEF CPool
<1>9. World' = v
  <2>1. v \in WorldType
    BY <1>2, <1>5, <1>6, <1>7, AddRequestOK DEF WorldOK
  <2> QED
    BY <2>1, <1>2, <1>7 DEF Become, World, WorldType
<1> QED
  BY <1>8, <1>9 DEF CPool

LEMMA NextPool ==
  ASSUME CInv, CInv', CPool, [Next]_vars
  PROVE  CPool'
<1>1. World \in WorldType
  BY Typed DEF CInv
<1>2. ASSUME NEW w, NEW v, Mild(w, v), PoolOK(w, origin), Become(v), UNCHANGED origin
      PROVE  CPool'
  <2>1. PoolOK(v, origin) /\ v \in WorldType
    BY <1>2, MildPool DEF Mild
  <2>2. World' = v
    BY <1>2, <2>1 DEF Become, World, WorldType
  <2> QED
    BY <1>2, <2>1, <2>2 DEF CPool
<1>3. CASE Called \/ Happened
  BY <1>3 DEF Called, Happened, Orderly, CPool
<1>4. CASE Ticked
  <2>1. PoolOK(Popped, origin)
    BY <1>4, PoppedStart DEF Ticked, Orderly, CPool
  <2> QED
    BY <1>4, <2>1 DEF Ticked, Orderly, CPool
<1>5. ASSUME NEW s \in Sockets, Become(DestroySocketWithError(World, s)), UNCHANGED origin
      PROVE  CPool'
  <2>1. PICK v : v = DestroySocketWithError(World, s)
    OBVIOUS
  <2>2. Mild(World, v)
    BY <2>1, <1>1, DestroyMild
  <2> QED
    BY <2>1, <2>2, <1>2, <1>5 DEF CPool
<1>6. ASSUME NEW r \in Requests, Destroy(r, TRUE)
      PROVE  CPool'
  <2>1. CASE req[r].socket = None
    <3>1. Become(World) /\ UNCHANGED origin
      BY <1>6, <2>1 DEF Destroy
    <3>2. Mild(World, World)
      BY <1>1 DEF Mild
    <3> QED
      BY <3>1, <3>2, <1>2 DEF CPool
  <2>2. CASE req[r].socket # None
    <3>1. PICK s \in Sockets : s = req[r].socket
      BY <2>2, Typed DEF CInv, ReqMap, ReqType
    <3>2. Become(DestroySocketWithError(World, s)) /\ UNCHANGED origin
      BY <1>6, <2>2, <3>1 DEF Destroy
    <3> QED
      BY <3>2, <1>5
  <2> QED
    BY <2>1, <2>2
<1>7. ASSUME NEW s \in Sockets, SocketError(s)
      PROVE  CPool'
  BY <1>5, <1>7 DEF SocketError
<1>8. ASSUME NEW r \in Requests, NEW s \in Sockets, RunOnSocket(r, s)
      PROVE  CPool'
  <2>1. PICK w : w = Popped
    OBVIOUS
  <2>2. w \in WorldType /\ PoolOK(w, origin)
    BY <1>8, <2>1, PoppedStart DEF RunOnSocket, Runs, Orderly, CPool
  <2>3. PICK v : v = Attach(w, s, r)
    OBVIOUS
  <2>4. Become(v) /\ UNCHANGED origin
    BY <1>8, <2>1, <2>3 DEF RunOnSocket, Attach
  <2>5. /\ v \in WorldType /\ v.pool = w.pool
        /\ \A z \in Sockets : z # s => v.conn[z] = w.conn[z]
        /\ v.conn[s].target = w.conn[s].target /\ v.conn[s].state = w.conn[s].state
        /\ v.conn[s].listeners = w.conn[s].listeners \cup {"request", "reader"}
    BY <2>2, <2>3, AttachType
  <2>6. Mild(w, v)
    BY <2>5 DEF Mild, Unclosed
  <2> QED
    BY <2>2, <2>4, <2>6, <1>2
<1>9. ASSUME NEW r \in Requests, NEW o \in Origins, NEW e \in EndsAtOnce, Request(r, o, e)
      PROVE  CPool'
  BY <1>9, RequestPool
<1> QED
  BY <1>3, <1>4, <1>6, <1>7, <1>8, <1>9, StepKinds

LEMMA AlwaysPool == Spec => []CPool
<1>1. Init => CPool
  BY InitPool
<1>2. CInv /\ CInv' /\ CPool /\ [Next]_vars => CPool'
  BY NextPool
<1> QED
  BY <1>1, <1>2, AlwaysSound, PTL DEF Spec

\* Without keepAlive totalSocketCount is the number of busy sockets, and
\* neither maxTotalSockets nor maxSockets is ever exceeded, however sockets
\* are made for new and for waiting requests and however they go away.
THEOREM LimitsRespected == Spec => []LimitsHold
<1>1. CPool => LimitsHold
  <2>1. ASSUME CPool, ~KeepAlive
        PROVE  /\ pool.total = Cardinality(UNION {pool.sockets[n] : n \in Origins})
               /\ pool.total <= MaxTotalSockets
               /\ MaxSockets # 0 => \A n \in Origins :
                                       Cardinality(pool.sockets[n]) <= MaxSockets
    <3>1. Limited(World) /\ World.pool = pool
      BY <2>1 DEF CPool, PoolOK, Balanced, World
    <3> QED
      BY <3>1 DEF Limited, Busy
  <2> QED
    BY <2>1 DEF LimitsHold
<1> QED
  BY <1>1, AlwaysPool, PTL

\* Where createConnection can always make one more socket, requests only wait
\* while the agent has a busy socket, the release or the removal of which
\* makes it look at its queues: requests and sockets of any number of origins
\* and limits never leave a queue that nothing comes back to.
THEOREM WaitingServed == ASSUME Enough PROVE Spec => []WaitingHasServer
<1>1. CPool /\ CInv => WaitingHasServer
  <2>1. ASSUME CPool, CInv, NEW n \in Origins, pool.requests[n] # <<>>
        PROVE  \E m \in Origins : pool.sockets[m] # {}
    <3>1. World.pool = pool /\ pool \in PoolType
      BY <2>1, Typed DEF CInv, WorldType
    <3>2. pool.requests[n] \in Seq(Requests)
      BY <3>1 DEF PoolType
    <3>3. Waits(World)
      BY <2>1, <3>1, <3>2 DEF Waits
    <3> QED
      BY <2>1, <3>1, <3>3 DEF CPool, PoolOK, Served, Busy
  <2> QED
    BY <2>1 DEF WaitingHasServer
<1> QED
  BY <1>1, AlwaysPool, AlwaysSound, PTL


-----------------------------------------------------------------------------
(* A socket gets a request only from onSocketNT. *)

LEMMA DestroyMessages ==
  ASSUME CInv, NEW s \in Sockets, Become(DestroySocketWithError(World, s)),
         NEW z \in Sockets
  PROVE  conn'[z].message = conn[z].message
<1>1. World \in WorldType /\ World.conn = conn
  BY Typed DEF CInv
<1>2. PICK v : v = DestroySocketWithError(World, s)
  OBVIOUS
<1>3. v.conn[z].message = World.conn[z].message
  BY <1>1, <1>2, DestroyHeard
<1> QED
  BY <1>1, <1>2, <1>3 DEF Become

LEMMA FailedCall ==
  ASSUME CInv, NEW r \in Requests, Destroy(r, TRUE), NEW z \in Sockets
  PROVE  conn'[z].message = conn[z].message
<1>1. CASE req[r].socket = None
  BY <1>1 DEF Destroy, Become, World
<1>2. CASE req[r].socket # None
  <2>1. PICK s \in Sockets : s = req[r].socket
    BY <1>2, Typed DEF CInv, ReqMap, ReqType
  <2>2. Become(DestroySocketWithError(World, s))
    BY <1>2, <2>1 DEF Destroy
  <2> QED
    BY <2>2, DestroyMessages
<1> QED
  BY <1>1, <1>2

LEMMA RequestCalm ==
  ASSUME CInv, CInv',
         NEW r \in Requests, NEW o \in Origins, NEW e \in EndsAtOnce, Request(r, o, e)
  PROVE  Calm(World, World') /\ Firm(World, World') /\ UNCHANGED crashed
<1>1. WorldOK(World, origin)
  BY AlwaysQueues
<1>2. PICK v : v = AddRequest(World, r, o)
  OBVIOUS
<1>3. /\ ~Underloaded(World, o) \/ Fresh(World) # {}
      /\ Become(v) /\ UNCHANGED crashed
  BY <1>2 DEF Request
<1>4. Calm(World, v) /\ Firm(World, v)
  BY <1>1, <1>2, <1>3, AddRequestCalm
<1>5. World'.conn = v.conn /\ World'.ticks = v.ticks
  BY <1>3 DEF World, Become
<1> QED
  BY <1>3, <1>4, <1>5 DEF Calm, Firm

LEMMA NewMessage ==
  ASSUME CInv, CInv', [Next]_vars, NEW s \in Sockets,
         conn'[s].message \notin {conn[s].message, None}
  PROVE  Reusable(conn[s], req, shouldKeepAlive)
<1>1. World.conn = conn /\ World'.conn = conn'
  BY DEF World
<1>2. CASE Called \/ Happened
  BY <1>1, <1>2 DEF Called, Happened, Orderly, Calm
<1>3. CASE Ticked
  <2>1. Popped.conn = conn
    BY <1>3, PoppedStart DEF Ticked
  <2> QED
    BY <2>1, <1>1, <1>3 DEF Ticked, Orderly, Calm
<1>4. ASSUME NEW r \in Requests, NEW o \in Origins, NEW e \in EndsAtOnce, Request(r, o, e)
      PROVE  FALSE
  BY <1>1, <1>4, RequestCalm DEF Calm
<1>5. ASSUME NEW r \in Requests, Destroy(r, TRUE)
      PROVE  FALSE
  BY <1>5, FailedCall
<1>6. ASSUME NEW z \in Sockets, SocketError(z)
      PROVE  FALSE
  BY <1>6, DestroyMessages DEF SocketError
<1>7. ASSUME NEW r \in Requests, NEW z \in Sockets, RunOnSocket(r, z)
      PROVE  Reusable(conn[s], req, shouldKeepAlive)
  <2>1. PICK h : h = Head(ticks)
    OBVIOUS
  <2>2. h.fn = "onSocket" /\ h.req = r /\ h.sock = z /\ ticks # <<>>
    BY <1>7, <2>1, TickFields DEF RunOnSocket, Runs
  <2>3. /\ Popped \in WorldType /\ Popped.conn = conn
        /\ TickOK(World, req, shouldKeepAlive, origin, h)
    BY <2>1, <2>2, PoppedSafe DEF CInv
  <2>4. Reusable(conn[z], req, shouldKeepAlive)
    BY <2>2, <2>3, <1>1 DEF TickOK, OnSocketOK
  <2>5. PICK v : v = Attach(Popped, z, r)
    OBVIOUS
  <2>6. \A y \in Sockets : y # z => v.conn[y] = conn[y]
    BY <2>3, <2>5, AttachType
  <2>7. conn' = v.conn
    BY <1>7, <2>5 DEF RunOnSocket, Become, Attach
  <2>8. s = z
    BY <2>6, <2>7
  <2> QED
    BY <2>4, <2>8
<1> QED
  BY <1>2, <1>3, <1>4, <1>5, <1>6, <1>7, StepKinds

\* A socket passes from one request to the next only when the first is sent,
\* has its response to the end and both sides keep alive: no mixture of
\* aborts, errors, destroyed requests and queued callbacks gives the
\* connection of an unfinished exchange to another request.
THEOREM ReuseSafe == Spec => SafeReuse
<1>1. CInv /\ CInv' /\ [Next]_vars
         => [\A s \in Sockets :
                LET q == conn[s].message
                    n == conn'[s].message
                IN  n # q /\ n # None /\ q # None
                       => req[q].finished /\ req[q].res = "ended" /\ shouldKeepAlive[q]]_vars
  BY NewMessage DEF Reusable, Done
<1> QED
  BY <1>1, AlwaysSound, PTL DEF Spec, SafeReuse


-----------------------------------------------------------------------------
(* Who is to blame when an error ends the process. *)

LEMMA WhyFields ==
  ASSUME NEW q \in ReqType, NEW b \in BOOLEAN, NEW n \in {0, 1}
  PROVE  /\ Errs(q, n).why = q.why /\ Closes(q).why = q.why
         /\ Closes(Errs(q, n)).why = q.why /\ HangUp(q, b).why = q.why
<1>1. /\ Errs(q, n) \in ReqType /\ Errs(q, n).why = q.why
      /\ Closes(q) \in ReqType /\ Closes(q).why = q.why
  BY ErrsType, ClosesType DEF Errs, Closes, ReqType
<1>2. Closes(Errs(q, n)).why = q.why
  BY <1>1 DEF Closes, ReqType
<1>3. CASE q.res # "none"
  <2>1. PICK c : c = Closes(q)
    OBVIOUS
  <2>2. PICK d : d = [c EXCEPT !.destroyed = TRUE]
    OBVIOUS
  <2>3. PICK x : HangUp(q, b) = [d EXCEPT !.res = x]
    BY <1>3, <2>1, <2>2 DEF HangUp
  <2>4. c \in ReqType /\ c.why = q.why
    BY <1>1, <2>1
  <2>5. d.why = q.why /\ "why" \in DOMAIN d
    BY <2>2, <2>4 DEF ReqType
  <2>6. HangUp(q, b).why = q.why
    BY <2>3, <2>5
  <2> QED
    BY <1>1, <1>2, <2>6
<1>4. CASE q.res = "none"
  <2>1. PICK m \in {0, 1} : m = IF b THEN 0 ELSE 1
    OBVIOUS
  <2>2. PICK c : c = Closes(Errs(q, m))
    OBVIOUS
  <2>3. c \in ReqType /\ c.why = q.why
    <3>1. Errs(q, m) \in ReqType /\ Errs(q, m).why = q.why
      BY ErrsType DEF Errs, ReqType
    <3> QED
      BY <2>2, <3>1, ClosesType DEF Closes, ReqType
  <2>4. HangUp(q, b) = [c EXCEPT !.destroyed = TRUE]
    BY <1>4, <2>1, <2>2 DEF HangUp
  <2> QED
    BY <1>1, <1>2, <2>3, <2>4 DEF ReqType
<1> QED
  BY <1>1, <1>2, <1>3, <1>4

\* destroy(err) is not forgotten.
LEMMA WhyStays ==
  ASSUME CInv, [Next]_vars, NEW q \in Requests, req[q].why = "error"
  PROVE  req'[q].why = "error"
<1>1. req \in ReqMap /\ \A r \in Requests : req[r] \in ReqType
  BY Typed DEF CInv, ReqMap
<1>2. CASE UNCHANGED vars
  BY <1>2 DEF vars
<1>3. ASSUME NEW r \in Requests, NEW o \in Origins, NEW e \in EndsAtOnce, Request(r, o, e)
      PROVE  req'[q].why = "error"
  BY <1>1, <1>3 DEF Request, ReqMap, ReqType
<1>4. ASSUME NEW r \in Requests, NEW err \in BOOLEAN,
             End(r) \/ Abort(r) \/ Destroy(r, err) \/ ReadResponse(r)
      PROVE  req'[q].why = "error"
  BY <1>1, <1>4 DEF End, Abort, Destroy, ReadResponse, ReqMap, ReqType
<1>5. CASE AgentDestroy
  BY <1>5 DEF AgentDestroy
<1>6. ASSUME NEW r \in Requests, NEW s \in Sockets, RunOnSocket(r, s)
      PROVE  req'[q].why = "error"
  BY <1>1, <1>6 DEF RunOnSocket, ReqMap, ReqType
<1>7. ASSUME NEW x, NEW n \in {0, 1},
             \/ req' = [req EXCEPT ![x] = Closes(Errs(@, n))]
             \/ req' = [req EXCEPT ![x] = Errs(@, n)]
             \/ req' = [req EXCEPT ![x] = Closes(@)]
      PROVE  req'[q].why = "error"
  <2>1. /\ Errs(req[q], n).why = "error" /\ Closes(req[q]).why = "error"
        /\ Closes(Errs(req[q], n)).why = "error"
    <3>1. TRUE \in BOOLEAN
      OBVIOUS
    <3> QED
      BY <3>1, <1>1, WhyFields
  <2> QED
    BY <2>1, <1>1, <1>7 DEF ReqMap
<1>8. ASSUME NEW r \in Requests, NEW s \in Sockets, RunOnSocketDestroyed(r, s)
      PROVE  req'[q].why = "error"
  <2>1. PICK n \in {0, 1} : n = IF req[r].why = "aborted" THEN 0 ELSE 1
    OBVIOUS
  <2>2. req' = req \/ req' = [req EXCEPT ![r] = Closes(Errs(@, n))]
    BY <1>8, <2>1 DEF RunOnSocketDestroyed
  <2> QED
    BY <2>2, <1>7
<1>9. ASSUME NEW r \in Requests, RunHangUp(r)
      PROVE  req'[q].why = "error"
  BY <1>7, <1>9 DEF RunHangUp
<1>10. ASSUME NEW r \in Requests, NEW s \in Sockets, RunEmitFree(r, s)
       PROVE  req'[q].why = "error"
  <2>1. req' = [req EXCEPT ![r] = Closes(@)] /\ 0 \in {0, 1}
    BY <1>10 DEF RunEmitFree
  <2> QED
    BY <2>1, <1>7
<1>11. ASSUME NEW r \in Requests, RunEnd(r)
       PROVE  req'[q].why = "error"
  BY <1>1, <1>11 DEF RunEnd, ReqMap, ReqType
<1>12. ASSUME NEW s \in Sockets, NEW w, Closed(w, s)
       PROVE  req'[q].why = "error"
  <2>1. conn[s].hadError \in BOOLEAN
    BY Typed DEF CInv, ConnType
  <2>2. HangUp(req[q], conn[s].hadError).why = "error"
    <3>1. 0 \in {0, 1}
      OBVIOUS
    <3> QED
      BY <2>1, <3>1, <1>1, WhyFields
  <2> QED
    BY <2>2, <1>1, <1>12 DEF Closed, ReqMap
<1>13. ASSUME NEW s \in Sockets, RunError(s)
       PROVE  req'[q].why = "error"
  <2>1. \/ req' = [req EXCEPT ![conn[s].message] = Errs(@, 1)]
        \/ req' = req
    BY <1>13 DEF RunError
  <2>2. 1 \in {0, 1}
    OBVIOUS
  <2> QED
    BY <2>1, <2>2, <1>7
<1>14. ASSUME NEW s \in Sockets, NEW k \in BOOLEAN, NEW b \in {"open", "toEnd"},
              ResponseHead(s, k, b)
       PROVE  req'[q].why = "error"
  BY <1>1, <1>14 DEF ResponseHead, ReqMap, ReqType
<1>15. ASSUME NEW s \in Sockets, NEW d \in BOOLEAN, ResponseComplete(s, d)
       PROVE  req'[q].why = "error"
  BY <1>1, <1>15 DEF ResponseComplete, ReqMap, ReqType
<1>16. ASSUME NEW s \in Sockets, NEW h \in BOOLEAN, Upgrade(s, h)
       PROVE  req'[q].why = "error"
  <2>1. PICK c : c = Closes(req[q])
    OBVIOUS
  <2>2. c \in ReqType /\ c.why = "error"
    BY <2>1, <1>1, ClosesType DEF Closes, ReqType
  <2>3. \/ req'[q] = req[q] \/ req'[q] = [req[q] EXCEPT !.res = "open"]
        \/ req'[q] = [c EXCEPT !.res = "open", !.destroyed = TRUE]
    BY <2>1, <1>1, <1>16 DEF Upgrade, ReqMap
  <2> QED
    BY <2>2, <2>3, <1>1 DEF ReqType
<1>17. ASSUME NEW s \in Sockets, ParseError(s) \/ PeerEnd(s)
       PROVE  req'[q].why = "error"
  <2>1. PICK n \in {0, 1} :
            req' = req \/ req' = [req EXCEPT ![conn[s].message] = Errs(@, n)]
    <3>1. CASE ParseError(s)
      BY <3>1 DEF ParseError
    <3>2. CASE PeerEnd(s)
      BY <3>2 DEF PeerEnd
    <3> QED
      BY <1>17, <3>1, <3>2
  <2> QED
    BY <2>1, <1>7
<1>18. ASSUME NEW s \in Sockets, SocketError(s) \/ SocketFinish(s) \/ IdleTimeout(s)
       PROVE  req'[q].why = "error"
  BY <1>18 DEF SocketError, SocketFinish, IdleTimeout
<1>19. CASE Program
  BY <1>3, <1>4, <1>5, <1>19 DEF Program
<1>20. CASE RunTick
  BY <1>6, <1>8, <1>9, <1>10, <1>11, <1>12, <1>13, <1>20 DEF RunTick, RunClose
<1>21. CASE Network
  BY <1>12, <1>14, <1>15, <1>16, <1>17, <1>18, <1>21 DEF Network, HandleClosed
<1> QED
  BY <1>2, <1>19, <1>20, <1>21 DEF Next


-----------------------------------------------------------------------------
(* An error is heard. *)

\* The only error among the ticks is the one due, and its socket has a listener.
Heeded(q, c) ==
    \A i \in 1..Len(q) : q[i].fn = "error" =>
        i = 1 /\ ("request" \in c[q[i].sock].listeners \/ "idle" \in c[q[i].sock].listeners)

Blamed == \E r \in Requests : req[r].why = "error"

ErrorFirst == TicksFirst => Blamed \/ (~crashed /\ Heeded(ticks, conn))

LEMMA TicksTyped ==
  ASSUME CInv, CInv'
  PROVE  ticks \in Seq(TickType) /\ ticks' \in Seq(TickType)
<1>1. World \in WorldType /\ World' \in WorldType
  BY DEF CInv, IInv, WorldOK
<1> QED
  BY <1>1 DEF World, WorldType

\* Where no error is queued, none is unheard.
LEMMA NoneHeeded ==
  ASSUME NEW q \in Seq(TickType), NEW c, \A t \in ToSet(q) : t.fn # "error"
  PROVE  Heeded(q, c)
<1>1. \A i \in 1..Len(q) : q[i] \in ToSet(q)
  BY DEF ToSet
<1> QED
  BY <1>1 DEF Heeded

LEMMA TailHeeded ==
  ASSUME NEW q \in Seq(TickType), NEW c, Heeded(q, c), q # <<>>
  PROVE  \A t \in ToSet(Tail(q)) : t.fn # "error"
<1>1. ASSUME NEW i \in 1..Len(Tail(q))
      PROVE  Tail(q)[i] = q[i + 1] /\ i + 1 \in 1..Len(q) /\ i + 1 # 1
  OBVIOUS
<1> QED
  BY <1>1 DEF Heeded, ToSet

\* A calm and firm change keeps the error that is due, and its listeners.
LEMMA FirmHeeded ==
  ASSUME CInv, CInv', Calm(World, World'), Firm(World, World'), Heeded(ticks, conn)
  PROVE  Heeded(ticks', conn')
<1>1. /\ World.ticks = ticks /\ World.conn = conn
      /\ World'.ticks = ticks' /\ World'.conn = conn'
  BY DEF World
<1>2. ticks \in Seq(TickType) /\ ticks' \in Seq(TickType)
  BY TicksTyped
<1>3. Ordered(ticks')
  BY <1>1 DEF CInv, Sound, Accounts, Safe
<1>4. \A t \in ToSet(ticks) : t.fn = "error" => ErrorOK(World, t.sock)
  BY <1>1 DEF CInv, Sound, Accounts, Safe, TickOK
<1> SUFFICES ASSUME NEW i \in 1..Len(ticks'), ticks'[i].fn = "error"
             PROVE  i = 1 /\ \/ "request" \in conn'[ticks'[i].sock].listeners
                             \/ "idle" \in conn'[ticks'[i].sock].listeners
  BY DEF Heeded
<1>5. PICK t : t = ticks'[i]
  OBVIOUS
<1>6. t \in ToSet(ticks)
  <2>1. t \in ToSet(ticks')
    BY <1>2, <1>5 DEF ToSet
  <2> QED
    BY <2>1, <1>1, <1>5 DEF Calm
<1>7. PICK j \in 1..Len(ticks) : ticks[j] = t
  BY <1>2, <1>6 DEF ToSet
<1>8. /\ j = 1
      /\ "request" \in conn[t.sock].listeners \/ "idle" \in conn[t.sock].listeners
  BY <1>5, <1>7 DEF Heeded
<1>9. Len(ticks') > 0 /\ ticks'[1] = t
  BY <1>1, <1>2, <1>7, <1>8 DEF Firm
<1>10. i = 1
  <2>1. Clash(t, t)
    BY <1>5 DEF Clash
  <2>2. 1 \in 1..Len(ticks') /\ (1 < i => ~Clash(ticks'[1], ticks'[i]))
    BY <1>2, <1>3, <1>9 DEF Ordered
  <2> QED
    BY <2>1, <2>2, <1>5, <1>9
<1>11. conn'[t.sock].listeners = conn[t.sock].listeners
  BY <1>1, <1>4, <1>5, <1>6 DEF ErrorOK, Firm
<1> QED
  BY <1>5, <1>8, <1>10, <1>11

\* socket.destroy(err) of the network: nothing else is due, and the agent, the
\* request or both listen.
LEMMA ResetHeeded ==
  ASSUME CInv, CInv', NEW s \in Sockets, SocketError(s), TicksFirst
  PROVE  Heeded(ticks', conn')
<1>1. /\ ticks = <<>> /\ Live(World, s) /\ "agent" \in conn[s].listeners
      /\ Become(DestroySocketWithError(World, s))
  BY DEF SocketError, IO, Has
<1>2. World \in WorldType /\ World.conn = conn /\ World.ticks = ticks /\ ticks \in Seq(TickType)
  BY Typed DEF CInv
<1>3. "request" \in conn[s].listeners \/ "idle" \in conn[s].listeners
  <2>1. Heard(World, s) /\ \A t \in ToSet(ticks) : FALSE
    BY <1>1 DEF CInv, Sound, Accounts, ToSet
  <2> QED
    BY <2>1, <1>1, <1>2 DEF Heard, Live
<1>4. PICK v : v = DestroySocketWithError(World, s)
  OBVIOUS
<1>5. PICK q : q = Append(World.ticks, Tick("error", None, s))
  OBVIOUS
<1>6. /\ Destroys(World, v, s)
      /\ v.ticks = IF CloseByTick THEN Append(q, Tick("close", None, s)) ELSE q
  BY <1>1, <1>2, <1>4, <1>5, DestroyWithErrorEffect
<1>7. v.conn[s].listeners = conn[s].listeners
  BY <1>2, <1>6, WithStateType DEF Destroys, WorldType
<1>8. ticks' = v.ticks /\ conn' = v.conn
  BY <1>1, <1>4 DEF Become
<1>9. /\ Tick("error", None, s) \in TickType /\ Tick("error", None, s).sock = s
      /\ Tick("close", None, s) \in TickType /\ Tick("close", None, s).fn # "error"
  BY TickFields
<1>10. \A i \in 1..Len(ticks') : ticks'[i].fn = "error" => i = 1 /\ ticks'[i].sock = s
  BY <1>1, <1>2, <1>5, <1>6, <1>8, <1>9
<1> QED
  BY <1>3, <1>7, <1>8, <1>10 DEF Heeded

LEMMA InitErrorFirst == ASSUME Init PROVE ErrorFirst
  BY DEF Init, ErrorFirst, Heeded, AgentInit

LEMMA NextErrorFirst ==
  ASSUME CInv, CInv', [Next]_vars, ErrorFirst
  PROVE  ErrorFirst'
<1> SUFFICES ASSUME TicksFirst PROVE (Blamed \/ (~crashed /\ Heeded(ticks, conn)))'
  BY DEF ErrorFirst
<1>1. CASE Blamed
  BY <1>1, WhyStays DEF Blamed
<1>2. CASE ~crashed /\ Heeded(ticks, conn)
  <2>1. /\ World.ticks = ticks /\ World'.ticks = ticks' /\ World'.conn = conn'
        /\ ticks \in Seq(TickType) /\ ticks' \in Seq(TickType)
    <3>1. ticks \in Seq(TickType) /\ ticks' \in Seq(TickType)
      BY TicksTyped
    <3> QED
      BY <3>1 DEF World
  <2>2. CASE Called
    BY <2>2, <1>2, FirmHeeded DEF Called, Orderly
  <2>3. CASE Happened
    <3>1. ticks = <<>> /\ ToSet(ticks) = {} /\ UNCHANGED crashed
      BY <2>3 DEF Happened, IO, ToSet
    <3>2. \A t \in ToSet(ticks') : t.fn # "error"
      BY <3>1, <2>1, <2>3 DEF Happened, Orderly, Calm
    <3> QED
      BY <3>1, <3>2, <2>1, <1>2, NoneHeeded
  <2>4. CASE Ticked
    <3>1. ticks # <<>> /\ Popped.ticks = Tail(ticks)
      BY <2>4 DEF Ticked, Popped, World
    <3>2. \A t \in ToSet(Tail(ticks)) : t.fn # "error"
      BY <3>1, <2>1, <1>2, TailHeeded
    <3>3. \A t \in ToSet(ticks') : t.fn # "error"
      BY <3>1, <3>2, <2>1, <2>4 DEF Ticked, Orderly, Calm
    <3>4. ASSUME NEW s \in Sockets, RunError(s)
          PROVE  UNCHANGED crashed
      <4>1. Runs("error", None, s)
        BY <3>4 DEF RunError
      <4>2. Len(ticks) > 0 /\ ticks[1] = Tick("error", None, s)
        BY <4>1, <2>1 DEF Runs
      <4>3. "request" \in conn[s].listeners \/ "idle" \in conn[s].listeners
        BY <4>2, <1>2, TickFields DEF Heeded
      <4> QED
        BY <4>3, <3>4 DEF RunError, Has
    <3>5. UNCHANGED crashed
      BY <3>4, <2>4 DEF Ticked
    <3> QED
      BY <3>3, <3>5, <2>1, <1>2, NoneHeeded
  <2>5. ASSUME NEW r \in Requests, NEW o \in Origins, NEW e \in EndsAtOnce, Request(r, o, e)
        PROVE  (~crashed /\ Heeded(ticks, conn))'
    BY <2>5, <1>2, RequestCalm, FirmHeeded
  <2>6. ASSUME NEW r \in Requests, Destroy(r, TRUE)
        PROVE  Blamed'
    <3>1. req \in ReqMap
      BY Typed DEF CInv
    <3>2. req'[r].why = "error"
      BY <2>6, <3>1 DEF Destroy, ReqMap, ReqType
    <3> QED
      BY <3>2 DEF Blamed
  <2>7. ASSUME NEW s \in Sockets, SocketError(s)
        PROVE  (~crashed /\ Heeded(ticks, conn))'
    BY <2>7, <1>2, ResetHeeded DEF SocketError
  <2>8. ASSUME NEW r \in Requests, NEW s \in Sockets, RunOnSocket(r, s)
        PROVE  (~crashed /\ Heeded(ticks, conn))'
    <3>1. ticks # <<>> /\ UNCHANGED crashed
      BY <2>8 DEF RunOnSocket, Runs
    <3>2. ticks' = Tail(ticks)
      BY <2>8 DEF RunOnSocket, Become, Popped, World
    <3> QED
      BY <3>1, <3>2, <2>1, <1>2, TailHeeded, NoneHeeded
  <2> QED
    BY <2>2, <2>3, <2>4, <2>5, <2>6, <2>7, <2>8, StepKinds
<1> QED
  BY <1>1, <1>2 DEF ErrorFirst

\* Where every tick runs before the next event of the network, an 'error' that
\* no listener hears, and that ends the process, is the program's own: it
\* called destroy(err).
THEOREM ErrorsHeard == Spec => []NoUnhandledError
<1>1. Init => ErrorFirst
  BY InitErrorFirst
<1>2. CInv /\ CInv' /\ [Next]_vars /\ ErrorFirst => ErrorFirst'
  BY NextErrorFirst
<1>3. ErrorFirst => NoUnhandledError
  BY DEF ErrorFirst, Blamed, NoUnhandledError
<1> QED
  BY <1>1, <1>2, <1>3, AlwaysSound, PTL DEF Spec
=============================================================================
