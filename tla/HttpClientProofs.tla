-------------------------- MODULE HttpClientProofs --------------------------
(***************************************************************************)
(* What holds of the HTTP client for every set of requests, origins and    *)
(* sockets and every limit of the agent.                                   *)
(***************************************************************************)
EXTENDS HttpClient, FiniteSetTheorems, TLAPS

WorldType == [pool : PoolType, conn : [Sockets -> ConnType], ticks : Seq(TickType)]

NoRepeats(q) == \A i, j \in 1..Len(q) : q[i] = q[j] => i = j

\* u is q without its k-th element: f maps the places of u to places of q.
IsWithout(u, q, k) ==
    \E f \in [1..Len(u) -> 1..Len(q)] :
       /\ \A j \in 1..Len(u) : f[j] # k /\ u[j] = q[f[j]]
       /\ \A i, j \in 1..Len(u) : f[i] = f[j] => i = j
       /\ \A i \in 1..Len(q) : i # k => \E j \in 1..Len(u) : f[j] = i

\* The keys are the names that have waiting requests, each one once.
KeysOf(keys, queues) ==
    /\ \A i \in 1..Len(keys) : Len(queues[keys[i]]) > 0
    /\ \A n \in Origins : Len(queues[n]) > 0 => \E i \in 1..Len(keys) : keys[i] = n
    /\ NoRepeats(keys)

KeysMatch(w) == KeysOf(w.pool.keys, w.pool.requests)

\* A request waits under the name of the origin og gives it.
QueuedByName(w, og) ==
    \A n \in Origins : \A i \in 1..Len(w.pool.requests[n]) :
        /\ og[w.pool.requests[n][i]] \in Origins
        /\ GetName(og[w.pool.requests[n][i]]) = n

\* A socket that is in use has a target, and its listeners make it used.
Targeted(w) ==
    \A s \in Sockets : /\ w.conn[s].state = "unused" => w.conn[s].target = None
                       /\ w.conn[s].state # "unused" => w.conn[s].target \in Origins
                       /\ w.conn[s].listeners # {} => w.conn[s].state # "unused"

\* A request and the socket it is about to get have the same name.
TicksByName(w, og) ==
    \A i \in 1..Len(w.ticks) : w.ticks[i].fn = "onSocket" =>
        /\ w.ticks[i].req \in Requests
        /\ w.ticks[i].sock \in Sockets
        /\ og[w.ticks[i].req] \in Origins
        /\ w.conn[w.ticks[i].sock].target \in Origins
        /\ GetName(og[w.ticks[i].req]) = GetName(w.conn[w.ticks[i].sock].target)

WorldOK(w, og) == /\ w \in WorldType
                  /\ KeysMatch(w)
                  /\ QueuedByName(w, og)
                  /\ Targeted(w)
                  /\ TicksByName(w, og)

\* From world w to world v the sockets in use keep their targets.
KeepsTargets(w, v) ==
    \A s \in Sockets : w.conn[s].target \in Origins => v.conn[s].target = w.conn[s].target

\* A pool with other lists of sockets and another count, or with other queues.
WithSockets(p, a, b, n) == [p EXCEPT !.sockets = a, !.freeSockets = b, !.total = n]
WithQueues(p, a, k) == [p EXCEPT !.requests = a, !.keys = k]

OriginMap == [Requests -> Origins \cup {None}]

-----------------------------------------------------------------------------
LEMMA GetNameType ==
  ASSUME NEW o \in Origins
  PROVE  GetName(o) \in Origins
BY AgentAssumption DEF GetName, HttpsName

LEMMA WithoutProperties ==
  ASSUME NEW S, NEW q \in Seq(S), NEW k \in 1..Len(q), NEW e, e = q[k],
         NoRepeats(q), NEW u, u = Without(q, e)
  PROVE  u \in Seq(S) /\ IsWithout(u, q, k)
<1> DEFINE c == CHOOSE j \in 1..Len(q) : q[j] = e
           L == Len(q) - 1
           f == [j \in 1..L |-> IF j < k THEN j ELSE j + 1]
<1>1. c = k
  BY DEF NoRepeats
<1>2. u = [j \in 1..L |-> IF j < k THEN q[j] ELSE q[j + 1]]
  BY <1>1 DEF Without
<1>3. L \in Nat
  OBVIOUS
<1>4. \A j \in 1..L : (IF j < k THEN q[j] ELSE q[j + 1]) \in S
  OBVIOUS
<1>5. u \in Seq(S) /\ Len(u) = L
  <2> HIDE DEF L
  <2> QED
    BY <1>2, <1>3, <1>4
<1>6. f \in [1..L -> 1..Len(q)]
  OBVIOUS
<1>7. \A j \in 1..L : f[j] # k /\ u[j] = q[f[j]]
  BY <1>2
<1>8. \A i, j \in 1..L : f[i] = f[j] => i = j
  OBVIOUS
<1>9. ASSUME NEW i \in 1..Len(q), i # k
      PROVE  \E j \in 1..L : f[j] = i
  <2>1. CASE i < k
    <3>1. i \in 1..L /\ f[i] = i
      BY <2>1
    <3> QED
      BY <3>1
  <2>2. CASE i > k
    <3>1. i - 1 \in 1..L /\ f[i - 1] = i
      BY <2>2
    <3> QED
      BY <3>1
  <2> QED
    BY <1>9, <2>1, <2>2
<1> HIDE DEF f, L
<1>10. IsWithout(u, q, k)
  <2>1. /\ f \in [1..Len(u) -> 1..Len(q)]
        /\ \A j \in 1..Len(u) : f[j] # k /\ u[j] = q[f[j]]
        /\ \A i, j \in 1..Len(u) : f[i] = f[j] => i = j
        /\ \A i \in 1..Len(q) : i # k => \E j \in 1..Len(u) : f[j] = i
    BY <1>5, <1>6, <1>7, <1>8, <1>9
  <2> QED
    BY <2>1, Zenon DEF IsWithout
<1> QED
  BY <1>5, <1>10

\* A queue gets shorter, and its name leaves the keys when it gets empty.
LEMMA KeysWithout ==
  ASSUME NEW keys \in Seq(Origins), NEW queues \in [Origins -> Seq(Requests)],
         KeysOf(keys, queues),
         NEW n \in Origins, Len(queues[n]) > 0, NEW q \in Seq(Requests),
         NEW k, k = IF Len(q) = 0 THEN Without(keys, n) ELSE keys
  PROVE  k \in Seq(Origins) /\ KeysOf(k, [queues EXCEPT ![n] = q])
<1>1. PICK p \in 1..Len(keys) : keys[p] = n
  BY DEF KeysOf
<1>2. NoRepeats(keys)
  BY DEF KeysOf
<1>3. CASE Len(q) # 0
  BY <1>3 DEF KeysOf
<1>4. CASE Len(q) = 0
  <2>1. k = Without(keys, n) /\ n = keys[p]
    BY <1>1, <1>4
  <2>2. k \in Seq(Origins) /\ IsWithout(k, keys, p)
    BY <2>1, <1>2, WithoutProperties
  <2>3. PICK f \in [1..Len(k) -> 1..Len(keys)] :
              /\ \A j \in 1..Len(k) : f[j] # p /\ k[j] = keys[f[j]]
              /\ \A i, j \in 1..Len(k) : f[i] = f[j] => i = j
              /\ \A i \in 1..Len(keys) : i # p => \E j \in 1..Len(k) : f[j] = i
    BY <2>2 DEF IsWithout
  <2>4. NoRepeats(k)
    <3> SUFFICES ASSUME NEW i \in 1..Len(k), NEW j \in 1..Len(k), k[i] = k[j]
                 PROVE  i = j
      BY DEF NoRepeats
    <3>1. f[i] \in 1..Len(keys) /\ f[j] \in 1..Len(keys) /\ keys[f[i]] = keys[f[j]]
      BY <2>3
    <3>2. f[i] = f[j]
      BY <3>1, <1>2 DEF NoRepeats
    <3> QED
      BY <3>2, <2>3
  <2>5. ASSUME NEW j \in 1..Len(k)
        PROVE  k[j] \in Origins /\ k[j] # n
    <3>1. f[j] \in 1..Len(keys) /\ f[j] # p /\ k[j] = keys[f[j]]
      BY <2>3
    <3>2. keys[f[j]] \in Origins
      BY <3>1
    <3>3. keys[f[j]] # keys[p]
      BY <3>1, <1>2 DEF NoRepeats
    <3> QED
      BY <3>1, <3>2, <3>3, <1>1
  <2>6. \A j \in 1..Len(k) : Len(queues[k[j]]) > 0
    BY <2>3 DEF KeysOf
  <2>7. ASSUME NEW m \in Origins, m # n, Len(queues[m]) > 0
        PROVE  \E j \in 1..Len(k) : k[j] = m
    <3>1. PICK i \in 1..Len(keys) : keys[i] = m
      BY <2>7 DEF KeysOf
    <3>2. PICK j \in 1..Len(k) : f[j] = i
      BY <3>1, <2>7, <2>3, <1>1
    <3> QED
      BY <3>1, <3>2, <2>3
  <2> QED
    BY <1>4, <2>2, <2>4, <2>5, <2>6, <2>7 DEF KeysOf
<1> QED
  BY <1>3, <1>4

\* A queue gets longer, and its name enters the keys when it was empty.
LEMMA KeysWith ==
  ASSUME NEW keys \in Seq(Origins), NEW queues \in [Origins -> Seq(Requests)],
         KeysOf(keys, queues), NEW n \in Origins, NEW r \in Requests,
         NEW k, k = IF Len(queues[n]) = 0 THEN Append(keys, n) ELSE keys
  PROVE  /\ k \in Seq(Origins)
         /\ KeysOf(k, [queues EXCEPT ![n] = Append(queues[n], r)])
<1>1. Len(Append(queues[n], r)) > 0
  OBVIOUS
<1>2. CASE Len(queues[n]) # 0
  BY <1>1, <1>2 DEF KeysOf
<1>3. CASE Len(queues[n]) = 0
  <2>1. /\ k \in Seq(Origins)
        /\ Len(k) = Len(keys) + 1
        /\ \A i \in 1..Len(keys) : k[i] = keys[i]
        /\ k[Len(keys) + 1] = n
    BY <1>3
  <2>2. ASSUME NEW i \in 1..Len(keys), keys[i] = n
        PROVE  FALSE
    <3>1. Len(queues[keys[i]]) > 0
      BY DEF KeysOf
    <3> QED
      BY <3>1, <2>2, <1>3
  <2>3. \A i \in 1..Len(k) : i \in 1..Len(keys) \/ i = Len(keys) + 1
    BY <2>1
  <2>4. Len(keys) + 1 \in 1..Len(k) /\ \A i \in 1..Len(keys) : i \in 1..Len(k)
    BY <2>1
  <2>5. NoRepeats(k)
    <3>1. SUFFICES ASSUME NEW i \in 1..Len(k), NEW j \in 1..Len(k), k[i] = k[j]
                   PROVE  i = j
      BY DEF NoRepeats
    <3>2. CASE i \in 1..Len(keys) /\ j \in 1..Len(keys)
      BY <2>1, <3>1, <3>2 DEF KeysOf, NoRepeats
    <3>3. CASE i \in 1..Len(keys) /\ j = Len(keys) + 1
      BY <2>1, <2>2, <3>1, <3>3
    <3>4. CASE i = Len(keys) + 1 /\ j \in 1..Len(keys)
      BY <2>1, <2>2, <3>1, <3>4
    <3>5. CASE i = Len(keys) + 1 /\ j = Len(keys) + 1
      BY <3>5
    <3> QED
      BY <2>3, <3>2, <3>3, <3>4, <3>5
  <2>6. \A i \in 1..Len(k) : Len([queues EXCEPT ![n] = Append(queues[n], r)][k[i]]) > 0
    BY <2>1, <2>3, <1>1 DEF KeysOf
  <2>7. \A m \in Origins : Len([queues EXCEPT ![n] = Append(queues[n], r)][m]) > 0
                              => \E i \in 1..Len(k) : k[i] = m
    BY <2>1, <2>4 DEF KeysOf
  <2> QED
    BY <2>1, <2>5, <2>6, <2>7 DEF KeysOf
<1> QED
  BY <1>2, <1>3

-----------------------------------------------------------------------------
(* What the agent does to a world keeps it in order. *)

\* One more tick in a world.
LEMMA AppendTick ==
  ASSUME NEW w, w \in WorldType, NEW t \in TickType,
         NEW v, v = [w EXCEPT !.ticks = Append(@, t)]
  PROVE  /\ v \in WorldType
         /\ v.pool = w.pool /\ v.conn = w.conn
         /\ Len(v.ticks) = Len(w.ticks) + 1
         /\ \A i \in 1..Len(v.ticks) :
               (i \in 1..Len(w.ticks) /\ v.ticks[i] = w.ticks[i]) \/ v.ticks[i] = t
<1> DEFINE q == Append(w.ticks, t)
<1>1. w.ticks \in Seq(TickType)
  BY DEF WorldType
<1>2. /\ q \in Seq(TickType)
      /\ Len(q) = Len(w.ticks) + 1
      /\ \A i \in 1..Len(q) : (i \in 1..Len(w.ticks) /\ q[i] = w.ticks[i]) \/ q[i] = t
  BY <1>1
<1>3. v = [w EXCEPT !.ticks = q]
  OBVIOUS
<1> HIDE DEF q
<1>4. v.pool = w.pool /\ v.conn = w.conn /\ v.ticks = q
  BY <1>3 DEF WorldType
<1>5. v \in WorldType
  BY <1>2, <1>3 DEF WorldType
<1> QED
  BY <1>2, <1>4, <1>5

LEMMA UpdatePool ==
  ASSUME NEW p \in PoolType, NEW a \in [Origins -> SUBSET Sockets],
         NEW b \in [Origins -> SUBSET Sockets], NEW n \in Int
  PROVE  /\ WithSockets(p, a, b, n) \in PoolType
         /\ WithSockets(p, a, b, n).requests = p.requests
         /\ WithSockets(p, a, b, n).keys = p.keys
BY DEF PoolType, WithSockets

LEMMA UpdateQueues ==
  ASSUME NEW p \in PoolType, NEW a \in [Origins -> Seq(Requests)],
         NEW k \in Seq(Origins)
  PROVE  /\ WithQueues(p, a, k) \in PoolType
         /\ WithQueues(p, a, k).requests = a
         /\ WithQueues(p, a, k).keys = k
BY DEF PoolType, WithQueues

\* A tick other than an onSocketNT can be queued freely.
LEMMA QueueTick ==
  ASSUME NEW w, NEW og, WorldOK(w, og), NEW t \in TickType, t.fn # "onSocket"
  PROVE  /\ WorldOK([w EXCEPT !.ticks = Append(@, t)], og)
         /\ KeepsTargets(w, [w EXCEPT !.ticks = Append(@, t)])
<1> DEFINE v == [w EXCEPT !.ticks = Append(@, t)]
<1>1. w \in WorldType
  BY DEF WorldOK
<1>2. /\ v \in WorldType /\ v.pool = w.pool /\ v.conn = w.conn
      /\ \A i \in 1..Len(v.ticks) :
            (i \in 1..Len(w.ticks) /\ v.ticks[i] = w.ticks[i]) \/ v.ticks[i] = t
  BY <1>1, AppendTick
<1> HIDE DEF v
<1>3. TicksByName(v, og)
  BY <1>2 DEF WorldOK, TicksByName
<1>4. WorldOK(v, og) /\ KeepsTargets(w, v)
  BY <1>2, <1>3 DEF WorldOK, KeysMatch, QueuedByName, Targeted, KeepsTargets
<1> QED
  BY <1>4 DEF v

\* Changes of a socket in use that keep its target.
LEMMA UpdateSocket ==
  ASSUME NEW w, NEW og, WorldOK(w, og), NEW s \in Sockets, NEW c \in ConnType,
         c.target = w.conn[s].target,
         w.conn[s].state # "unused", c.state # "unused"
  PROVE  /\ WorldOK([w EXCEPT !.conn[s] = c], og)
         /\ KeepsTargets(w, [w EXCEPT !.conn[s] = c])
<1> DEFINE v == [w EXCEPT !.conn[s] = c]
<1>1. /\ v \in WorldType
      /\ v.pool = w.pool /\ v.ticks = w.ticks
      /\ v.conn = [w.conn EXCEPT ![s] = c]
      /\ w.conn \in [Sockets -> ConnType]
  BY DEF WorldOK, WorldType
<1>2. \A x \in Sockets : v.conn[x].target = w.conn[x].target
  BY <1>1
<1>3. TicksByName(v, og)
  BY <1>1, <1>2 DEF WorldOK, TicksByName
<1>4. Targeted(v)
  BY <1>1 DEF WorldOK, Targeted
<1> QED
  BY <1>1, <1>2, <1>3, <1>4 DEF WorldOK, KeysMatch, QueuedByName, KeepsTargets

LEMMA DestroySocketOK ==
  ASSUME NEW w, NEW og, WorldOK(w, og), NEW s \in Sockets
  PROVE  /\ WorldOK(DestroySocket(w, s), og)
         /\ KeepsTargets(w, DestroySocket(w, s))
<1>1. CASE ~Live(w, s)
  BY <1>1 DEF DestroySocket, KeepsTargets
<1>2. CASE Live(w, s)
  <2> DEFINE c == [w.conn[s] EXCEPT !.state = "destroyed"]
             v == [w EXCEPT !.conn[s] = c]
             t == Tick("close", None, s)
  <2>1. /\ w \in WorldType
        /\ w.conn[s] \in ConnType /\ w.conn[s].state # "unused"
    BY <1>2 DEF WorldOK, WorldType, Live
  <2>2. c \in ConnType /\ c.target = w.conn[s].target /\ c.state # "unused"
    BY <2>1 DEF ConnType
  <2>3. WorldOK(v, og) /\ KeepsTargets(w, v)
    BY <2>1, <2>2, UpdateSocket
  <2>4. t \in TickType /\ t.fn # "onSocket"
    BY DEF Tick, TickType
  <2>5. /\ WorldOK([v EXCEPT !.ticks = Append(@, t)], og)
        /\ KeepsTargets(v, [v EXCEPT !.ticks = Append(@, t)])
    BY <2>3, <2>4, QueueTick
  <2>6. DestroySocket(w, s) = IF CloseByTick THEN [v EXCEPT !.ticks = Append(@, t)] ELSE v
    BY <1>2, <2>1 DEF DestroySocket, WorldType
  <2> QED
    BY <2>3, <2>5, <2>6 DEF KeepsTargets
<1> QED
  BY <1>1, <1>2

LEMMA DestroySocketWithErrorOK ==
  ASSUME NEW w, NEW og, WorldOK(w, og), NEW s \in Sockets
  PROVE  /\ WorldOK(DestroySocketWithError(w, s), og)
         /\ KeepsTargets(w, DestroySocketWithError(w, s))
<1> DEFINE t == Tick("error", None, s)
           v == [w EXCEPT !.ticks = Append(@, t)]
<1>1. t \in TickType /\ t.fn # "onSocket"
  BY DEF Tick, TickType
<1>2. WorldOK(v, og) /\ KeepsTargets(w, v)
  BY <1>1, QueueTick
<1>3. WorldOK(DestroySocket(v, s), og) /\ KeepsTargets(v, DestroySocket(v, s))
  BY <1>2, DestroySocketOK
<1> HIDE DEF v
<1> QED
  BY <1>2, <1>3 DEF DestroySocketWithError, KeepsTargets, v

LEMMA NewSocketOK ==
  ASSUME NEW w, NEW og, WorldOK(w, og), NEW s \in Fresh(w), NEW o \in Origins
  PROVE  /\ WorldOK(NewSocket(w, s, o), og)
         /\ KeepsTargets(w, NewSocket(w, s, o))
         /\ NewSocket(w, s, o).conn[s].target = o
         /\ NewSocket(w, s, o).pool.requests = w.pool.requests
         /\ NewSocket(w, s, o).pool.keys = w.pool.keys
<1> DEFINE v == NewSocket(w, s, o)
           c == [state |-> "open", target |-> o, message |-> None,
                 listeners |-> {"agent"}, hadError |-> FALSE]
<1>1. /\ w \in WorldType /\ s \in Sockets
      /\ w.conn[s].state = "unused" /\ w.conn[s].target = None
      /\ None \notin Origins
  BY AgentAssumption DEF WorldOK, Fresh, Targeted
<1>2. c \in ConnType
  BY DEF ConnType
<1>3. GetName(o) \in Origins
  BY GetNameType
<1>4. /\ v.conn = [w.conn EXCEPT ![s] = c]
      /\ v.ticks = w.ticks
      /\ v.pool = [w.pool EXCEPT !.sockets[GetName(o)] = @ \cup {s}, !.total = @ + 1]
      /\ v \in [pool : {v.pool}, conn : {v.conn}, ticks : {v.ticks}]
  BY <1>1 DEF NewSocket, WorldType
<1>5. v.pool \in PoolType /\ v.pool.requests = w.pool.requests /\ v.pool.keys = w.pool.keys
  <2> DEFINE a == [w.pool.sockets EXCEPT ![GetName(o)] = @ \cup {s}]
             n == w.pool.total + 1
  <2>1. /\ w.pool \in PoolType
        /\ w.pool.sockets \in [Origins -> SUBSET Sockets]
        /\ w.pool.freeSockets \in [Origins -> SUBSET Sockets]
        /\ w.pool.total \in Int
    BY <1>1 DEF WorldType, PoolType
  <2>2. a \in [Origins -> SUBSET Sockets] /\ n \in Int
    BY <2>1, <1>1, <1>3
  <2>3. v.pool = WithSockets(w.pool, a, w.pool.freeSockets, n)
    BY <1>4, <2>1 DEF PoolType, WithSockets
  <2> HIDE DEF v, a, n
  <2>4. /\ WithSockets(w.pool, a, w.pool.freeSockets, n) \in PoolType
        /\ WithSockets(w.pool, a, w.pool.freeSockets, n).requests = w.pool.requests
        /\ WithSockets(w.pool, a, w.pool.freeSockets, n).keys = w.pool.keys
    BY <2>1, <2>2, UpdatePool
  <2> QED
    BY <2>3, <2>4
<1>6. v \in WorldType
  <2>1. v.conn \in [Sockets -> ConnType] /\ v.ticks \in Seq(TickType)
    BY <1>1, <1>2, <1>4 DEF WorldType
  <2> HIDE DEF v
  <2> QED
    BY <2>1, <1>4, <1>5 DEF WorldType
<1>7. v.conn[s].target = o
  BY <1>1, <1>4 DEF WorldType
<1>8. KeepsTargets(w, v)
  BY <1>1, <1>4 DEF KeepsTargets, WorldType
<1>9. TicksByName(v, og)
  BY <1>4, <1>8 DEF WorldOK, TicksByName, KeepsTargets
<1>10. Targeted(v)
  BY <1>1, <1>4 DEF WorldOK, Targeted, WorldType
<1> QED
  BY <1>5, <1>6, <1>7, <1>8, <1>9, <1>10 DEF WorldOK, KeysMatch, QueuedByName

LEMMA SetRequestSocketOK ==
  ASSUME NEW w, NEW og, WorldOK(w, og), NEW r \in Requests, NEW s \in Sockets,
         og[r] \in Origins, w.conn[s].target \in Origins,
         GetName(og[r]) = GetName(w.conn[s].target)
  PROVE  /\ WorldOK(SetRequestSocket(w, r, s), og)
         /\ KeepsTargets(w, SetRequestSocket(w, r, s))
<1> DEFINE t == Tick("onSocket", r, s)
           v == SetRequestSocket(w, r, s)
<1>1. w \in WorldType /\ t \in TickType /\ t.req = r /\ t.sock = s
  BY DEF Tick, TickType, WorldOK
<1>2. v = [w EXCEPT !.ticks = Append(@, t)]
  BY DEF SetRequestSocket
<1> HIDE DEF t, v
<1>3. /\ v \in WorldType /\ v.pool = w.pool /\ v.conn = w.conn
      /\ \A i \in 1..Len(v.ticks) :
            (i \in 1..Len(w.ticks) /\ v.ticks[i] = w.ticks[i]) \/ v.ticks[i] = t
  BY <1>1, <1>2, AppendTick
<1>4. TicksByName(v, og)
  BY <1>1, <1>3 DEF WorldOK, TicksByName
<1>5. WorldOK(v, og) /\ KeepsTargets(w, v)
  BY <1>3, <1>4 DEF WorldOK, KeysMatch, QueuedByName, Targeted, KeepsTargets
<1> QED
  BY <1>5 DEF v

\* The first waiting request of a name leaves its queue.
LEMMA ServeFirstOK ==
  ASSUME NEW w, NEW og, WorldOK(w, og), NEW n \in Origins, NEW s \in Sockets,
         w.pool.requests[n] # <<>>,
         w.conn[s].target \in Origins, GetName(w.conn[s].target) = n
  PROVE  /\ WorldOK(ServeFirst(w, n, s), og)
         /\ KeepsTargets(w, ServeFirst(w, n, s))
<1> DEFINE r == Head(w.pool.requests[n])
           q == Tail(w.pool.requests[n])
           k == IF q = <<>> THEN Without(w.pool.keys, n) ELSE w.pool.keys
           v == [w EXCEPT !.pool.requests[n] = q, !.pool.keys = k]
<1>1. /\ w \in WorldType
      /\ w.pool.requests \in [Origins -> Seq(Requests)]
      /\ w.pool.keys \in Seq(Origins)
      /\ KeysMatch(w) /\ QueuedByName(w, og)
  BY DEF WorldOK, WorldType, PoolType
<1>2. /\ r \in Requests /\ q \in Seq(Requests)
      /\ Len(w.pool.requests[n]) >= 1
      /\ r = w.pool.requests[n][1]
      /\ \A i \in 1..Len(q) : i + 1 \in 1..Len(w.pool.requests[n])
                              /\ q[i] = w.pool.requests[n][i + 1]
  BY <1>1
<1>3. og[r] \in Origins /\ GetName(og[r]) = n
  BY <1>1, <1>2 DEF QueuedByName
<1>4. /\ v.conn = w.conn /\ v.ticks = w.ticks
      /\ v.pool = WithQueues(w.pool, [w.pool.requests EXCEPT ![n] = q], k)
      /\ v \in [pool : {v.pool}, conn : {v.conn}, ticks : {v.ticks}]
  BY <1>1 DEF WorldType, WithQueues
<1> HIDE DEF v
<1>5. [w.pool.requests EXCEPT ![n] = q] \in [Origins -> Seq(Requests)]
  BY <1>1, <1>2
<1>6. k \in Seq(Origins) /\ KeysOf(k, [w.pool.requests EXCEPT ![n] = q])
  <2> HIDE DEF q
  <2>1. q = <<>> <=> Len(q) = 0
    BY <1>2
  <2>2. k = IF Len(q) = 0 THEN Without(w.pool.keys, n) ELSE w.pool.keys
    BY <2>1
  <2> HIDE DEF k
  <2>3. KeysOf(w.pool.keys, w.pool.requests) /\ Len(w.pool.requests[n]) > 0
    BY <1>1, <1>2 DEF KeysMatch
  <2> QED
    BY <1>1, <1>2, <2>2, <2>3, KeysWithout
<1> HIDE DEF q, k
<1>7. /\ v.pool.requests = [w.pool.requests EXCEPT ![n] = q]
      /\ v.pool.keys = k
      /\ v.pool \in PoolType
  <2>1. w.pool \in PoolType
    BY <1>1 DEF WorldType
  <2> QED
    BY <2>1, <1>4, <1>5, <1>6, UpdateQueues
<1>9. v \in WorldType
  BY <1>1, <1>4, <1>7 DEF WorldType
<1>10. QueuedByName(v, og)
  <2> SUFFICES ASSUME NEW m \in Origins, NEW i \in 1..Len(v.pool.requests[m])
               PROVE  /\ og[v.pool.requests[m][i]] \in Origins
                      /\ GetName(og[v.pool.requests[m][i]]) = m
    BY DEF QueuedByName
  <2>1. CASE m = n
    <3>1. v.pool.requests[m] = q
      BY <2>1, <1>1, <1>7
    <3>2. i + 1 \in 1..Len(w.pool.requests[n]) /\ v.pool.requests[m][i] = w.pool.requests[n][i + 1]
      BY <3>1, <1>2
    <3> QED
      BY <3>2, <2>1, <1>1 DEF QueuedByName
  <2>2. CASE m # n
    <3>1. v.pool.requests[m] = w.pool.requests[m]
      BY <2>2, <1>1, <1>7
    <3> QED
      BY <3>1, <1>1 DEF QueuedByName
  <2> QED
    BY <2>1, <2>2
<1>11. KeysMatch(v)
  BY <1>6, <1>7 DEF KeysMatch
<1>12. WorldOK(v, og) /\ KeepsTargets(w, v)
  BY <1>4, <1>9, <1>10, <1>11 DEF WorldOK, Targeted, TicksByName, KeepsTargets
<1>13. v.conn[s].target \in Origins /\ GetName(v.conn[s].target) = n
  BY <1>4
<1>14. /\ WorldOK(SetRequestSocket(v, r, s), og)
       /\ KeepsTargets(v, SetRequestSocket(v, r, s))
  BY <1>2, <1>3, <1>12, <1>13, SetRequestSocketOK
<1>15. ServeFirst(w, n, s) = SetRequestSocket(v, r, s)
  BY <1>1 DEF ServeFirst, v, k, q, WorldType
<1> QED
  BY <1>12, <1>14, <1>15 DEF KeepsTargets

\* A pool with the same queues leaves a world in order.
LEMMA NewPool ==
  ASSUME NEW w, NEW og, WorldOK(w, og), NEW p \in PoolType,
         p.requests = w.pool.requests, p.keys = w.pool.keys
  PROVE  /\ WorldOK([w EXCEPT !.pool = p], og)
         /\ [w EXCEPT !.pool = p].conn = w.conn
         /\ [w EXCEPT !.pool = p].pool = p
<1> DEFINE v == [w EXCEPT !.pool = p]
<1>1. v \in WorldType /\ v.conn = w.conn /\ v.ticks = w.ticks /\ v.pool = p
  BY DEF WorldOK, WorldType
<1> HIDE DEF v
<1>2. WorldOK(v, og)
  BY <1>1 DEF WorldOK, KeysMatch, QueuedByName, Targeted, TicksByName
<1> QED
  BY <1>1, <1>2 DEF v

LEMMA SocketForWaitingOK ==
  ASSUME NEW w, NEW og, WorldOK(w, og), NEW o \in Origins,
         w.pool.requests[GetName(o)] # <<>>
  PROVE  /\ WorldOK(SocketForWaiting(w, o), og)
         /\ KeepsTargets(w, SocketForWaiting(w, o))
<1>1. CASE Fresh(w) = {}
  BY <1>1 DEF SocketForWaiting, KeepsTargets
<1>2. CASE Fresh(w) # {}
  <2> DEFINE s == CHOOSE x \in Fresh(w) : TRUE
             v == NewSocket(w, s, o)
  <2>1. s \in Fresh(w) /\ s \in Sockets
    BY <1>2 DEF Fresh
  <2> HIDE DEF s
  <2>2. /\ WorldOK(v, og) /\ KeepsTargets(w, v)
        /\ v.conn[s].target = o /\ v.pool.requests = w.pool.requests
    BY <2>1, NewSocketOK
  <2>3. GetName(o) \in Origins
    BY GetNameType
  <2> HIDE DEF v
  <2>4. /\ WorldOK(ServeFirst(v, GetName(o), s), og)
        /\ KeepsTargets(v, ServeFirst(v, GetName(o), s))
    BY <2>1, <2>2, <2>3, ServeFirstOK
  <2>5. SocketForWaiting(w, o) = ServeFirst(v, GetName(o), s)
    BY <1>2 DEF SocketForWaiting, s, v
  <2> QED
    BY <2>2, <2>4, <2>5 DEF KeepsTargets
<1> QED
  BY <1>1, <1>2

LEMMA DropSocketOK ==
  ASSUME NEW w, NEW og, WorldOK(w, og), NEW s \in Sockets, w.conn[s].target \in Origins
  PROVE  WorldOK(DropSocket(w, s), og) /\ DropSocket(w, s).conn = w.conn
<1> DEFINE m == GetName(w.conn[s].target)
           busy == s \in w.pool.sockets[m]
           idle == ~Writable(w, s) /\ s \in w.pool.freeSockets[m]
           a == [w.pool.sockets EXCEPT ![m] = @ \ {s}]
           b == [w.pool.freeSockets EXCEPT ![m] = IF idle THEN @ \ {s} ELSE @]
           n == w.pool.total - (IF busy THEN 1 ELSE 0) - (IF idle THEN 1 ELSE 0)
           p == WithSockets(w.pool, a, b, n)
<1>1. /\ w \in WorldType
      /\ w.pool \in PoolType
      /\ w.pool.sockets \in [Origins -> SUBSET Sockets]
      /\ w.pool.freeSockets \in [Origins -> SUBSET Sockets]
      /\ w.pool.total \in Int
  BY DEF WorldOK, WorldType, PoolType
<1>2. m \in Origins
  BY GetNameType
<1> HIDE DEF m, busy, idle
<1>3. a \in [Origins -> SUBSET Sockets] /\ b \in [Origins -> SUBSET Sockets] /\ n \in Int
  BY <1>1, <1>2
<1>4. DropSocket(w, s) = [w EXCEPT !.pool = p]
  BY <1>1 DEF DropSocket, WithSockets, m, busy, idle, WorldType, PoolType
<1> HIDE DEF a, b, n
<1>5. p \in PoolType /\ p.requests = w.pool.requests /\ p.keys = w.pool.keys
  <2>1. w.pool \in PoolType
    BY <1>1
  <2> QED
    BY <2>1, <1>3, UpdatePool
<1> HIDE DEF p
<1> QED
  BY <1>4, <1>5, NewPool

LEMMA RefillOK ==
  ASSUME NEW w, WorldOK(w, origin), NEW s \in Sockets, w.conn[s].target \in Origins
  PROVE  WorldOK(Refill(w, s), origin) /\ KeepsTargets(w, Refill(w, s))
<1> DEFINE n == GetName(w.conn[s].target)
           m == Head(w.pool.keys)
           r == Head(w.pool.requests[m])
<1>1. CASE w.pool.requests[n] # <<>>
  BY <1>1, SocketForWaitingOK DEF Refill
<1>2. CASE w.pool.requests[n] = <<>> /\ w.pool.keys # <<>> /\ w.pool.sockets[m] = {}
  <2>1. /\ w.pool.requests \in [Origins -> Seq(Requests)]
        /\ w.pool.keys \in Seq(Origins)
    BY DEF WorldOK, WorldType, PoolType
  <2>2. 1 \in 1..Len(w.pool.keys) /\ m = w.pool.keys[1] /\ m \in Origins
    BY <2>1, <1>2
  <2>3. Len(w.pool.requests[m]) > 0
    BY <2>2 DEF WorldOK, KeysMatch, KeysOf
  <2> HIDE DEF m
  <2>4. w.pool.requests[m] # <<>> /\ 1 \in 1..Len(w.pool.requests[m])
        /\ r = w.pool.requests[m][1]
    BY <2>1, <2>2, <2>3
  <2>5. origin[r] \in Origins /\ GetName(origin[r]) = m
    BY <2>2, <2>4 DEF WorldOK, QueuedByName
  <2> HIDE DEF r
  <2>6. /\ WorldOK(SocketForWaiting(w, origin[r]), origin)
        /\ KeepsTargets(w, SocketForWaiting(w, origin[r]))
    BY <2>4, <2>5, SocketForWaitingOK
  <2>7. Refill(w, s) = SocketForWaiting(w, origin[r])
    BY <1>2 DEF Refill, m, r
  <2> QED
    BY <2>6, <2>7
<1>3. CASE w.pool.requests[n] = <<>> /\ ~(w.pool.keys # <<>> /\ w.pool.sockets[m] = {})
  <2>1. Refill(w, s) = w
    BY <1>3 DEF Refill
  <2> QED
    BY <2>1 DEF KeepsTargets
<1> QED
  BY <1>1, <1>2, <1>3

LEMMA RemoveSocketOK ==
  ASSUME NEW w, WorldOK(w, origin), NEW s \in Sockets, w.conn[s].target \in Origins
  PROVE  WorldOK(RemoveSocket(w, s), origin) /\ KeepsTargets(w, RemoveSocket(w, s))
<1> DEFINE v == DropSocket(w, s)
<1>1. WorldOK(v, origin) /\ v.conn = w.conn
  BY DropSocketOK
<1> HIDE DEF v
<1>2. WorldOK(Refill(v, s), origin) /\ KeepsTargets(v, Refill(v, s))
  BY <1>1, RefillOK
<1> QED
  BY <1>1, <1>2 DEF RemoveSocket, v, KeepsTargets

\* A socket the agent listens to is in use and has a target.
LEMMA InUse ==
  ASSUME NEW w, NEW og, WorldOK(w, og), NEW s \in Sockets,
         w.conn[s].listeners # {} \/ w.conn[s].target \in Origins \/ Live(w, s)
  PROVE  /\ w.conn[s].state # "unused" /\ w.conn[s].target \in Origins
         /\ w.conn[s] \in ConnType
BY AgentAssumption DEF WorldOK, WorldType, Targeted, Live

LEMMA AgentRemoveOK ==
  ASSUME NEW w, WorldOK(w, origin), NEW s \in Sockets
  PROVE  WorldOK(AgentRemove(w, s), origin) /\ KeepsTargets(w, AgentRemove(w, s))
<1>1. CASE "agent" \notin w.conn[s].listeners
  BY <1>1 DEF AgentRemove, KeepsTargets
<1>2. CASE "agent" \in w.conn[s].listeners
  <2> DEFINE v == RemoveSocket(w, s)
             c == [v.conn[s] EXCEPT !.listeners = @ \ {"agent"}]
             u == [v EXCEPT !.conn[s] = c]
  <2>1. w.conn[s].target \in Origins
    BY <1>2, InUse
  <2>2. WorldOK(v, origin) /\ KeepsTargets(w, v)
    BY <2>1, RemoveSocketOK
  <2> HIDE DEF v
  <2>3. v.conn[s].target \in Origins
    BY <2>1, <2>2 DEF KeepsTargets
  <2>4. v.conn[s].state # "unused" /\ v.conn[s] \in ConnType
    BY <2>2, <2>3, InUse
  <2>5. c \in ConnType /\ c.target = v.conn[s].target /\ c.state # "unused"
    BY <2>4 DEF ConnType
  <2> HIDE DEF c
  <2>6. WorldOK(u, origin) /\ KeepsTargets(v, u)
    BY <2>2, <2>4, <2>5, UpdateSocket
  <2>7. v \in WorldType
    BY <2>2 DEF WorldOK
  <2>8. AgentRemove(w, s) = u
    BY <1>2, <2>7 DEF AgentRemove, v, c, WorldType
  <2> HIDE DEF u
  <2> QED
    BY <2>2, <2>6, <2>8 DEF KeepsTargets
<1> QED
  BY <1>1, <1>2

LEMMA PoolSocketOK ==
  ASSUME NEW w, WorldOK(w, origin), NEW s \in Sockets, w.conn[s].target \in Origins
  PROVE  WorldOK(PoolSocket(w, s), origin) /\ KeepsTargets(w, PoolSocket(w, s))
<1> DEFINE d == [w.conn[s] EXCEPT !.message = None]
           x == [w EXCEPT !.conn[s] = d]
           v == RemoveSocket(x, s)
           c == [v.conn[s] EXCEPT !.listeners = @ \cup {"idle"}]
           u == [v EXCEPT !.conn[s] = c]
           n == GetName(w.conn[s].target)
           f == [u.pool.freeSockets EXCEPT ![n] = @ \cup {s}]
           p == WithSockets(u.pool, u.pool.sockets, f, u.pool.total)
<1>1. w.conn[s].state # "unused" /\ w.conn[s] \in ConnType
  BY InUse
<1>2. d \in ConnType /\ d.target = w.conn[s].target /\ d.state # "unused"
  BY <1>1 DEF ConnType
<1>3. w \in WorldType /\ n \in Origins
  BY GetNameType DEF WorldOK
<1> HIDE DEF d, n
<1>4. WorldOK(x, origin) /\ KeepsTargets(w, x)
  BY <1>1, <1>2, UpdateSocket
<1>5. x.conn[s].target \in Origins
  BY <1>4 DEF KeepsTargets
<1>6. x = [w EXCEPT !.conn[s].message = None]
  BY <1>3 DEF d, WorldType
<1> HIDE DEF x
<1>7. WorldOK(v, origin) /\ KeepsTargets(x, v)
  BY <1>4, <1>5, RemoveSocketOK
<1> HIDE DEF v
<1>8. v.conn[s].target \in Origins
  BY <1>5, <1>7 DEF KeepsTargets
<1>9. v.conn[s].state # "unused" /\ v.conn[s] \in ConnType
  BY <1>7, <1>8, InUse
<1>10. c \in ConnType /\ c.target = v.conn[s].target /\ c.state # "unused"
  BY <1>9 DEF ConnType
<1> HIDE DEF c
<1>11. WorldOK(u, origin) /\ KeepsTargets(v, u)
  BY <1>7, <1>9, <1>10, UpdateSocket
<1>12. v \in WorldType
  BY <1>7 DEF WorldOK
<1>13. PoolSocket(w, s) = [u EXCEPT !.pool = p]
  BY <1>6, <1>12 DEF PoolSocket, u, c, v, n, WithSockets, WorldType, PoolType
<1> HIDE DEF u
<1>14. /\ u.pool \in PoolType
       /\ u.pool.sockets \in [Origins -> SUBSET Sockets]
       /\ u.pool.freeSockets \in [Origins -> SUBSET Sockets]
       /\ u.pool.total \in Int
  BY <1>11 DEF WorldOK, WorldType, PoolType
<1>15. f \in [Origins -> SUBSET Sockets]
  BY <1>3, <1>14
<1> HIDE DEF f
<1>16. p \in PoolType /\ p.requests = u.pool.requests /\ p.keys = u.pool.keys
  BY <1>14, <1>15, UpdatePool
<1> HIDE DEF p
<1>17. WorldOK([u EXCEPT !.pool = p], origin) /\ [u EXCEPT !.pool = p].conn = u.conn
  BY <1>11, <1>16, NewPool
<1> QED
  BY <1>4, <1>7, <1>11, <1>13, <1>17 DEF KeepsTargets

LEMMA FreeSocketOK ==
  ASSUME NEW w, WorldOK(w, origin), NEW s \in Sockets
  PROVE  WorldOK(FreeSocket(w, s), origin) /\ KeepsTargets(w, FreeSocket(w, s))
<1> DEFINE n == GetName(w.conn[s].target)
<1>1. CASE "agent" \notin w.conn[s].listeners
  BY <1>1 DEF FreeSocket, KeepsTargets
<1>2. CASE "agent" \in w.conn[s].listeners
  <2>1. w.conn[s].target \in Origins
    BY <1>2, InUse
  <2>2. n \in Origins
    BY <2>1, GetNameType
  <2>3. WorldOK(DestroySocket(w, s), origin) /\ KeepsTargets(w, DestroySocket(w, s))
    BY DestroySocketOK
  <2>4. WorldOK(PoolSocket(w, s), origin) /\ KeepsTargets(w, PoolSocket(w, s))
    BY <2>1, PoolSocketOK
  <2>5. w.pool.requests[n] # <<>>
           => WorldOK(ServeFirst(w, n, s), origin) /\ KeepsTargets(w, ServeFirst(w, n, s))
    BY <2>1, <2>2, ServeFirstOK
  <2>6. FreeSocket(w, s) \in {DestroySocket(w, s), PoolSocket(w, s)}
        \/ (w.pool.requests[n] # <<>> /\ FreeSocket(w, s) = ServeFirst(w, n, s))
    BY <1>2 DEF FreeSocket
  <2> QED
    BY <2>3, <2>4, <2>5, <2>6
<1> QED
  BY <1>1, <1>2

LEMMA EnqueueOK ==
  ASSUME NEW w, NEW og, WorldOK(w, og), NEW r \in Requests, NEW o \in Origins, og[r] = o
  PROVE  WorldOK(Enqueue(w, r, o), og) /\ KeepsTargets(w, Enqueue(w, r, o))
<1> DEFINE n == GetName(o)
           a == [w.pool.requests EXCEPT ![n] = Append(w.pool.requests[n], r)]
           k == IF w.pool.requests[n] = <<>> THEN Append(w.pool.keys, n) ELSE w.pool.keys
           p == WithQueues(w.pool, a, k)
           v == [w EXCEPT !.pool = p]
<1>1. /\ w \in WorldType /\ w.pool \in PoolType
      /\ w.pool.requests \in [Origins -> Seq(Requests)]
      /\ w.pool.keys \in Seq(Origins)
      /\ KeysOf(w.pool.keys, w.pool.requests) /\ QueuedByName(w, og)
  BY DEF WorldOK, WorldType, PoolType, KeysMatch
<1>2. n \in Origins
  BY GetNameType
<1>3. Enqueue(w, r, o) = v
  BY <1>1 DEF Enqueue, WithQueues, WorldType, PoolType
<1>4. k = IF Len(w.pool.requests[n]) = 0 THEN Append(w.pool.keys, n) ELSE w.pool.keys
  <2>1. w.pool.requests[n] = <<>> <=> Len(w.pool.requests[n]) = 0
    BY <1>1, <1>2
  <2> QED
    BY <2>1
<1>5. GetName(og[r]) = n /\ og[r] \in Origins
  OBVIOUS
<1> HIDE DEF n, k
<1>6. k \in Seq(Origins) /\ KeysOf(k, a)
  BY <1>1, <1>2, <1>4, KeysWith
<1>7. a \in [Origins -> Seq(Requests)]
  BY <1>1, <1>2
<1>8. \A x \in Origins : \A i \in 1..Len(a[x]) :
         (x = n /\ a[x][i] = r) \/ (i \in 1..Len(w.pool.requests[x])
                                     /\ a[x][i] = w.pool.requests[x][i])
  BY <1>1, <1>2
<1> HIDE DEF a
<1>9. p \in PoolType /\ p.requests = a /\ p.keys = k
  <2>1. w.pool \in PoolType /\ k \in Seq(Origins)
    BY <1>1, <1>6
  <2> QED
    BY <2>1, <1>7, UpdateQueues
<1> HIDE DEF p
<1>10. v \in WorldType /\ v.pool = p /\ v.conn = w.conn /\ v.ticks = w.ticks
  BY <1>1, <1>9 DEF WorldType
<1> HIDE DEF v
<1>11. KeysMatch(v)
  BY <1>6, <1>9, <1>10 DEF KeysMatch
<1>12. QueuedByName(v, og)
  <2> SUFFICES ASSUME NEW x \in Origins, NEW i \in 1..Len(a[x])
               PROVE  og[a[x][i]] \in Origins /\ GetName(og[a[x][i]]) = x
    BY <1>9, <1>10 DEF QueuedByName
  <2>1. CASE x = n /\ a[x][i] = r
    BY <2>1, <1>5
  <2>2. CASE i \in 1..Len(w.pool.requests[x]) /\ a[x][i] = w.pool.requests[x][i]
    BY <2>2, <1>1 DEF QueuedByName
  <2> QED
    BY <2>1, <2>2, <1>8
<1> QED
  BY <1>3, <1>10, <1>11, <1>12 DEF WorldOK, Targeted, TicksByName, KeepsTargets

LEMMA AddRequestOK ==
  ASSUME NEW w, NEW og, WorldOK(w, og), NEW r \in Requests, NEW o \in Origins, og[r] = o,
         ~Underloaded(w, o) \/ Fresh(w) # {}
  PROVE  WorldOK(AddRequest(w, r, o), og) /\ KeepsTargets(w, AddRequest(w, r, o))
<1>1. CASE ~Underloaded(w, o)
  BY <1>1, EnqueueOK DEF AddRequest
<1>2. CASE Underloaded(w, o)
  <2> DEFINE s == CHOOSE x \in Fresh(w) : TRUE
             v == NewSocket(w, s, o)
  <2>1. s \in Fresh(w) /\ s \in Sockets
    BY <1>2 DEF Fresh
  <2>2. AddRequest(w, r, o) = SetRequestSocket(v, r, s)
    BY <1>2 DEF AddRequest
  <2> HIDE DEF s
  <2>3. WorldOK(v, og) /\ KeepsTargets(w, v) /\ v.conn[s].target = o
    BY <2>1, NewSocketOK
  <2> HIDE DEF v
  <2>4. /\ WorldOK(SetRequestSocket(v, r, s), og)
        /\ KeepsTargets(v, SetRequestSocket(v, r, s))
    BY <2>1, <2>3, SetRequestSocketOK
  <2> QED
    BY <2>2, <2>3, <2>4 DEF KeepsTargets
<1> QED
  BY <1>1, <1>2

-----------------------------------------------------------------------------
(* The inductive invariant. *)

\* A request and its socket go to origins of the same name.
Assigned(og, rq, cn) ==
    \A r \in Requests : rq[r].socket # None =>
        /\ og[r] \in Origins
        /\ cn[rq[r].socket].target \in Origins
        /\ GetName(og[r]) = GetName(cn[rq[r].socket].target)

IInv == /\ WorldOK(World, origin)
        /\ origin \in OriginMap
        /\ shouldKeepAlive \in [Requests -> BOOLEAN]
        /\ req \in [Requests -> ReqType]
        /\ crashed \in BOOLEAN
        /\ Assigned(origin, req, conn)

\* Changes of one request (or of none, when x is None) that keep its socket.
SameSockets(f, g) ==
    g \in [Requests -> ReqType] /\ \A r \in Requests : g[r].socket = f[r].socket

LEMMA UpdateReq ==
  ASSUME NEW f \in [Requests -> ReqType], NEW x, NEW q,
         x \in Requests => q \in ReqType /\ q.socket = f[x].socket
  PROVE  SameSockets(f, [f EXCEPT ![x] = q])
BY DEF SameSockets

LEMMA ErrsType ==
  ASSUME NEW q \in ReqType, NEW n \in {0, 1}
  PROVE  Errs(q, n) \in ReqType /\ Errs(q, n).socket = q.socket
<1> DEFINE m == IF q.errors + n > 2 THEN 2 ELSE q.errors + n
<1>1. m \in 0..2
  BY DEF ReqType
<1>2. Errs(q, n) = [q EXCEPT !.errors = m]
  BY DEF Errs
<1> HIDE DEF m
<1> QED
  BY <1>1, <1>2 DEF ReqType

LEMMA ClosesType ==
  ASSUME NEW q \in ReqType
  PROVE  Closes(q) \in ReqType /\ Closes(q).socket = q.socket
BY DEF Closes, ReqType

LEMMA HangUpType ==
  ASSUME NEW q \in ReqType, NEW b \in BOOLEAN
  PROVE  HangUp(q, b) \in ReqType /\ HangUp(q, b).socket = q.socket
<1>1. CASE q.res # "none"
  <2> DEFINE x == IF q.res \in Parsed THEN q.res ELSE "aborted"
  <2>1. x \in ResStates
    BY DEF ResStates, ReqType
  <2>2. HangUp(q, b) = [Closes(q) EXCEPT !.destroyed = TRUE, !.res = x]
    BY <1>1 DEF HangUp, Closes, ReqType
  <2> HIDE DEF x
  <2> QED
    BY <2>1, <2>2, ClosesType DEF ReqType
<1>2. CASE q.res = "none"
  <2> DEFINE e == Errs(q, IF b THEN 0 ELSE 1)
  <2>1. (IF b THEN 0 ELSE 1) \in {0, 1}
    OBVIOUS
  <2>2. e \in ReqType /\ e.socket = q.socket
    BY <2>1, ErrsType
  <2>3. HangUp(q, b) = [Closes(e) EXCEPT !.destroyed = TRUE]
    BY <1>2 DEF HangUp
  <2> HIDE DEF e
  <2>4. Closes(e) \in ReqType /\ Closes(e).socket = q.socket
    BY <2>2, ClosesType
  <2> QED
    BY <2>3, <2>4 DEF ReqType
<1> QED
  BY <1>1, <1>2

\* The callback that ran leaves the queue.
LEMMA PoppedOK ==
  ASSUME WorldOK(World, origin), ticks # <<>>
  PROVE  WorldOK(Popped, origin) /\ KeepsTargets(World, Popped) /\ Popped.conn = conn
<1>1. World \in WorldType /\ ticks \in Seq(TickType) /\ Tail(ticks) \in Seq(TickType)
  BY DEF WorldOK, WorldType, World
<1>a. Popped = [World EXCEPT !.ticks = Tail(ticks)]
  BY DEF Popped, World
<1>2. /\ Popped.pool = World.pool /\ Popped.conn = World.conn
      /\ Popped.ticks = Tail(ticks) /\ Popped \in WorldType /\ World.ticks = ticks
      /\ World.conn = conn
  BY <1>1, <1>a DEF World, WorldType
<1>3. \A i \in 1..Len(Tail(ticks)) :
         i + 1 \in 1..Len(ticks) /\ Tail(ticks)[i] = ticks[i + 1]
  BY <1>1
<1>4. TicksByName(Popped, origin)
  <2> SUFFICES ASSUME NEW i \in 1..Len(Popped.ticks), Popped.ticks[i].fn = "onSocket"
               PROVE  /\ Popped.ticks[i].req \in Requests
                      /\ Popped.ticks[i].sock \in Sockets
                      /\ origin[Popped.ticks[i].req] \in Origins
                      /\ Popped.conn[Popped.ticks[i].sock].target \in Origins
                      /\ GetName(origin[Popped.ticks[i].req])
                            = GetName(Popped.conn[Popped.ticks[i].sock].target)
    BY DEF TicksByName
  <2>1. i + 1 \in 1..Len(World.ticks) /\ Popped.ticks[i] = World.ticks[i + 1]
    BY <1>2, <1>3
  <2> QED
    BY <2>1, <1>2 DEF WorldOK, TicksByName
<1> QED
  BY <1>2, <1>4 DEF WorldOK, KeysMatch, QueuedByName, Targeted, KeepsTargets

\* A step that leaves the world in order, keeps the targets of the sockets in
\* use and the sockets of the requests, preserves the invariant.
LEMMA StepOK ==
  ASSUME IInv, NEW w, WorldOK(w, origin'), KeepsTargets(World, w), Become(w),
         origin' \in OriginMap,
         \A r \in Requests : origin[r] \in Origins => origin'[r] = origin[r],
         shouldKeepAlive' \in [Requests -> BOOLEAN],
         SameSockets(req, req'), crashed' \in BOOLEAN
  PROVE  IInv'
<1>1. World' = w
  BY DEF Become, World, WorldOK, WorldType
<1>2. conn' = w.conn /\ World.conn = conn
  BY DEF Become, World
<1>3. /\ req \in [Requests -> ReqType] /\ req' \in [Requests -> ReqType]
      /\ \A r \in Requests : req'[r].socket = req[r].socket
  BY DEF IInv, SameSockets
<1>4. Assigned(origin', req', w.conn)
  <2> SUFFICES ASSUME NEW r \in Requests, req'[r].socket # None
               PROVE  /\ origin'[r] \in Origins
                      /\ w.conn[req'[r].socket].target \in Origins
                      /\ GetName(origin'[r]) = GetName(w.conn[req'[r].socket].target)
    BY DEF Assigned
  <2>1. /\ origin[r] \in Origins /\ conn[req[r].socket].target \in Origins
        /\ GetName(origin[r]) = GetName(conn[req[r].socket].target)
    BY <1>3 DEF IInv, Assigned
  <2>2. req'[r].socket \in Sockets /\ req'[r].socket = req[r].socket
    BY <1>3 DEF ReqType
  <2>3. w.conn[req[r].socket].target = conn[req[r].socket].target
    BY <2>1, <2>2, <1>2 DEF KeepsTargets
  <2>4. origin'[r] = origin[r]
    BY <2>1
  <2> QED
    BY <2>1, <2>2, <2>3, <2>4
<1>5. WorldOK(World', origin') /\ Assigned(origin', req', conn')
  BY <1>1, <1>2, <1>4
<1> QED
  BY <1>3, <1>5 DEF IInv

-----------------------------------------------------------------------------
(* Each action preserves it. *)

\* The worlds the actions start from.
LEMMA StartOK ==
  ASSUME IInv
  PROVE  /\ WorldOK(World, origin) /\ KeepsTargets(World, World) /\ World.conn = conn
         /\ ticks # <<>> => /\ WorldOK(Popped, origin) /\ KeepsTargets(World, Popped)
                            /\ Popped.conn = conn
         /\ origin \in OriginMap /\ shouldKeepAlive \in [Requests -> BOOLEAN]
         /\ req \in [Requests -> ReqType] /\ SameSockets(req, req) /\ crashed \in BOOLEAN
<1>1. World.conn = conn
  BY DEF World
<1> QED
  BY <1>1, PoppedOK DEF IInv, KeepsTargets, SameSockets

\* The steps that leave origin alone.
LEMMA PlainStep ==
  ASSUME IInv, NEW w, WorldOK(w, origin), KeepsTargets(World, w), Become(w),
         UNCHANGED origin, shouldKeepAlive' \in [Requests -> BOOLEAN],
         SameSockets(req, req'), crashed' \in BOOLEAN
  PROVE  IInv'
BY StepOK, StartOK

\* Listeners are taken off a socket.
LEMMA UnlistenOK ==
  ASSUME NEW w, NEW og, WorldOK(w, og), NEW s \in Sockets, NEW g,
         w.conn[s].target \in Origins
  PROVE  WorldOK(Unlisten(w, s, g), og) /\ KeepsTargets(w, Unlisten(w, s, g))
<1> DEFINE c == [w.conn[s] EXCEPT !.listeners = @ \ g]
<1>1. w.conn[s].state # "unused" /\ w.conn[s] \in ConnType
  BY InUse
<1>2. c \in ConnType /\ c.target = w.conn[s].target /\ c.state # "unused"
  BY <1>1 DEF ConnType
<1>3. w \in WorldType
  BY DEF WorldOK
<1>4. Unlisten(w, s, g) = [w EXCEPT !.conn[s] = c]
  BY <1>3 DEF Unlisten, WorldType
<1> HIDE DEF c
<1> QED
  BY <1>1, <1>2, <1>4, UpdateSocket

\* The socket of a request is in use.
LEMMA SocketOfRequest ==
  ASSUME IInv, NEW r \in Requests
  PROVE  /\ req[r] \in ReqType
         /\ req[r].socket = None \/ (/\ req[r].socket \in Sockets
                                     /\ conn[req[r].socket].target \in Origins)
BY DEF IInv, Assigned, ReqType

LEMMA RequestOK ==
  ASSUME IInv, NEW r \in Requests, NEW o \in Origins, NEW e \in EndsAtOnce, Request(r, o, e)
  PROVE  IInv'
<1>1. /\ WorldOK(World, origin) /\ origin \in OriginMap /\ origin[r] = None
      /\ shouldKeepAlive \in [Requests -> BOOLEAN] /\ req \in [Requests -> ReqType]
  BY StartOK DEF Request, Made
<1>2. /\ origin' = [origin EXCEPT ![r] = o] /\ origin' \in OriginMap /\ origin'[r] = o
      /\ \A x \in Requests : origin[x] \in Origins => origin'[x] = origin[x]
  BY <1>1, AgentAssumption DEF Request, OriginMap
<1>3. WorldOK(World, origin')
  <2>1. QueuedByName(World, origin')
    <3> SUFFICES ASSUME NEW n \in Origins, NEW i \in 1..Len(World.pool.requests[n])
                 PROVE  /\ origin'[World.pool.requests[n][i]] \in Origins
                        /\ GetName(origin'[World.pool.requests[n][i]]) = n
      BY DEF QueuedByName
    <3>1. World.pool.requests[n][i] \in Requests
      BY <1>1 DEF WorldOK, WorldType, PoolType
    <3>2. /\ origin[World.pool.requests[n][i]] \in Origins
          /\ GetName(origin[World.pool.requests[n][i]]) = n
      BY <1>1 DEF WorldOK, QueuedByName
    <3> QED
      BY <3>1, <3>2, <1>2
  <2>2. TicksByName(World, origin')
    BY <1>1, <1>2 DEF WorldOK, TicksByName
  <2> QED
    BY <1>1, <2>1, <2>2 DEF WorldOK
<1>4. /\ WorldOK(AddRequest(World, r, o), origin')
      /\ KeepsTargets(World, AddRequest(World, r, o))
  BY <1>2, <1>3, AddRequestOK DEF Request
<1>5. SameSockets(req, req')
  <2>1. e \in BOOLEAN
    BY ClientAssumption
  <2>2. [req[r] EXCEPT !.finished = e] \in ReqType
    BY <2>1, <1>1 DEF ReqType
  <2>3. req' = [req EXCEPT ![r] = [req[r] EXCEPT !.finished = e]]
    BY <1>1 DEF Request
  <2> QED
    BY <2>2, <2>3, <1>1 DEF SameSockets, ReqType
<1>6. shouldKeepAlive' \in [Requests -> BOOLEAN]
  BY <1>1, AgentAssumption DEF Request
<1>7. Become(AddRequest(World, r, o)) /\ crashed' \in BOOLEAN
  BY StartOK DEF Request
<1> QED
  BY <1>2, <1>4, <1>5, <1>6, <1>7, StepOK

LEMMA EndOK ==
  ASSUME IInv, NEW r \in Requests, End(r)
  PROVE  IInv'
<1> DEFINE q == [req[r] EXCEPT !.finished = TRUE]
<1>1. req[r] \in ReqType /\ req' = [req EXCEPT ![r] = q]
  BY SocketOfRequest, StartOK DEF End
<1>2. q \in ReqType /\ q.socket = req[r].socket
  BY <1>1 DEF ReqType
<1> HIDE DEF q
<1>3. SameSockets(req, req')
  BY <1>1, <1>2, StartOK, UpdateReq
<1>4. Become(World) /\ UNCHANGED <<origin, shouldKeepAlive, crashed>>
  BY DEF End, Become, World, agentVars
<1> QED
  BY <1>3, <1>4, StartOK, PlainStep

LEMMA DestroyOK ==
  ASSUME IInv, NEW r \in Requests, NEW err \in BOOLEAN, Destroy(r, err)
  PROVE  IInv'
<1> DEFINE s == req[r].socket
           q == [req[r] EXCEPT !.destroyed = TRUE, !.why = IF err THEN "error" ELSE @]
           w == IF s = None THEN World
                ELSE IF err THEN DestroySocketWithError(World, s)
                ELSE DestroySocket(World, s)
<1>1. req[r] \in ReqType /\ (s = None \/ s \in Sockets)
  BY SocketOfRequest
<1>2. req' = [req EXCEPT ![r] = q]
  BY StartOK DEF Destroy
<1>3. q \in ReqType /\ q.socket = req[r].socket
  BY <1>1 DEF ReqType
<1>4. Become(w) /\ UNCHANGED <<origin, shouldKeepAlive, crashed>>
  BY DEF Destroy
<1> HIDE DEF q, s
<1>5. SameSockets(req, req')
  BY <1>2, <1>3, StartOK, UpdateReq
<1>6. WorldOK(w, origin) /\ KeepsTargets(World, w)
  BY <1>1, StartOK, DestroySocketOK, DestroySocketWithErrorOK
<1> HIDE DEF w
<1> QED
  BY <1>4, <1>5, <1>6, StartOK, PlainStep

LEMMA AbortOK ==
  ASSUME IInv, NEW r \in Requests, Abort(r)
  PROVE  IInv'
<1> DEFINE s == req[r].socket
           q == [req[r] EXCEPT !.destroyed = TRUE, !.why = "aborted"]
           w == IF s = None THEN World ELSE DestroySocket(World, s)
<1>1. req[r] \in ReqType /\ (s = None \/ s \in Sockets)
  BY SocketOfRequest
<1>2. req' = [req EXCEPT ![r] = q]
  BY StartOK DEF Abort
<1>3. q \in ReqType /\ q.socket = req[r].socket
  BY <1>1 DEF ReqType
<1>4. Become(w) /\ UNCHANGED <<origin, shouldKeepAlive, crashed>>
  BY DEF Abort
<1> HIDE DEF q, s
<1>5. SameSockets(req, req')
  BY <1>2, <1>3, StartOK, UpdateReq
<1>6. WorldOK(w, origin) /\ KeepsTargets(World, w)
  BY <1>1, StartOK, DestroySocketOK
<1> HIDE DEF w
<1> QED
  BY <1>4, <1>5, <1>6, StartOK, PlainStep

LEMMA AgentDestroyOK ==
  ASSUME IInv, AgentDestroy
  PROVE  IInv'
<1> DEFINE live == {s \in UNION {pool.sockets[n] \cup pool.freeSockets[n] : n \in Origins} :
                      Live(World, s)}
           w == [pool |-> pool, conn |-> conn', ticks |-> ticks']
<1>1. /\ pool \in PoolType /\ conn \in [Sockets -> ConnType] /\ ticks \in Seq(TickType)
      /\ pool.sockets \in [Origins -> SUBSET Sockets]
      /\ pool.freeSockets \in [Origins -> SUBSET Sockets]
  BY StartOK DEF WorldOK, WorldType, World, PoolType
<1>2. live \in SUBSET Sockets /\ \A s \in live : conn[s].state # "unused"
  BY <1>1 DEF Live, World
<1>3. /\ conn' = [s \in Sockets |-> IF s \in live THEN [conn[s] EXCEPT !.state = "destroyed"]
                                    ELSE conn[s]]
      /\ \E q \in SetToSeqs(live) :
            ticks' = IF CloseByTick
                     THEN ticks \o [i \in 1..Len(q) |-> Tick("close", None, q[i])]
                     ELSE ticks
      /\ UNCHANGED <<pool, origin, shouldKeepAlive, req, crashed>>
  BY DEF AgentDestroy
<1> HIDE DEF live
<1>4. Cardinality(live) \in Nat
  <2>1. IsFiniteSet(live)
    BY <1>2, AgentAssumption, FS_Subset
  <2> QED
    BY <2>1, FS_CardinalityType
<1>5. PICK q \in SetToSeqs(live) :
            ticks' = IF CloseByTick
                     THEN ticks \o [i \in 1..Len(q) |-> Tick("close", None, q[i])]
                     ELSE ticks
  BY <1>3
<1> DEFINE z == [i \in 1..Len(q) |-> Tick("close", None, q[i])]
<1>6. Len(q) \in Nat /\ \A i \in 1..Len(q) : q[i] \in Sockets
  <2> DEFINE c == Cardinality(live)
  <2>1. c \in Nat /\ q \in [1..c -> live]
    BY <1>4 DEF SetToSeqs
  <2> HIDE DEF c
  <2> QED
    BY <2>1, <1>2
<1>7. z \in Seq(TickType) /\ \A i \in 1..Len(z) : z[i].fn = "close"
  <2>1. \A i \in 1..Len(q) : Tick("close", None, q[i]) \in TickType
    BY <1>6 DEF Tick, TickType
  <2>2. z \in Seq(TickType) /\ Len(z) = Len(q)
    BY <1>6, <2>1
  <2> QED
    BY <2>2 DEF Tick
<1> HIDE DEF z
<1>8. /\ ticks' \in Seq(TickType)
      /\ \A i \in 1..Len(ticks') :
            (i \in 1..Len(ticks) /\ ticks'[i] = ticks[i]) \/ ticks'[i].fn = "close"
  <2>1. CASE CloseByTick
    <3>1. ticks' = ticks \o z
      BY <2>1, <1>5 DEF z
    <3>2. Len(ticks') = Len(ticks) + Len(z) /\ ticks' \in Seq(TickType)
      BY <3>1, <1>1, <1>7
    <3>3. ASSUME NEW i \in 1..Len(ticks')
          PROVE  \/ i \in 1..Len(ticks) /\ ticks'[i] = ticks[i]
                 \/ i - Len(ticks) \in 1..Len(z) /\ ticks'[i] = z[i - Len(ticks)]
      BY <3>1, <3>2, <1>1, <1>7
    <3> QED
      BY <3>2, <3>3, <1>7
  <2>2. CASE ~CloseByTick
    BY <2>2, <1>5, <1>1
  <2> QED
    BY <2>1, <2>2
<1>9. /\ conn' \in [Sockets -> ConnType]
      /\ \A s \in Sockets : /\ conn'[s].target = conn[s].target
                            /\ conn'[s].listeners = conn[s].listeners
                            /\ conn'[s].state = "unused" <=> conn[s].state = "unused"
  <2>1. ASSUME NEW s \in Sockets
        PROVE  /\ conn'[s] \in ConnType
               /\ conn'[s].target = conn[s].target
               /\ conn'[s].listeners = conn[s].listeners
               /\ conn'[s].state = "unused" <=> conn[s].state = "unused"
    <3>1. CASE s \in live
      <4>1. conn'[s] = [conn[s] EXCEPT !.state = "destroyed"] /\ conn[s].state # "unused"
        BY <3>1, <1>2, <1>3
      <4>2. conn[s] \in ConnType
        BY <1>1
      <4> QED
        BY <4>1, <4>2 DEF ConnType
    <3>2. CASE s \notin live
      <4>1. conn'[s] = conn[s]
        BY <3>2, <1>3
      <4> QED
        BY <4>1, <1>1
    <3> QED
      BY <3>1, <3>2
  <2> QED
    BY <2>1, <1>3
<1>10. /\ w \in WorldType /\ w.pool = World.pool /\ w.conn = conn' /\ w.ticks = ticks'
       /\ World.conn = conn /\ World.ticks = ticks
  BY <1>1, <1>8, <1>9 DEF WorldType, World
<1>11. Become(w)
  BY <1>3 DEF Become
<1> HIDE DEF w
<1>12. /\ KeysMatch(World) /\ QueuedByName(World, origin)
       /\ Targeted(World) /\ TicksByName(World, origin)
  BY StartOK DEF WorldOK
<1>13. TicksByName(w, origin)
  <2> SUFFICES ASSUME NEW i \in 1..Len(ticks'), ticks'[i].fn = "onSocket"
               PROVE  /\ ticks'[i].req \in Requests
                      /\ ticks'[i].sock \in Sockets
                      /\ origin[ticks'[i].req] \in Origins
                      /\ conn'[ticks'[i].sock].target \in Origins
                      /\ GetName(origin[ticks'[i].req]) = GetName(conn'[ticks'[i].sock].target)
    BY <1>10 DEF TicksByName
  <2>1. i \in 1..Len(ticks) /\ ticks'[i] = ticks[i]
    BY <1>8
  <2>2. /\ ticks[i].req \in Requests
        /\ ticks[i].sock \in Sockets
        /\ origin[ticks[i].req] \in Origins
        /\ conn[ticks[i].sock].target \in Origins
        /\ GetName(origin[ticks[i].req]) = GetName(conn[ticks[i].sock].target)
    BY <2>1, <1>10, <1>12 DEF TicksByName
  <2>3. conn'[ticks[i].sock].target = conn[ticks[i].sock].target
    BY <2>2, <1>9
  <2> QED
    BY <2>1, <2>2, <2>3
<1>14. Targeted(w) /\ KeepsTargets(World, w)
  <2>1. ASSUME NEW s \in Sockets
        PROVE  /\ conn'[s].state = "unused" => conn'[s].target = None
               /\ conn'[s].state # "unused" => conn'[s].target \in Origins
               /\ conn'[s].listeners # {} => conn'[s].state # "unused"
    <3>1. /\ conn[s].state = "unused" => conn[s].target = None
          /\ conn[s].state # "unused" => conn[s].target \in Origins
          /\ conn[s].listeners # {} => conn[s].state # "unused"
      BY <1>10, <1>12 DEF Targeted
    <3>2. /\ conn'[s].target = conn[s].target
          /\ conn'[s].listeners = conn[s].listeners
          /\ conn'[s].state = "unused" <=> conn[s].state = "unused"
      BY <1>9
    <3> QED
      BY <3>1, <3>2
  <2>2. Targeted(w)
    BY <2>1, <1>10 DEF Targeted
  <2>3. KeepsTargets(World, w)
    BY <1>9, <1>10 DEF KeepsTargets
  <2> QED
    BY <2>2, <2>3
<1>15. KeysMatch(w) /\ QueuedByName(w, origin)
  BY <1>10, <1>12 DEF KeysMatch, QueuedByName
<1>16. WorldOK(w, origin)
  BY <1>10, <1>13, <1>14, <1>15 DEF WorldOK
<1> QED
  BY <1>3, <1>11, <1>14, <1>16, StartOK, PlainStep

LEMMA ReadResponseOK ==
  ASSUME IInv, NEW r \in Requests, ReadResponse(r)
  PROVE  IInv'
<1> DEFINE q == [req[r] EXCEPT !.res = "read"]
           t == Tick("end", r, None)
           w == [World EXCEPT !.ticks = Append(@, t)]
<1>1. req[r] \in ReqType /\ req' = [req EXCEPT ![r] = q]
  BY SocketOfRequest, StartOK DEF ReadResponse
<1>2. q \in ReqType /\ q.socket = req[r].socket
  BY <1>1 DEF ReqType, ResStates
<1>3. t \in TickType /\ t.fn # "onSocket"
  BY DEF Tick, TickType
<1>4. Become(w) /\ UNCHANGED <<origin, shouldKeepAlive, crashed>>
  BY DEF ReadResponse, Become, World
<1> HIDE DEF q, t
<1>5. SameSockets(req, req')
  BY <1>1, <1>2, StartOK, UpdateReq
<1>6. WorldOK(w, origin) /\ KeepsTargets(World, w)
  BY <1>3, StartOK, QueueTick
<1> HIDE DEF w
<1> QED
  BY <1>4, <1>5, <1>6, StartOK, PlainStep

LEMMA RunOnSocketOK ==
  ASSUME IInv, NEW r \in Requests, NEW s \in Sockets, RunOnSocket(r, s)
  PROVE  IInv'
<1> DEFINE c == [conn[s] EXCEPT !.message = r, !.listeners = @ \cup {"request", "reader"}]
           w == [Popped EXCEPT !.conn[s] = c]
           q == [req[r] EXCEPT !.socket = s]
<1>1. ticks # <<>> /\ Head(ticks) = Tick("onSocket", r, s)
  BY DEF RunOnSocket, Runs
<1>2. WorldOK(Popped, origin) /\ KeepsTargets(World, Popped) /\ Popped.conn = conn
  BY <1>1, StartOK
<1>3. /\ origin[r] \in Origins /\ conn[s].target \in Origins
      /\ GetName(origin[r]) = GetName(conn[s].target)
  <2>1. ticks \in Seq(TickType) /\ World.ticks = ticks /\ World.conn = conn
    BY StartOK DEF WorldOK, WorldType, World
  <2>2. 1 \in 1..Len(World.ticks) /\ World.ticks[1] = Tick("onSocket", r, s)
    BY <1>1, <2>1
  <2>3. TicksByName(World, origin)
    BY StartOK DEF WorldOK
  <2> QED
    BY <2>1, <2>2, <2>3 DEF TicksByName, Tick
<1>4. conn[s].state # "unused" /\ conn[s] \in ConnType
  BY <1>2, <1>3, InUse
<1>5. c \in ConnType /\ c.target = conn[s].target /\ c.state # "unused"
  BY <1>4 DEF ConnType
<1>6. Popped \in WorldType
  BY <1>2 DEF WorldOK
<1>7. Become(w) /\ UNCHANGED <<origin, shouldKeepAlive, crashed>>
  BY <1>2, <1>6 DEF RunOnSocket, WorldType
<1>8. req' = [req EXCEPT ![r] = q]
  BY StartOK DEF RunOnSocket
<1> HIDE DEF c
<1>9. WorldOK(w, origin) /\ KeepsTargets(Popped, w)
  BY <1>2, <1>4, <1>5, UpdateSocket
<1>10. World' = w
  BY <1>7, <1>9 DEF Become, World, WorldOK, WorldType
<1>11. conn' = w.conn
  BY <1>7 DEF Become
<1> HIDE DEF w
<1>12. KeepsTargets(World, w)
  BY <1>2, <1>9 DEF KeepsTargets
<1>13. req' \in [Requests -> ReqType]
  <2>1. q \in ReqType
    BY SocketOfRequest DEF ReqType
  <2> HIDE DEF q
  <2> QED
    BY <2>1, <1>8, StartOK
<1>14. Assigned(origin, req', conn')
  <2> SUFFICES ASSUME NEW x \in Requests, req'[x].socket # None
               PROVE  /\ origin[x] \in Origins
                      /\ conn'[req'[x].socket].target \in Origins
                      /\ GetName(origin[x]) = GetName(conn'[req'[x].socket].target)
    BY DEF Assigned
  <2>1. /\ \A y \in Sockets : conn[y].target \in Origins => conn'[y].target = conn[y].target
    BY <1>11, <1>12, StartOK DEF KeepsTargets
  <2>2. CASE x = r
    <3>1. req'[x].socket = s
      BY <2>2, <1>8, StartOK DEF ReqType
    <3> QED
      BY <3>1, <2>1, <2>2, <1>3
  <2>3. CASE x # r
    <3>1. req'[x].socket = req[x].socket
      BY <2>3, <1>8, StartOK
    <3>2. req[x].socket \in Sockets
      BY <3>1, StartOK DEF ReqType
    <3>3. /\ origin[x] \in Origins /\ conn[req[x].socket].target \in Origins
          /\ GetName(origin[x]) = GetName(conn[req[x].socket].target)
      BY <3>1 DEF IInv, Assigned
    <3> QED
      BY <3>1, <3>2, <3>3, <2>1
  <2> QED
    BY <2>2, <2>3
<1> QED
  BY <1>7, <1>9, <1>10, <1>13, <1>14, StartOK DEF IInv

LEMMA RunOnSocketDestroyedOK ==
  ASSUME IInv, NEW r \in Requests, NEW s \in Sockets, RunOnSocketDestroyed(r, s)
  PROVE  IInv'
<1>1. /\ WorldOK(Popped, origin) /\ KeepsTargets(World, Popped)
      /\ UNCHANGED <<origin, shouldKeepAlive, crashed>>
  BY StartOK DEF RunOnSocketDestroyed, Runs
<1>2. CASE Become(FreeSocket(Popped, s))
           /\ req' = [req EXCEPT ![r] = Closes(Errs(@, IF req[r].why = "aborted" THEN 0 ELSE 1))]
  <2> DEFINE n == IF req[r].why = "aborted" THEN 0 ELSE 1
  <2>1. n \in {0, 1} /\ req' = [req EXCEPT ![r] = Closes(Errs(req[r], n))]
    BY <1>2, StartOK
  <2> HIDE DEF n
  <2>2. Errs(req[r], n) \in ReqType /\ Errs(req[r], n).socket = req[r].socket
    BY <2>1, SocketOfRequest, ErrsType
  <2>3. /\ Closes(Errs(req[r], n)) \in ReqType
        /\ Closes(Errs(req[r], n)).socket = req[r].socket
    BY <2>2, ClosesType
  <2>4. SameSockets(req, req')
    BY <2>1, <2>3, StartOK, UpdateReq
  <2>5. WorldOK(FreeSocket(Popped, s), origin) /\ KeepsTargets(Popped, FreeSocket(Popped, s))
    BY <1>1, FreeSocketOK
  <2>6. KeepsTargets(World, FreeSocket(Popped, s))
    BY <1>1, <2>5 DEF KeepsTargets
  <2> QED
    BY <1>1, <1>2, <2>4, <2>5, <2>6, StartOK, PlainStep
<1>3. CASE /\ Become([Popped EXCEPT !.ticks = Append(@, Tick("hangUp", r, None))])
           /\ UNCHANGED req
  <2> DEFINE t == Tick("hangUp", r, None)
             w == [Popped EXCEPT !.ticks = Append(@, t)]
  <2>1. t \in TickType /\ t.fn # "onSocket"
    BY DEF Tick, TickType
  <2>2. Become(w)
    BY <1>3
  <2> HIDE DEF t
  <2>3. WorldOK(w, origin) /\ KeepsTargets(Popped, w)
    BY <1>1, <2>1, QueueTick
  <2> HIDE DEF w
  <2>4. KeepsTargets(World, w)
    BY <1>1, <2>3 DEF KeepsTargets
  <2>5. SameSockets(req, req')
    BY <1>3, StartOK
  <2> QED
    BY <1>1, <2>2, <2>3, <2>4, <2>5, StartOK, PlainStep
<1> QED
  BY <1>2, <1>3 DEF RunOnSocketDestroyed

LEMMA RunHangUpOK ==
  ASSUME IInv, NEW r \in Requests, RunHangUp(r)
  PROVE  IInv'
<1>1. /\ WorldOK(Popped, origin) /\ KeepsTargets(World, Popped) /\ Become(Popped)
      /\ UNCHANGED <<origin, shouldKeepAlive, crashed>>
  BY StartOK DEF RunHangUp, Runs
<1>2. PICK e \in {0, 1} : req' = [req EXCEPT ![r] = Closes(Errs(@, e))]
  BY DEF RunHangUp
<1>3. req' = [req EXCEPT ![r] = Closes(Errs(req[r], e))]
  BY <1>2, StartOK
<1>4. Errs(req[r], e) \in ReqType /\ Errs(req[r], e).socket = req[r].socket
  BY SocketOfRequest, ErrsType
<1>5. /\ Closes(Errs(req[r], e)) \in ReqType
      /\ Closes(Errs(req[r], e)).socket = req[r].socket
  BY <1>4, ClosesType
<1>6. SameSockets(req, req')
  BY <1>3, <1>5, StartOK, UpdateReq
<1> QED
  BY <1>1, <1>6, StartOK, PlainStep

LEMMA RunEmitFreeOK ==
  ASSUME IInv, NEW r \in Requests, NEW s \in Sockets, RunEmitFree(r, s)
  PROVE  IInv'
<1>1. /\ WorldOK(Popped, origin) /\ KeepsTargets(World, Popped)
      /\ Become(FreeSocket(Popped, s))
      /\ UNCHANGED <<origin, shouldKeepAlive, crashed>>
  BY StartOK DEF RunEmitFree, Runs
<1>2. req' = [req EXCEPT ![r] = Closes(req[r])]
  BY StartOK DEF RunEmitFree
<1>3. Closes(req[r]) \in ReqType /\ Closes(req[r]).socket = req[r].socket
  BY SocketOfRequest, ClosesType
<1>4. SameSockets(req, req')
  BY <1>2, <1>3, StartOK, UpdateReq
<1>5. WorldOK(FreeSocket(Popped, s), origin) /\ KeepsTargets(Popped, FreeSocket(Popped, s))
  BY <1>1, FreeSocketOK
<1>6. KeepsTargets(World, FreeSocket(Popped, s))
  BY <1>1, <1>5 DEF KeepsTargets
<1> QED
  BY <1>1, <1>4, <1>5, <1>6, StartOK, PlainStep

\* A socket in use gets another state; no socket, no change.
SetState(w, s, st) == [w EXCEPT !.conn[s].state = st]

LEMMA SetStateOK ==
  ASSUME NEW w, NEW og, WorldOK(w, og), NEW s \in Sockets \cup {None},
         s # None => w.conn[s].target \in Origins,
         NEW st \in {"open", "ended", "destroyed", "closed"}
  PROVE  WorldOK(SetState(w, s, st), og) /\ KeepsTargets(w, SetState(w, s, st))
<1>1. w \in WorldType
  BY DEF WorldOK
<1>2. CASE s = None
  <2>1. SetState(w, s, st) = w
    BY <1>1, <1>2, AgentAssumption DEF SetState, WorldType
  <2> QED
    BY <2>1 DEF KeepsTargets
<1>3. CASE s # None
  <2> DEFINE c == [w.conn[s] EXCEPT !.state = st]
  <2>1. w.conn[s].state # "unused" /\ w.conn[s] \in ConnType
    BY <1>3, InUse
  <2>2. c \in ConnType /\ c.target = w.conn[s].target /\ c.state # "unused"
    BY <2>1 DEF ConnType
  <2>3. SetState(w, s, st) = [w EXCEPT !.conn[s] = c]
    BY <1>1, <1>3 DEF SetState, WorldType
  <2> HIDE DEF c
  <2> QED
    BY <1>3, <2>1, <2>2, <2>3, UpdateSocket
<1> QED
  BY <1>2, <1>3

\* A socket in use notes an error, or not.
SetError(w, s, b) == [w EXCEPT !.conn[s].hadError = b]

LEMMA SetErrorOK ==
  ASSUME NEW w, NEW og, WorldOK(w, og), NEW s \in Sockets,
         w.conn[s].target \in Origins, NEW b \in BOOLEAN
  PROVE  WorldOK(SetError(w, s, b), og) /\ KeepsTargets(w, SetError(w, s, b))
<1> DEFINE c == [w.conn[s] EXCEPT !.hadError = b]
<1>1. w.conn[s].state # "unused" /\ w.conn[s] \in ConnType
  BY InUse
<1>2. c \in ConnType /\ c.target = w.conn[s].target /\ c.state # "unused"
  BY <1>1 DEF ConnType
<1>3. SetError(w, s, b) = [w EXCEPT !.conn[s] = c]
  BY DEF SetError, WorldOK, WorldType
<1> HIDE DEF c
<1> QED
  BY <1>1, <1>2, <1>3, UpdateSocket

LEMMA UnlistenNone ==
  ASSUME NEW w, w \in WorldType, NEW g
  PROVE  Unlisten(w, None, g) = w
BY AgentAssumption DEF Unlisten, WorldType

LEMMA RunEndOK ==
  ASSUME IInv, NEW r \in Requests, RunEnd(r)
  PROVE  IInv'
<1> DEFINE s == req[r].socket
<1>1. /\ WorldOK(Popped, origin) /\ KeepsTargets(World, Popped) /\ Popped.conn = conn
      /\ UNCHANGED <<origin, shouldKeepAlive, crashed>>
  BY StartOK DEF RunEnd, Runs
<1>2. /\ req[r] \in ReqType /\ s \in Sockets \cup {None}
      /\ s # None => Popped.conn[s].target \in Origins
  BY <1>1, SocketOfRequest
<1> SUFFICES ASSUME NEW w, WorldOK(w, origin), KeepsTargets(Popped, w), Become(w),
                    SameSockets(req, req')
             PROVE  IInv'
  <2>1. ASSUME req' = [req EXCEPT ![r].res = "ended"]
        PROVE  SameSockets(req, req')
    <3> DEFINE q == [req[r] EXCEPT !.res = "ended"]
    <3>1. q \in ReqType /\ q.socket = req[r].socket
      BY <1>2 DEF ReqType, ResStates
    <3>2. req' = [req EXCEPT ![r] = q]
      BY <2>1, StartOK
    <3> HIDE DEF q
    <3> QED
      BY <3>1, <3>2, StartOK, UpdateReq
  <2>2. ASSUME req' = [req EXCEPT ![r].res = "ended", ![r].destroyed = TRUE]
        PROVE  SameSockets(req, req')
    <3> DEFINE q == [req[r] EXCEPT !.res = "ended", !.destroyed = TRUE]
    <3>1. q \in ReqType /\ q.socket = req[r].socket
      BY <1>2 DEF ReqType, ResStates
    <3>2. req' = [req EXCEPT ![r] = q]
      BY <2>2, StartOK
    <3> HIDE DEF q
    <3> QED
      BY <3>1, <3>2, StartOK, UpdateReq
  <2>3. KeepsTargets(Popped, Popped)
    BY DEF KeepsTargets
  <2>4. CASE /\ req' = [req EXCEPT ![r].res = "ended"]
             /\ Become(IF Writable(World, s) THEN [Popped EXCEPT !.conn[s].state = "ended"]
                       ELSE Popped)
    <3>1. Become(SetState(Popped, s, "ended")) \/ Become(Popped)
      BY <2>4 DEF SetState
    <3>2. /\ WorldOK(SetState(Popped, s, "ended"), origin)
          /\ KeepsTargets(Popped, SetState(Popped, s, "ended"))
      BY <1>1, <1>2, SetStateOK
    <3> QED
      BY <1>1, <2>1, <2>3, <2>4, <3>1, <3>2
  <2>5. CASE /\ req' = [req EXCEPT ![r].res = "ended", ![r].destroyed = TRUE]
             /\ Become([Unlisten(Popped, s, {"request", "reader"}) EXCEPT
                           !.ticks = Append(@, Tick("emitFree", r, s))])
    <3> DEFINE v == Unlisten(Popped, s, {"request", "reader"})
               t == Tick("emitFree", r, s)
    <3>1. WorldOK(v, origin) /\ KeepsTargets(Popped, v)
      <4>1. CASE s = None
        <5>1. v = Popped
          BY <4>1, <1>1, UnlistenNone DEF WorldOK
        <5> QED
          BY <5>1, <1>1, <2>3
      <4>2. CASE s # None
        <5>1. s \in Sockets /\ Popped.conn[s].target \in Origins
          BY <4>2, <1>2
        <5> HIDE DEF s
        <5> QED
          BY <5>1, <1>1, UnlistenOK
      <4> QED
        BY <4>1, <4>2
    <3>2. t \in TickType /\ t.fn # "onSocket"
      BY <1>2 DEF Tick, TickType
    <3>3. Become([v EXCEPT !.ticks = Append(@, t)])
      BY <2>5
    <3> HIDE DEF v, t
    <3>4. /\ WorldOK([v EXCEPT !.ticks = Append(@, t)], origin)
          /\ KeepsTargets(v, [v EXCEPT !.ticks = Append(@, t)])
      BY <3>1, <3>2, QueueTick
    <3>5. KeepsTargets(Popped, [v EXCEPT !.ticks = Append(@, t)])
      BY <3>1, <3>4 DEF KeepsTargets
    <3> QED
      BY <2>2, <2>5, <3>3, <3>4, <3>5
  <2>6. CASE req' = [req EXCEPT ![r].res = "ended"] /\ Become(Popped)
    BY <1>1, <2>1, <2>3, <2>6
  <2> QED
    BY <2>4, <2>5, <2>6 DEF RunEnd
<1>3. KeepsTargets(World, w)
  BY <1>1 DEF KeepsTargets
<1> QED
  BY <1>1, <1>3, StartOK, PlainStep

LEMMA ClosedOK ==
  ASSUME IInv, NEW w, WorldOK(w, origin), KeepsTargets(World, w), w.conn = conn,
         NEW s \in Sockets, Closed(w, s)
  PROVE  IInv'
<1> DEFINE r == conn[s].message
           c == SetState(w, s, "closed")
           v == IF Has(s, "agent") THEN RemoveSocket(c, s) ELSE c
           b == v.conn[s].hadError \/ Has(s, "request")
<1>1. w.conn[s].target \in Origins
  BY InUse, AgentAssumption DEF Closed, WorldOK, Targeted
<1>2. WorldOK(c, origin) /\ KeepsTargets(w, c) /\ c.conn[s].target \in Origins
  <2>1. WorldOK(c, origin) /\ KeepsTargets(w, c)
    BY <1>1, SetStateOK, AgentAssumption
  <2> QED
    BY <1>1, <2>1 DEF KeepsTargets
<1>3. /\ Become([v EXCEPT !.conn[s].hadError = @ \/ Has(s, "request")])
      /\ UNCHANGED <<origin, shouldKeepAlive, crashed>>
      /\ req' = IF Has(s, "request") THEN [req EXCEPT ![r] = HangUp(@, conn[s].hadError)]
                ELSE req
  BY DEF Closed, SetState
<1> HIDE DEF c
<1>4. WorldOK(v, origin) /\ KeepsTargets(c, v)
  <2>1. WorldOK(RemoveSocket(c, s), origin) /\ KeepsTargets(c, RemoveSocket(c, s))
    BY <1>2, RemoveSocketOK
  <2>2. KeepsTargets(c, c)
    BY DEF KeepsTargets
  <2> QED
    BY <1>2, <2>1, <2>2
<1> HIDE DEF v
<1>5. v.conn[s].target \in Origins
  BY <1>2, <1>4 DEF KeepsTargets
<1>6. b \in BOOLEAN
  OBVIOUS
<1>7. Become(SetError(v, s, b))
  BY <1>3, <1>4 DEF SetError, WorldOK, WorldType
<1> HIDE DEF b
<1>8. WorldOK(SetError(v, s, b), origin) /\ KeepsTargets(v, SetError(v, s, b))
  BY <1>4, <1>5, <1>6, SetErrorOK
<1>9. KeepsTargets(World, SetError(v, s, b))
  BY <1>2, <1>4, <1>8 DEF KeepsTargets
<1>10. SameSockets(req, req')
  <2>1. CASE Has(s, "request")
    <3>1. conn[s].hadError \in BOOLEAN
      BY StartOK DEF WorldOK, WorldType, World, ConnType
    <3>2. r \in Requests => /\ HangUp(req[r], conn[s].hadError) \in ReqType
                            /\ HangUp(req[r], conn[s].hadError).socket = req[r].socket
      BY <3>1, StartOK, HangUpType
    <3>3. req' = [req EXCEPT ![r] = HangUp(req[r], conn[s].hadError)]
      BY <2>1, <1>3, StartOK
    <3> QED
      BY <3>2, <3>3, StartOK, UpdateReq
  <2>2. CASE ~Has(s, "request")
    BY <2>2, <1>3, StartOK
  <2> QED
    BY <2>1, <2>2
<1> QED
  BY <1>3, <1>7, <1>8, <1>9, <1>10, StartOK, PlainStep

LEMMA RunCloseOK ==
  ASSUME IInv, NEW s \in Sockets, RunClose(s)
  PROVE  IInv'
BY StartOK, ClosedOK DEF RunClose, Runs

LEMMA HandleClosedOK ==
  ASSUME IInv, NEW s \in Sockets, HandleClosed(s)
  PROVE  IInv'
BY StartOK, ClosedOK DEF HandleClosed

\* A request, if there is one, emits errors, or gets a response.
LEMMA ErrsStep ==
  ASSUME req \in [Requests -> ReqType], NEW x, NEW n \in {0, 1},
         req' = [req EXCEPT ![x] = Errs(@, n)]
  PROVE  SameSockets(req, req')
<1>1. req' = [req EXCEPT ![x] = Errs(req[x], n)]
  OBVIOUS
<1>2. x \in Requests => Errs(req[x], n) \in ReqType /\ Errs(req[x], n).socket = req[x].socket
  BY ErrsType
<1>3. SameSockets(req, [req EXCEPT ![x] = Errs(req[x], n)])
  BY <1>2, UpdateReq
<1> QED
  BY <1>1, <1>3

LEMMA ResStep ==
  ASSUME req \in [Requests -> ReqType], NEW x, NEW k \in ResStates,
         req' = [req EXCEPT ![x].res = k]
  PROVE  SameSockets(req, req')
<1> DEFINE q == [req[x] EXCEPT !.res = k]
<1>1. req' = [req EXCEPT ![x] = q]
  OBVIOUS
<1>2. x \in Requests => q \in ReqType /\ q.socket = req[x].socket
  BY DEF ReqType
<1> HIDE DEF q
<1>3. SameSockets(req, [req EXCEPT ![x] = q])
  BY <1>2, UpdateReq
<1> QED
  BY <1>1, <1>3

LEMMA RunErrorOK ==
  ASSUME IInv, NEW s \in Sockets, RunError(s)
  PROVE  IInv'
<1> DEFINE r == conn[s].message
<1>1. /\ WorldOK(Popped, origin) /\ KeepsTargets(World, Popped) /\ Popped.conn = conn
      /\ UNCHANGED <<origin, shouldKeepAlive>>
  BY StartOK DEF RunError, Runs
<1>2. CASE /\ Has(s, "request")
           /\ Become([Unlisten(Popped, s, {"reader"}) EXCEPT !.conn[s].hadError = TRUE])
           /\ req' = [req EXCEPT ![r] = Errs(@, 1)]
           /\ UNCHANGED crashed
  <2> DEFINE v == Unlisten(Popped, s, {"reader"})
  <2>1. Popped.conn[s].target \in Origins
    BY <1>1, <1>2, InUse DEF Has
  <2>2. Become(SetError(v, s, TRUE))
    BY <1>2 DEF SetError
  <2>3. WorldOK(v, origin) /\ KeepsTargets(Popped, v)
    BY <1>1, <2>1, UnlistenOK
  <2> HIDE DEF v
  <2>4. v.conn[s].target \in Origins
    BY <2>1, <2>3 DEF KeepsTargets
  <2>5. WorldOK(SetError(v, s, TRUE), origin) /\ KeepsTargets(v, SetError(v, s, TRUE))
    BY <2>3, <2>4, SetErrorOK
  <2>6. KeepsTargets(World, SetError(v, s, TRUE))
    BY <1>1, <2>3, <2>5 DEF KeepsTargets
  <2>7. SameSockets(req, req')
    BY <1>2, StartOK, ErrsStep
  <2> QED
    BY <1>1, <1>2, <2>2, <2>5, <2>6, <2>7, StartOK, PlainStep
<1>3. CASE /\ Has(s, "idle")
           /\ Become(AgentRemove(Unlisten(Popped, s, {"idle"}), s))
           /\ UNCHANGED <<req, crashed>>
  <2> DEFINE v == Unlisten(Popped, s, {"idle"})
  <2>1. Popped.conn[s].target \in Origins
    BY <1>1, <1>3, InUse DEF Has
  <2>2. Become(AgentRemove(v, s))
    BY <1>3
  <2>3. WorldOK(v, origin) /\ KeepsTargets(Popped, v)
    BY <1>1, <2>1, UnlistenOK
  <2> HIDE DEF v
  <2>4. WorldOK(AgentRemove(v, s), origin) /\ KeepsTargets(v, AgentRemove(v, s))
    BY <2>3, AgentRemoveOK
  <2>5. KeepsTargets(World, AgentRemove(v, s))
    BY <1>1, <2>3, <2>4 DEF KeepsTargets
  <2>6. SameSockets(req, req')
    BY <1>3, StartOK
  <2> QED
    BY <1>1, <1>3, <2>2, <2>4, <2>5, <2>6, StartOK, PlainStep
<1>4. CASE Become(Popped) /\ crashed' = TRUE /\ UNCHANGED req
  <2>1. SameSockets(req, req')
    BY <1>4, StartOK
  <2> QED
    BY <1>1, <1>4, <2>1, StartOK, PlainStep
<1> QED
  BY <1>2, <1>3, <1>4 DEF RunError

LEMMA ResponseHeadOK ==
  ASSUME IInv, NEW s \in Sockets, NEW keep \in BOOLEAN, NEW kind \in {"open", "toEnd"},
         ResponseHead(s, keep, kind)
  PROVE  IInv'
<1> DEFINE r == conn[s].message
<1>1. kind \in ResStates
  BY DEF ResStates
<1>2. SameSockets(req, req')
  BY <1>1, StartOK, ResStep DEF ResponseHead
<1>3. shouldKeepAlive' \in [Requests -> BOOLEAN]
  <2>1. shouldKeepAlive' = [shouldKeepAlive EXCEPT ![r] = shouldKeepAlive[r] /\ keep]
    BY StartOK DEF ResponseHead
  <2>2. (shouldKeepAlive[r] /\ keep) \in BOOLEAN
    OBVIOUS
  <2> QED
    BY <2>1, <2>2, StartOK
<1>4. Become(World) /\ UNCHANGED <<origin, crashed>>
  BY DEF ResponseHead, Become, World
<1> QED
  BY <1>2, <1>3, <1>4, StartOK, PlainStep

\* An open socket has a target.
LEMMA LiveTarget ==
  ASSUME IInv, NEW s \in Sockets, Live(World, s)
  PROVE  World.conn[s].target \in Origins
BY StartOK, InUse

LEMMA ResponseCompleteOK ==
  ASSUME IInv, NEW s \in Sockets, NEW double \in BOOLEAN, ResponseComplete(s, double)
  PROVE  IInv'
<1>1. World.conn[s].target \in Origins
  BY LiveTarget, StartOK DEF ResponseComplete, Reading, Live
<1>2. SameSockets(req, req')
  <2>1. "complete" \in ResStates
    BY DEF ResStates
  <2> QED
    BY <2>1, StartOK, ResStep DEF ResponseComplete
<1>3. Become(DestroySocket(World, s)) \/ Become(Unlisten(World, s, {"reader"}))
  BY DEF ResponseComplete
<1>4. WorldOK(DestroySocket(World, s), origin) /\ KeepsTargets(World, DestroySocket(World, s))
  BY StartOK, DestroySocketOK
<1>5. /\ WorldOK(Unlisten(World, s, {"reader"}), origin)
      /\ KeepsTargets(World, Unlisten(World, s, {"reader"}))
  BY <1>1, StartOK, UnlistenOK
<1>6. UNCHANGED <<origin, shouldKeepAlive, crashed>>
  BY DEF ResponseComplete
<1> QED
  BY <1>2, <1>3, <1>4, <1>5, <1>6, StartOK, PlainStep

\* A socket is destroyed, and perhaps an error noted.
LEMMA DestroyAndMark ==
  ASSUME IInv, NEW s \in Sockets, Live(World, s), NEW b \in BOOLEAN
  PROVE  /\ WorldOK(SetError(DestroySocket(World, s), s, b), origin)
         /\ KeepsTargets(World, SetError(DestroySocket(World, s), s, b))
<1> DEFINE v == DestroySocket(World, s)
<1>1. WorldOK(v, origin) /\ KeepsTargets(World, v)
  BY StartOK, DestroySocketOK
<1> HIDE DEF v
<1>2. v.conn[s].target \in Origins
  BY <1>1, LiveTarget DEF KeepsTargets
<1>3. WorldOK(SetError(v, s, b), origin) /\ KeepsTargets(v, SetError(v, s, b))
  BY <1>1, <1>2, SetErrorOK
<1>4. KeepsTargets(World, SetError(v, s, b))
  BY <1>1, <1>3 DEF KeepsTargets
<1> QED
  BY <1>3, <1>4 DEF v

LEMMA ParseErrorOK ==
  ASSUME IInv, NEW s \in Sockets, ParseError(s)
  PROVE  IInv'
<1>1. Live(World, s)
  BY StartOK DEF ParseError, Reading, Live
<1>2. SameSockets(req, req')
  BY StartOK, ErrsStep DEF ParseError
<1>3. /\ Become(SetError(DestroySocket(World, s), s, TRUE))
      /\ UNCHANGED <<origin, shouldKeepAlive, crashed>>
  BY DEF ParseError, SetError
<1>4. /\ WorldOK(SetError(DestroySocket(World, s), s, TRUE), origin)
      /\ KeepsTargets(World, SetError(DestroySocket(World, s), s, TRUE))
  BY <1>1, DestroyAndMark
<1> QED
  BY <1>2, <1>3, <1>4, StartOK, PlainStep

LEMMA UpgradeOK ==
  ASSUME IInv, NEW s \in Sockets, NEW listening \in BOOLEAN, Upgrade(s, listening)
  PROVE  IInv'
<1> DEFINE r == conn[s].message
<1>1. /\ WorldOK(World, origin) /\ World.conn[s].target \in Origins
      /\ UNCHANGED <<origin, shouldKeepAlive, crashed>>
  BY LiveTarget, StartOK DEF Upgrade, Reading, Live
<1>2. CASE /\ Become([Unlisten(AgentRemove(World, s), s, {"request", "reader"})
                         EXCEPT !.conn[s].message = None])
           /\ req' = [req EXCEPT ![r] = [Closes(@) EXCEPT !.res = "open", !.destroyed = TRUE]]
  <2> DEFINE u == AgentRemove(World, s)
             v == Unlisten(u, s, {"request", "reader"})
             c == [v.conn[s] EXCEPT !.message = None]
             w == [v EXCEPT !.conn[s] = c]
             q == [Closes(req[r]) EXCEPT !.res = "open", !.destroyed = TRUE]
  <2>1. WorldOK(u, origin) /\ KeepsTargets(World, u)
    BY <1>1, AgentRemoveOK
  <2> HIDE DEF u
  <2>2. u.conn[s].target \in Origins
    BY <1>1, <2>1 DEF KeepsTargets
  <2>3. WorldOK(v, origin) /\ KeepsTargets(u, v)
    BY <2>1, <2>2, UnlistenOK
  <2>4. Become([v EXCEPT !.conn[s].message = None])
    BY <1>2 DEF u
  <2> HIDE DEF v
  <2>5. v.conn[s].target \in Origins
    BY <2>2, <2>3 DEF KeepsTargets
  <2>6. v.conn[s].state # "unused" /\ v.conn[s] \in ConnType
    BY <2>3, <2>5, InUse
  <2>7. c \in ConnType /\ c.target = v.conn[s].target /\ c.state # "unused"
    BY <2>6 DEF ConnType
  <2>8. v \in WorldType
    BY <2>3 DEF WorldOK
  <2>9. Become(w)
    BY <2>4, <2>8 DEF WorldType
  <2> HIDE DEF c
  <2>10. WorldOK(w, origin) /\ KeepsTargets(v, w)
    BY <2>3, <2>6, <2>7, UpdateSocket
  <2> HIDE DEF w
  <2>11. KeepsTargets(World, w)
    BY <2>1, <2>3, <2>10 DEF KeepsTargets
  <2>12. r \in Requests => q \in ReqType /\ q.socket = req[r].socket
    <3>1. r \in Requests => Closes(req[r]) \in ReqType /\ Closes(req[r]).socket = req[r].socket
      BY StartOK, ClosesType
    <3> QED
      BY <3>1 DEF ReqType, ResStates
  <2>13. req' = [req EXCEPT ![r] = q]
    BY <1>2, StartOK
  <2> HIDE DEF q
  <2>14. SameSockets(req, req')
    BY <2>12, <2>13, StartOK, UpdateReq
  <2> QED
    BY <1>1, <2>9, <2>10, <2>11, <2>14, StartOK, PlainStep
<1>3. CASE /\ Become(DestroySocket(Unlisten(World, s, {"reader"}), s))
           /\ req' = [req EXCEPT ![r].res = "open"]
  <2> DEFINE v == Unlisten(World, s, {"reader"})
  <2>1. WorldOK(v, origin) /\ KeepsTargets(World, v)
    BY <1>1, UnlistenOK
  <2>2. Become(DestroySocket(v, s))
    BY <1>3
  <2> HIDE DEF v
  <2>3. WorldOK(DestroySocket(v, s), origin) /\ KeepsTargets(v, DestroySocket(v, s))
    BY <2>1, DestroySocketOK
  <2>4. KeepsTargets(World, DestroySocket(v, s))
    BY <2>1, <2>3 DEF KeepsTargets
  <2>5. "open" \in ResStates
    BY DEF ResStates
  <2>6. SameSockets(req, req')
    BY <1>3, <2>5, StartOK, ResStep
  <2> QED
    BY <1>1, <2>2, <2>3, <2>4, <2>6, StartOK, PlainStep
<1> QED
  BY <1>2, <1>3 DEF Upgrade

LEMMA PeerEndOK ==
  ASSUME IInv, NEW s \in Sockets, PeerEnd(s)
  PROVE  IInv'
<1> DEFINE r == conn[s].message
           fails == req[r].res = "none" /\ ~conn[s].hadError
<1>1. UNCHANGED <<origin, shouldKeepAlive, crashed>>
  BY DEF PeerEnd
<1>2. CASE /\ Live(World, s)
           /\ req' = [req EXCEPT ![r] = Errs(@, IF fails THEN 1 ELSE 0)]
           /\ Become([DestroySocket(World, s) EXCEPT !.conn[s].hadError = @ \/ fails])
  <2> DEFINE v == DestroySocket(World, s)
             b == v.conn[s].hadError \/ fails
             n == IF fails THEN 1 ELSE 0
  <2>1. n \in {0, 1} /\ req' = [req EXCEPT ![r] = Errs(@, n)]
    BY <1>2
  <2> HIDE DEF n
  <2>2. SameSockets(req, req')
    BY <2>1, StartOK, ErrsStep
  <2>3. b \in BOOLEAN
    OBVIOUS
  <2>4. v \in WorldType
    BY StartOK, DestroySocketOK DEF WorldOK
  <2>5. Become([v EXCEPT !.conn[s].hadError = @ \/ fails])
    BY <1>2
  <2> HIDE DEF v, fails
  <2>6. Become(SetError(v, s, b))
    BY <2>4, <2>5 DEF SetError, WorldType
  <2> HIDE DEF b
  <2>7. WorldOK(SetError(v, s, b), origin) /\ KeepsTargets(World, SetError(v, s, b))
    BY <1>2, <2>3, DestroyAndMark DEF v
  <2> QED
    BY <1>1, <2>2, <2>6, <2>7, StartOK, PlainStep
<1>3. CASE /\ conn[s].state = "open"
           /\ Become([World EXCEPT !.conn[s].state = "ended"])
           /\ UNCHANGED req
  <2>1. World.conn[s].target \in Origins
    BY <1>3, LiveTarget, StartOK DEF Live
  <2>2. Become(SetState(World, s, "ended"))
    BY <1>3 DEF SetState
  <2>3. /\ WorldOK(SetState(World, s, "ended"), origin)
        /\ KeepsTargets(World, SetState(World, s, "ended"))
    BY <2>1, StartOK, SetStateOK
  <2>4. SameSockets(req, req')
    BY <1>3, StartOK
  <2> QED
    BY <1>1, <2>2, <2>3, <2>4, StartOK, PlainStep
<1> QED
  BY <1>2, <1>3 DEF PeerEnd

\* The steps that only destroy a socket.
LEMMA DestroyStep ==
  ASSUME IInv, NEW s \in Sockets,
         Become(DestroySocket(World, s)) \/ Become(DestroySocketWithError(World, s)),
         UNCHANGED <<origin, shouldKeepAlive, req, crashed>>
  PROVE  IInv'
<1>1. WorldOK(DestroySocket(World, s), origin) /\ KeepsTargets(World, DestroySocket(World, s))
  BY StartOK, DestroySocketOK
<1>2. /\ WorldOK(DestroySocketWithError(World, s), origin)
      /\ KeepsTargets(World, DestroySocketWithError(World, s))
  BY StartOK, DestroySocketWithErrorOK
<1>3. SameSockets(req, req')
  BY StartOK
<1> QED
  BY <1>1, <1>2, <1>3, StartOK, PlainStep

LEMMA InitOK ==
  Init => IInv
<1> SUFFICES ASSUME Init PROVE IInv
  OBVIOUS
<1>1. /\ pool \in PoolType /\ ticks \in Seq(TickType)
      /\ pool.keys = <<>> /\ pool.requests = [n \in Origins |-> <<>>] /\ ticks = <<>>
  BY DEF Init, AgentInit, PoolType
<1>2. /\ conn \in [Sockets -> ConnType]
      /\ \A s \in Sockets : /\ conn[s].state = "unused" /\ conn[s].target = None
                            /\ conn[s].listeners = {}
  BY DEF Init, AgentInit, ConnType
<1>3. /\ World \in WorldType /\ World.pool = pool /\ World.conn = conn
      /\ World.ticks = ticks
  BY <1>1, <1>2 DEF World, WorldType
<1>4. KeysMatch(World) /\ QueuedByName(World, origin) /\ TicksByName(World, origin)
  BY <1>1, <1>3 DEF KeysMatch, KeysOf, NoRepeats, QueuedByName, TicksByName
<1>5. Targeted(World)
  BY <1>2, <1>3 DEF Targeted
<1>6. /\ origin \in OriginMap /\ shouldKeepAlive \in [Requests -> BOOLEAN]
      /\ crashed \in BOOLEAN
  BY DEF Init, AgentInit, OriginMap
<1>7. req \in [Requests -> ReqType] /\ \A r \in Requests : req[r].socket = None
  BY DEF Init, ReqType, ResStates
<1> QED
  BY <1>3, <1>4, <1>5, <1>6, <1>7 DEF IInv, WorldOK, Assigned

LEMMA NextOK ==
  IInv /\ [Next]_vars => IInv'
<1> SUFFICES ASSUME IInv, [Next]_vars PROVE IInv'
  OBVIOUS
<1>1. CASE UNCHANGED vars
  <2>1. Become(World) /\ UNCHANGED <<origin, shouldKeepAlive, req, crashed>>
    BY <1>1 DEF vars, agentVars, Become, World
  <2>2. SameSockets(req, req')
    BY <2>1, StartOK
  <2> QED
    BY <2>1, <2>2, StartOK, PlainStep
<1>2. CASE Program
  BY <1>2, RequestOK, EndOK, AbortOK, DestroyOK, ReadResponseOK, AgentDestroyOK DEF Program
<1>3. CASE RunTick
  BY <1>3, RunOnSocketOK, RunOnSocketDestroyedOK, RunEmitFreeOK, RunEndOK, RunHangUpOK,
     RunCloseOK, RunErrorOK DEF RunTick
<1>4. ASSUME NEW s \in Sockets, SocketError(s) \/ SocketFinish(s) \/ IdleTimeout(s)
      PROVE  IInv'
  BY <1>4, DestroyStep DEF SocketError, SocketFinish, IdleTimeout
<1>5. CASE Network
  BY <1>4, <1>5, ResponseHeadOK, ResponseCompleteOK, UpgradeOK, ParseErrorOK, PeerEndOK,
     HandleClosedOK DEF Network
<1> QED
  BY <1>1, <1>2, <1>3, <1>5 DEF Next

-----------------------------------------------------------------------------
\* The variables have their types in every reachable state, for any number of
\* requests, origins and sockets, any limits and either agent: no handler of
\* agent.js or client.js acts on a request, a socket or a name there is not.
THEOREM TypeCorrect == Spec => []TypeOK
<1>1. IInv => TypeOK
  <2> SUFFICES ASSUME IInv PROVE TypeOK
    OBVIOUS
  <2>1. pool \in PoolType /\ conn \in [Sockets -> ConnType] /\ ticks \in Seq(TickType)
    BY DEF IInv, WorldOK, WorldType, World
  <2> QED
    BY <2>1 DEF IInv, TypeOK, AgentTypeOK, OriginMap
<1> QED
  BY <1>1, InitOK, NextOK, PTL DEF Spec

\* With the agent of agent.js a request is only ever written to a socket that
\* is connected to the request's own origin, however sockets are handed from
\* one request to the next, queued for, created for waiting requests of other
\* origins, or given back.  (With the getName of https.js it is not so.)
THEOREM OriginRight == ASSUME Scheme = "http" PROVE Spec => []RightOrigin
<1>1. IInv => RightOrigin
  BY DEF IInv, Assigned, RightOrigin, GetName
<1> QED
  BY <1>1, InitOK, NextOK, PTL DEF Spec
=============================================================================
