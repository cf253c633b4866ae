# A TLA+ model of network-stackify

network-stackify is Node's `http`, `https`, `net` and `tls` rewritten for places without
sockets of an operating system: the HTTP layer is Node's, the sockets below it are streams of
any kind (a generic Duplex, or libp2p streams). This directory models its logic, model-checks
it with TLC and proves the central facts with TLAPS. Paths below are relative to `src/src/`.

## Inventory

| Part | State it keeps | Operations and interactions | What is hard | What makes it correct |
|---|---|---|---|---|
| Agent, `http/common/agent.js` | `requests`, `sockets`, `freeSockets` by name, `totalSocketCount` | `addRequest` from a ClientRequest; `free`, `close`, `timeout`, `agentRemove` of its sockets; `createConnection` | handlers that call each other; sockets that die between two ticks; two limits | no request is lost, no socket serves two requests, a request gets a socket to its own origin, limits |
| ClientRequest, `http/common/client.js` | `socket`, `res`, `destroyed`, `finished`, `shouldKeepAlive`, listeners on the socket | calls of the program (`end`, `abort`, `destroy`); data, end, error and close of the socket; ticks (`onSocketNT`, `emitFreeNT`) | request and response end in either order; errors with no listener; several sources of `error` and `close` | one `error` at most, none after `close`; every request comes to its `close`; safe reuse |
| HTTPS agent and server, `http/https.js` | TLS session cache | `getName`, `createConnection` | cached sessions evicted while used | different origins have different names; map and list of the cache agree |
| HTTP server connection, `http/common/server.js` | `incoming`, `outgoing`, `outgoingData`, `_httpMessage`, `_paused`, timers | parser callbacks, response `finish`, socket events | pipelining against backpressure, half-close, timers, upgrade | responses leave in order and whole; reading resumes; timers spare exchanges |
| OutgoingMessage, `http/common/outgoing.js` | `outputData`, `outputSize`, `kNeedDrain`, header table | `write`, `end`, `destroy`, `_flush` from `assignSocket` | data queued before the socket is there | what is written first leaves first, `drain` comes |
| IncomingMessage and parser glue, `http/common/incoming.js`, `common.js`, `internal/freelist.js` | `complete`, `aborted`, body buffer, pool of parsers | parser callbacks, `_read`, `_dump` | reuse of a parser, abort against end | one of `end` and `aborted`; a pooled parser belongs to one socket |
| net server, `nets/generic/internals/server.js`, `nets/libp2p/internals/server.js` | `_connections`, `maxConnections`, `listening`, abort listeners | `listen`, `close`, `addConnection`; `connection` to the program | listen that throws or announces twice, close by program, signal or tick, streams that fail half-way | the count is that of the accepted sockets; callbacks run once and are answered |
| net socket, `nets/generic/internals/socket.js`, `nets/libp2p/internals/socket.js`, `circuit-relay/` | `stream`, the inner Duplex, its fifo | `connect` (awaits dial, relay hops, new stream), `_write`, `_destroy` | destroy or rejection at each await; relays that refuse; writes before connect | a stream leads to the node that was named; order and backpressure of what is written; `connect` comes to an end |
| TLS socket and server, `tls/internals/` | handshake state, `_chunks`, `kErrorEmitted` | `connect`, `initSocket`, `init` and the callbacks given to node-forge; `tlsConnectionListener`; `checkServerIdentity` | writes during the handshake; two sockets that close, in either order; failures that are not forwarded | nothing of the program leaves before the handshake is over; each hangup is told once; a name matches as its pattern says |
| Utilities, `utils/`, root certificates, front ends | none | | | |

The layers meet in the socket: the agent creates it through `createConnection`, the request
listens to it, the agent hears `free` from it; on the server the net server emits `connection`
and `connectionListenerInternal` installs its handlers. `process.nextTick` separates decisions
from their effects in many places, and these gaps are where most hazards of `PROJECT.json` are.

## Modules

| Module | Models |
|---|---|
| `Agent.tla` | the pool of agent.js as operators from a world (pool, sockets, tick queue) to a world, because its handlers call each other synchronously |
| `HttpClient.tla` | the ClientRequests of client.js over that pool; one action per call of the program, per nextTick callback and per event of a socket |
| `MCHttpClient.tla` | symmetry for TLC |
| `HttpClientProofs.tla` | types and origins of `HttpClient`, proved for all values of the constants |
| `HttpClientInvariant.tla` | the account of sockets, ticks and requests, and why the agent's operators keep it |
| `HttpClientSafety.tla` | every action keeps it; the safety theorems of the client |
| `Pipeline.tla` | the abstract promise of a server connection: responses whole and in order, or an error response alone |
| `HttpServer.tla` | one connection of server.js with the parts of outgoing.js that queue and flush; it implements `Pipeline` |
| `MCHttpServer.tla` | the module TLC runs |
| `HttpServerEffects.tla` | what each operator of `HttpServer` does, as a relation of worlds |
| `HttpServerInvariant.tla` | the inductive invariant and why each kind of change keeps it |
| `HttpServerSteps.tla` | each action keeps it |
| `HttpServerProofs.tla` | the safety theorems of the server and its refinement of `Pipeline` |
| `NetSocket.tla` | a socket that connects out: generic socket, libp2p socket, circuit relays |
| `TlsSocket.tla` | that socket with or without a TLSSocket around it, and the peer at the other end |
| `NetServer.tla` | the generic and the libp2p server |
| `TlsServer.tla` | the TLS server over it, and over Node's own net server |
| `SessionCache.tla` | the TLS sessions that the https Agent caches |
| `ServerIdentity.tla` | `checkServerIdentity`, checked against a definition by substitution |
| `Stack.tla` | the four parts below HTTP beside each other; `MCStack.tla` is its instance |
| `StackProofs.tla` | theorems about `Stack` for all values of the constants |

An operator `X_Something` preceded by "Variant" is a faulty form of `X`, used to see that the
properties notice it (`mutants` in `PROJECT.json`). No specification refers to one.

### Client: correspondence with the code

- `pool` holds the fields of the Agent, `keys` the insertion order of `Object.keys(requests)`
  that `removeSocket` depends on. Names are `GetName(origin)`; with `Scheme = "https"` every
  origin has the same name, because https.js calls `Function.prototype.call` in place of the
  getName of agent.js.
- `conn[s].listeners` is the set of groups of listeners on a socket: those of the agent
  (`installListeners`), of the request (`close`, `error`), its readers (`data`, `end`) and the
  error listener of an idle socket. What an event does depends on who listens.
- `ticks` is the queue of nextTick callbacks, first in first out. With `TicksFirst` it empties
  before the next I/O event, as in Node; without, I/O may come between (the browser shims of
  nextTick use timers). `CloseByTick` says whether a destroyed socket emits `close` from a tick
  (generic streams) or when the handle closes (native sockets). `SocketFinish` is what follows the
  end of a socket without keepAlive: `destroySoon` of a native socket, which will close it; a
  generic socket has no `destroySoon`, its `end()` is not told to the peer (client.js:672), and
  nothing makes the step come.
- `addRequest` never reuses an idle socket: `freeSockets` is `undefined` there
  (agent.js:226). Idle sockets still count for the limits of the pool, time out, are removed and
  make room, so they are modelled.
- A response is `none`, `open` or `toEnd` (its body ends with the connection), `complete`
  (parsed), `read`, `ended` or `aborted`. Bodies and headers are not represented.

### Server: correspondence with the code

- Requests are `1..N` in the order in which the parser delivers them; `parser.phase` is where
  the parser is in a message, `parser.executing` that it is inside a chunk. A chunk may hold
  several messages: a pause made inside a chunk takes effect only after it, as in the code.
- `res[r].output` is `outputData`, with one piece per write; `outgoingData` counts pieces where
  the code counts characters. `HighWaterMark` is that of the socket and of a response.
- `sock.buf` is what the socket has accepted and not sent. `WriteDone` is the completion of a
  write with everything it causes: `drain`, then the write's callback, which emits `finish`,
  which detaches the response and flushes the next. A destroyed socket completes its writes
  with errors, before or after `close` or never (`WriteFails` has no fairness): streams differ.
- `SocketOnError` writes the 400, 408 or 431 to the socket itself, past the pipeline, if nothing was
  written before (`CanAnswerError`), and destroys the socket: the response leaves first, as native
  sockets do it, or is lost (`ErrorUnsent`). With requests unanswered their client may take it for
  the response to the first of them; `Reject` of `Pipeline` says so.
- `wire` records what was sent; the refinement `RefinesPipeline` maps it, the number of requests
  that arrived and "can still send" to the variables of `Pipeline`.
- The parser is http-parser-js, modelled from how the code uses it, as calling
  `kOnMessageBegin` for every message.

### Sockets: correspondence with the code

- `dial.awaiting` names the promise `internalConnect` waits for. Each of its settlements is an
  action; the program may destroy the socket between any two. The code looks at `destroyed`
  nowhere: a stream that comes late is installed, `connect` is emitted after `close`, and nobody
  closes the stream. A relay that refuses makes `connection` undefined; the next use of it throws,
  and the `catch` destroys the socket.
- `tx` is the way of a write: the Writable of the socket (`buffer`), the p-fifo behind the inner
  Duplex (`fifo`), the muxer (`remote`). `_write` without a stream calls back and drops
  (`dropped`). There is no half-close: `end()` is not told to the peer.
- `sock.lib` says whose Duplex it is. The inner `_destroy` never calls back, and the second
  `Duplex.prototype.destroy` calls back without the error in Node's streams (only `close` comes)
  and with it in readable-stream (`error`, then `close`; an unheard `error` is thrown first). A
  `destroy(err)` after that is ignored by Node's streams and emits `error` after `close` in
  readable-stream (`EmitError`): so ends a connect that fails after the program's `destroy()`.
- The handshake is what the code sees of node-forge: two flights of the client, the peer's
  certificate and finished message, alerts and close_notify. `tls.pending` is `_chunks`,
  `tls.sent` what `ssl.prepare` got. `Accepts` is `verify`: since `checkServerIdentity` returns an
  Error object, which is not falsy, a wrong name is not refused, and the model says so. No property
  claims anything of the peer's certificate.
- What `connect` and data make the listeners of a socket write is a parameter (`reply`) of the
  actions of `NetSocket`, so `TlsSocket` composes the two sockets in one step, as `emit` does.

### Servers: correspondence with the code

- `server` has the fields of the generic Server and counts the callbacks that wait for
  `listening` and `close`. `Listen` covers the option checks of the libp2p server, its own
  `listening`, and a listen that throws half-way and leaves its callback behind.
- `accepted[s]` is what `addConnection` made of a stream. The libp2p server's `addConnection`
  always fails, since a libp2p stream has no `on`; its `catch` swallows the error.
- `_connections` is never decremented, so the property `AcceptedCounted` says what it counts:
  every socket that was given out, gone ones included.
- Over the generic server a TLSSocket waits for a `connect` that an accepted socket never emits.
  Over Node's own server (`"native"`) the handshake runs, and only there sessions become secure.
- `SessionCache` keeps `map` and `list` as the code does; `ServerIdentity` asks the function once for
  each host and certificate.

The four parts share no state. `Stack` runs one of them in each behaviour (`side`) and leaves the
others at rest: the reachable states of the run are the sum of theirs, not the product.

## Runs

| Run | Configuration | Shows |
|---|---|---|
| `client_faults` | 2 requests, 2 origins, 2 sockets, all calls and faults, native sockets, keepAlive | exclusive sockets, no lost request, error listeners, one `error`, none after `close` |
| `client_pool` | 3 requests, 2 origins, 3 sockets, I/O between ticks, idle sockets, upgrades | right origin, queues keep a server, gone sockets are forgotten, safe reuse |
| `client_live` | 2 requests, no keepAlive, one native socket in all, fairness | limits; every request closes |
| `client_max_sockets` | 3 requests to one origin, maxSockets 1 | violation: `removeSocket` exceeds maxSockets |
| `client_https` | 2 origins, `Scheme = "https"` | violation: a request on a socket to another origin |
| `client_early_response` | responses that end before `req.end()` | violation: the exchange is never released |
| `client_eof_body` | a body the end of the connection ends | violation: it is aborted |
| `server_faults` | 2 pipelined requests, all calls, faults, timers | responses whole and in order, or an error response alone (refinement), no failed assert, exact `outgoingData`, no lost resume or `drain`, keep-alive timer |
| `server_live` | 2 pipelined requests, half-open connections, fairness | all answered, reading resumes, the server ends when all is answered, idle timer |
| `server_request_timer` | Expect: 100-continue, requestTimeout | violation: a request that was read can still time out |
| `server_continue_order` | 100 Continue for a pipelined request, Buffers | violation: the header overtakes it |
| `net_stack` | all of `Stack`: 2 relays, 2 writes, TLS on or off; 3 streams, `maxConnections` 2, 2 listens, 2 closes; 3 keys, 2 sessions, 3 connections, caches of 0 to 2; 30 host names and 68 patterns | the path, order and backpressure of a socket; application data in order and only after both flights of the handshake; counts, callbacks and reports of the servers; the cache; names; every `connect`, handshake and `close()` settles |

The violations are the findings of `PROJECT.json`; each quotes the line it contradicts.

Bounds. Two requests are enough for one to wait for the socket of another and for a pipeline
with a response in progress and one that waits; three requests over two origins and
`MaxTotalSockets = 2` give a queue with requests of both origins while an idle and a busy
socket exist; `MaxSockets = 2` there lets one origin use up the total, so that a request of the other
has to wait for a refill across names. Elsewhere `MaxSockets` and `MaxFreeSockets` are 1 so that
every limit is reached. `MaxWrites`
bounds `write` calls per response; with `HighWaterMark` 2 (1 in `server_live`) a header, one
write and the end of a response pass the mark, so pauses and drains occur. `errors` saturates
at 2. `Sockets` bounds how many sockets are ever created; a request that would need one more
is not made, and a refill that would need one more leaves the queue as it is, which only removes
behaviours. In `net_stack` two relays give a
path with a relay that carries and one that refuses, two writes one that waits in `_chunks` and
one in the Writable behind it, `maxConnections` 2 of 3 streams a refusal, a cache of 2 for 3 keys an
eviction; wildcard labels of up to three characters over host labels of up to three contain every
way a prefix and a suffix can overlap. `MaxListens` and `MaxCloses` bound calls of the program. Runs that check safety may stop when everything is over, so deadlock is not checked.

Fairness. Client: ticks run, destroyed sockets close, the server answers what it reads and ends
the bodies it began, the program reads responses (the code offers no timeout of its own, so
without an answering server nothing can be promised). That a socket which
has ended closes (`SocketFinish`) is assumed of native sockets only, so `client_live` sets `CloseByTick = FALSE`:
the end of a generic socket is not told to the peer, and the exchange closes only if the peer ends
of itself. `client_live` has only the faults that matter for
waiting (ends of connections, aborts); the others destroy sockets in the same way. Server: the event loop ends messages and chunks, the socket
sends and closes, the program ends its responses. Nothing is assumed of reading the request,
of the peer's end, or of the failure of pending writes. Sockets (`ClientProgress`): an awaited promise settles
in some way, ticks run, the muxer takes what is written, the peer answers the flights of the handshake.
Servers (`ServerTicks`): ticks run. Nothing is assumed of the program, which may destroy, write,
listen and close or not. `HandshakeSettles` excludes a reset or an end by the peer,
which the code tells nobody; `CloseAnswered` excludes a server that ever had a connection.

## Proofs

### Types and origins of the client

`HttpClientProofs.tla` proves, from `AgentAssumption` and `ClientAssumption` alone:

- `TypeCorrect`: `Spec => []TypeOK`;
- `OriginRight`: with `Scheme = "http"`, `Spec => []RightOrigin`: no request is ever attached to
  a socket connected to another origin.

`RightOrigin` is not inductive: a request reaches its socket through a queue and a tick. The
inductive invariant `IInv` consists of the types and of

- `KeysMatch`: `keys` are exactly the names under which requests wait, each one once (the refill
  across origins takes the head of the queue of the first key);
- `QueuedByName`: a request waits under the name of its own origin;
- `Targeted`: a socket in use has a target, and one with listeners is in use;
- `TicksByName`: an `onSocket` tick carries a request and a socket whose origins have one name;
- `Assigned`: a request and its socket have origins of one name, which for the http agent makes the
  origins equal.

Because the handlers are operators on worlds, the proof has one lemma per operator (a world for
which the first four parts hold goes to another, and sockets in use keep their targets), lemmas
about the updates of records and sequences, and one lemma per action; `NextOK` combines
them, and the last step of each theorem is temporal. Types and meaning are part of one induction: that
heads and tails of queues are requests needs `KeysMatch`, and that a target is an origin needs
`Targeted`.

### Below HTTP

`StackProofs.tla` proves about `StackSpec`, from the assumptions on the constants of its parts:

- `StreamsAtExit` (`StreamAtExit`), for every number of relays. `DialInv` says what is known of the
  path at each await (`Path`: the relays so far carry, there are fewer of them than `options.hops`
  before a hop and as many before the stream), that a stream exists only once the dial has arrived,
  and that a queued `connect` tick implies it. Steps that leave the dial alone need one lemma
  (`QuietStep`), steps of the dial another (`DialStep`).
- `CountsExact` (`AcceptedCounted`) and `ListensOnce` (`ListenCallbackOnce`). `CountInv` adds to
  them that a stream whose `connection` is queued is counted already: otherwise the tick could
  count it twice or not at all. `Keeps` is what `listen` and `close` leave alone.
- `HangupsToldOnce` (`OneTlsClientError`). `Reported` ties `kErrorEmitted` to the hangups
  and says that a session before its handshake was never announced.
- `CacheIsOne` (`SessionsConsistent`), for every `maxCachedSessions`: `Consistent` is the property
  with types; the lemmas say what taking out and adding one key do to list and map.

- `WritesInOrder` (`DeliveredInOrder`), `CallbacksAfterTaking` (`AckedIsTaken`), `TlsKeepsAll`
  (`TlsLosesNothing`) and `AppDataGuarded` (`AppDataAfterHandshake`), for every number of chunks, all
  options and certificates: one induction, over `ClientInv`, below.
- `StackTypeCorrect` (`TypeOK`), from the invariants above and `RestInv`.
- `NamesMatch` (`IdentityMatches`), for names of any number of labels of any length.

Which part runs is decided by `StackParts`: a step of `Stack` is a step of one part and a stutter of
the others, so each invariant is proved about the next-state relation of its own part.

`ClientInv` is `DialInv`, `SocketInv` (`FlowInv`, `CloseInv`, `ArrivedOpen`) and `TlsInv`. None of the four properties is
inductive: each speaks of contents, and what keeps it true is where the contents are and what may
still come.

- `Flow` is about the way of a write. `InPlace` says what `remote`, `fifo` and `buffer` are by
  places of `handed`; `Accounted`, that nothing else is left, except what a destroyed socket let go
  of; `OneAtATime`, that nothing waits in the Writable while nothing is under way, so a new write
  cannot overtake one that waits; `Acked`, that all but the write under way are acknowledged.
- `CloseInv`: `close` comes once, after the socket is destroyed. A second one would make the
  TLSSocket close twice.
- `NumbersOK`: the chunks of a TLSSocket are numbered through `sent`, `pending` and `buffer`.
  Without it `flush` could encrypt in another order. Before `secure` nothing is sent, afterwards
  nothing is left in `_chunks`: the flush is complete, and no write comes into it.
- `AppsOK`: the n-th chunk handed to the net socket is the n-th encrypted, and comes after both
  flights. `PhaseOK` ties the phase to what was handed over.
- `ArrivedOpen`, and `HasStream` once the handshake is begun: `connect` comes only after the
  stream, so the net socket drops nothing of a TLSSocket.

What `connect` and data make listeners write is a parameter of the actions of `NetSocket`, so the
lemmas about `SocketInv` take any reply, and `PlainTls`, `SecuredTls` and `PeerTls`, one lemma per
group of actions, add what the TLSSocket writes. The properties compare sequences; the lemma
`InOrder` gets that comparison from places.

`NamesMatch` is about a function: `CheckStandsFor` shows that `check` and
the substitution of RFC 6125 agree for every pair of names. `SuffixPlaces` and `GluedPlaces` turn
prefixes, suffixes and concatenation into places; `WildcardText` then says that a text that fits
exists exactly when the length test holds together with `startsWith` and `endsWith`.

### The rest of the client's safety

`HttpClientInvariant.tla` and `HttpClientSafety.tla` prove, for all values of the constants:
`OneRequestPerSocket` (`SocketExclusive`), `NoneForgotten` (`NoRequestForgotten`), `ForgottenWhenGone`
(`GoneIsForgotten`), `OneError` (`AtMostOneError`), `GapIsClosing` (`ErrorListenerGap`),
`SilentAfterClose` (`NoErrorAfterClose`), `LimitsRespected` (`LimitsHold`), `WaitingServed`
(`WaitingHasServer`), `ReuseSafe` (`SafeReuse`) and `ErrorsHeard` (`NoUnhandledError`). None is
inductive. Above `IInv` stands an account of who knows what (`Sound`):

- `ListedOK`: a socket in a list of the agent is under its own name, unclosed, and the agent listens;
- `SocketOK`: what listeners imply. The request of a socket with a request's listeners has this
  socket, is closed exactly when the socket is, and has emitted an error only if `_hadError` says so:
  without the last, the end of a socket could be reported a second time;
- `TickOK`, one part per kind of tick. An `onSocket` tick carries a request nothing has happened to
  and a socket whose last exchange is over; an `emitFree` tick one that is done; an `error` tick a
  destroyed socket without `_hadError`;
- `Ordered`: no tick is followed by one it `Clash`es with: two that use one socket or answer one
  request, or an `error` after the `close` of its socket. Each tick is sound only because no earlier
  one spoils it;
- `ReqOK`, `QueueOK`, `NoRepeats`: what a request and the queues say of each other;
- `Heard` and `Kept`: a live socket has an `error` listener or a tick that brings one or frees it,
  and a request that has yet to close is queued, in a tick, or at a socket that has yet to close.

`RemoveSocket`, `FreeSocket` and the others call each other, so the proof goes by relations
between worlds that compose (`Serves` a request, `Makes` or `Refills` a socket, `Destroys`, `Drops`,
`Kills`), with one lemma per operator and relation, and `Near`/`Spares` for all that a step at one
socket and request leaves alone.

The limits and the queues need sums over lists (`PoolOK`): the counter is at most the number of busy
sockets (with keepAlive it may be less, the hazard at agent.js:384), and without keepAlive equal to
it, with every socket the agent still listens to in its list, since `removeSocket` makes a new
socket for those that wait only where it took one away. `WaitingServed` assumes `Enough`, as many
sockets as requests. The code has no such bound, createConnection always answers in
the model, but the model's `Sockets` may run out; the part `Supplied` (no more sockets in use than requests placed) shows
that under `Enough` they do not. All client runs satisfy it.

For the last two theorems `StepKinds` sorts the steps. All but three are `Calm`: they give no socket to
a request and queue no `error`; what is left is `onSocketNT`, `destroy(err)` and a reset. For `ReuseSafe` that leaves `RunOnSocket`, about whose tick `OnSocketOK`
says enough. For `ErrorsHeard` the invariant is `ErrorFirst`: unless the program called `destroy(err)`,
an `error` tick is at the head of the queue and its socket has a listener. It needs `TicksFirst`:
with I/O between ticks an error can come to a socket between two exchanges.

### The server

`HttpServerEffects`, `HttpServerInvariant`, `HttpServerSteps` and `HttpServerProofs` prove, for every
number of requests and writes and every high-water mark: `TypeCorrect` (`TypeOK`), `Aligned`
(`PipelineAligned`), `Exact` (`OutgoingDataExact`), `PauseReason` (`PausedHasReason`), `WriterWakes`
(`WaitingWriterWakes`), `TimerOnlyWhenIdle` (`KeepAliveTimerOnlyWhenIdle`), `ServerIdleHasTimer`
(`IdleHasTimer`), `ServerEndsWhenAnswered` (`EndsWhenAnswered`) and `ServerRefinesPipeline`
(`RefinesPipeline`). The inductive invariant is `WorldOK` of the world, of how many requests
have arrived and of how many responses are sent whole:

- `NumbersOK` is the heart: while responses can go out, the requests due are numbered from the
  first unanswered one, the first has the socket, the others wait in order. `EndHeads` says that the
  piece that ends a response is in the socket only for the first request due, so that
  `resOnFinish` shifts the right one;
- `OutputsOK`, `BufOK`: what waits is of the response that queued it, and the last piece of a response
  is the last that it queues. `FreshOK`: nothing is queued for requests that have yet to arrive;
- `CountOK`: `outgoingData` is the number of queued pieces;
- `TurnsOK`: only responses whose turn is still to come hold pieces, and a socket that owes a
  `drain` has something to send; with it `PausedOK` and `WaitingOK` are kept;
- `TimerOK`, `LastOK`: when the timer is set and why a response is the last.

While `resOnFinish` runs, the invariant holds only in parts; `Between` and `Finishing` name them. `IdleHasTimer` needs
`TimerInv` in addition (a response finishes after its request is complete). `RefinesPipeline`: each action
leaves `wire` alone, appends one piece of the response due, kills the connection, or kills it
with an error response as the first and last piece, and those are the actions of
`Pipeline`. `EndsWhenAnswered` rests on `SentIsAnswered`: *n* responses sent whole are those to the first *n* requests.

### What stays with TLC

All liveness and ENABLED are outside the prover's reach: `EveryRequestCloses`, `EveryRequestAnswered`,
`ReadingResumes`, `ConnectSettles`, `HandshakeSettles` and `CloseAnswered`, which need fairness. Every
invariant, every action property and the refinement that the passing runs check have a theorem; the violation runs
are counterexamples. To stay within what can be proved, several writes of one listener are taken
by the socket in one closed form (`StartWrite`: the first goes to the fifo, the others wait) in place of a fold
over them, and the wildcards of a label are counted as a set; both say what the code does, with no recursion.

## Not modelled, and why

Header tables and their formatting, validation of options, error texts, certificates: data without
control. Informational responses and request.setTimeout: no effect on the modelled state.
User listeners for `timeout`, `clientError`, `checkContinue`, `checkExpectation` on the server
replace the code's own handling by the program's. The backpressure of request bodies is abstracted
to "the rest of the message arrives". A chunk without a message (a stray CRLF between
requests) would clear the keep-alive timer as well (server.js:625). A request destroyed before its socket came hears of the hang-up
a tick after that socket is destroyed; the code waits for the socket's `close` there (client.js:800), which only
puts the same events later. `https.Server` cannot be constructed at all (its
constructor throws), so there is nothing to run. Of TLS: the encryption itself, client certificates, `handshakeTimeout` and
`sessionTimeout` (stored and never used). A second `connect()` on one socket (it would install a second
stream over the first), the buffering inside the inner Readable, `setTimeout` of sockets (empty), `ref`
and `unref`. `utils/` and the root certificates are tables and pure validation; `errors.js` alone is a
fifth of the implementation's lines and holds no state.

## Behaviours to know

Besides the findings, modelling showed behaviours that fall short of the modules they replace. The
repository claims to be a drop-in replacement (`README.md:65` at its root, `nets/libp2p/README.md:3`,
`tls/README.md:3`) and says no more about them, except where a line is named; the models have them,
and the properties are stated around them and claim nothing there:

- a reset stream is heard by nobody, and a stream that comes after `destroy` is never closed;
- a TLSSocket over an accepted or already connected generic socket waits for ever;
- `init` throws only when roots, name and `rejectUnauthorized` are all missing;
- a wrong name in a certificate with a good chain is accepted, although the branch at
  tls/internals/socket.js:112-116 means to answer it with bad_certificate ("Certificate common name
  does not match hostname.");
- `_connections` only grows: after a first connection `close()` is never answered, and
  `maxConnections` is reached for good;
- a generic socket has no `destroySoon`, and its `end()` is not told to the peer: without keepAlive a
  finished exchange over it closes only when the peer ends;
- a 400, 408 or 431 may be sent while earlier pipelined requests wait for their responses;
- `listening` comes twice from the libp2p server, and `tlsClientError` also after a good session;
- an error of forge on the server has no listener and is thrown;
- `connect` with `options.timeout` uses `socket` before its declaration.

## Plan

1. Done: `Agent`, `HttpClient` with their proofs; `HttpServer` with `Pipeline`.
2. Done: `NetSocket`, `TlsSocket`, `NetServer`, `TlsServer`, `SessionCache`, `ServerIdentity`, composed in
   `Stack`, with the proofs of `StackProofs`.
3. Left: `OutgoingHeaders` (`_storeHeader`, `matchHeader`, `setHeader`, `removeHeader` as functions
   from header sets to framing and persistence, checked against RFC 7230's rules); the pool of
   parsers.
4. Done: all safety properties of client and server, and `HttpServer => Pipeline`, proved.
5. Done: the invariants of `Stack`, proved; no safety property is without a theorem.
