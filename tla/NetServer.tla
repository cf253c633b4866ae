----------------------------- MODULE NetServer -----------------------------
(***************************************************************************)
(* The server of the net layer: the generic one                            *)
(* (src/src/nets/generic/internals/server.js), which counts connections,   *)
(* listens and closes, and the libp2p one, which registers a protocol      *)
(* handler. What listens to 'connection' is in TlsServer.tla.              *)
(***************************************************************************)
EXTENDS Naturals, Sequences, FiniteSets

CONSTANTS Streams,        \* incoming streams
          MaxConnections, \* server.maxConnections, 0 when it is not set
          MaxListens,     \* calls of listen() (bound)
          MaxCloses       \* calls of close() with a callback (bound)

ASSUME NetServerAssumption ==
    /\ IsFiniteSet(Streams)
    /\ MaxConnections \in Nat /\ MaxListens \in Nat /\ MaxCloses \in Nat

VARIABLES
    server,    \* the fields and the listeners of the Server
    accepted,  \* what became of each incoming stream
    nextTicks  \* process.nextTick, first in first out

netServerVars == <<server, accepted, nextTicks>>

\* "native" is Node's net.Server, under the TLS server only.
Transports == {"libp2p", "generic", "native"}

ServerType ==
    [transport   : Transports,
     listening   : BOOLEAN,
     handled     : BOOLEAN,   \* addConnection is registered for new streams
     connections : Nat,       \* _connections
     listens     : Nat,       \* calls of listen() that did not throw at once
     waiting     : Nat,       \* callbacks of listen() on 'listening'
     called      : Nat,       \* callbacks of listen() that were called
     asked       : Nat,       \* calls of close() with a callback
     closing     : Nat,       \* callbacks of close() on 'close'
     closes      : Nat,       \* 'close' events
     signal      : {"none", "live", "aborted"},  \* options.signal
     aborts      : Nat]       \* listeners of this server on the signal

\* announced: its socket was emitted with 'connection'; gone: that socket is
\* closed; swallowed: new Socket or stream.close threw inside addConnection.
AcceptedType == [Streams -> {"unborn", "announcing", "announced", "gone", "refused", "swallowed"}]

NetServerTypeOK ==
    /\ server \in ServerType
    /\ accepted \in AcceptedType
    /\ nextTicks \in Seq(({"connection", "tlsClose"} \X Streams) \cup {<<"close">>, <<"abort">>})

NewServer(transport, signal) ==
    [transport |-> transport, listening |-> FALSE, handled |-> FALSE, connections |-> 0,
     listens |-> 0, waiting |-> 0, called |-> 0, asked |-> 0, closing |-> 0, closes |-> 0,
     signal |-> signal, aborts |-> 0]

NetServerInit ==
    /\ server \in {NewServer(t, g) : t \in Transports, g \in {"none", "live", "aborted"}}
    /\ accepted = [s \in Streams |-> "unborn"]
    /\ nextTicks = <<>>

-----------------------------------------------------------------------------
(* listen *)

\* Variant: the callback of listen() stays on 'listening'.
EmitListening_On(v) == [v EXCEPT !.called = @ + v.waiting]

\* 'listening': the callbacks were added with once().
EmitListening(v) == [v EXCEPT !.called = @ + v.waiting, !.waiting = 0]

\* addAbortSignalOption: close on abort; at once, by a tick, if it was aborted.
Watched(v, watch) == IF watch /\ v.signal = "live" THEN [v EXCEPT !.aborts = @ + 1] ELSE v

WatchTick(watch) == IF watch /\ server.signal = "aborted" THEN <<<<"abort">>>> ELSE <<>>

\* The libp2p server's internalListen announces itself.
InternalListen(v) == EmitListening([v EXCEPT !.handled = TRUE, !.listening = TRUE])

\* listen(options, cb). While listening it throws before anything changes. When
\* internalListen or options.listen throws, cb and the abort listener stay.
\* 'listening' is emitted again at the end.
Listen(watch) ==
    LET v == Watched([server EXCEPT !.listens = @ + 1, !.waiting = @ + 1], watch) IN
    /\ ~server.listening /\ server.transport # "native" /\ server.listens < MaxListens
    /\ watch => server.signal # "none"
    /\ \/ server' = v
       \/ /\ server.transport = "generic"
          /\ server' = EmitListening([v EXCEPT !.handled = TRUE, !.listening = TRUE])
       \/ server.transport = "libp2p" /\ server' = EmitListening(InternalListen(v))
    /\ nextTicks' = nextTicks \o WatchTick(watch)
    /\ UNCHANGED accepted

-----------------------------------------------------------------------------
(* addConnection *)

\* Variant: the connection is counted before its Socket is made.
AddConnection_CountFirst(s) ==
    /\ server.handled /\ accepted[s] = "unborn"
    /\ server' = [server EXCEPT !.connections = @ + 1]
    /\ \/ /\ server.transport = "libp2p"
          /\ accepted' = [accepted EXCEPT ![s] = "swallowed"] /\ UNCHANGED nextTicks
       \/ /\ server.transport = "generic"
          /\ accepted' = [accepted EXCEPT ![s] = "announcing"]
          /\ nextTicks' = Append(nextTicks, <<"connection", s>>)

\* A generic stream need not have close(), and a libp2p stream has no on(): the
\* TypeError of either ends in the catch of addConnection.
AddConnection(s) ==
    LET full == MaxConnections # 0 /\ server.connections >= MaxConnections IN
    /\ server.handled /\ accepted[s] = "unborn"
    /\ \/ /\ full
          /\ \/ accepted' = [accepted EXCEPT ![s] = "refused"]
             \/ server.transport = "generic" /\ accepted' = [accepted EXCEPT ![s] = "swallowed"]
          /\ UNCHANGED <<server, nextTicks>>
       \/ /\ ~full /\ server.transport = "libp2p"
          /\ accepted' = [accepted EXCEPT ![s] = "swallowed"]
          /\ UNCHANGED <<server, nextTicks>>
       \/ /\ ~full /\ server.transport = "generic"
          /\ accepted' = [accepted EXCEPT ![s] = "announcing"]
          /\ server' = [server EXCEPT !.connections = @ + 1]
          /\ nextTicks' = Append(nextTicks, <<"connection", s>>)

\* The tick that emits 'connection'.
EmitConnection(s) ==
    /\ nextTicks # <<>> /\ Head(nextTicks) = <<"connection", s>>
    /\ nextTicks' = Tail(nextTicks)
    /\ accepted' = [accepted EXCEPT ![s] = "announced"]
    /\ UNCHANGED server

\* An accepted socket closes. Nothing tells the server, which goes on counting.
SocketGone(s) ==
    /\ accepted[s] = "announced"
    /\ accepted' = [accepted EXCEPT ![s] = "gone"]
    /\ UNCHANGED <<server, nextTicks>>

-----------------------------------------------------------------------------
(* close *)

\* Variant: a server that does not listen is not asked to close.
CloseIfDrained_Listening(v) == IF v.connections = 0 /\ v.listening THEN <<<<"close">>>> ELSE <<>>

\* _emitCloseIfDrained: called by close() only.
CloseIfDrained(v) == IF v.connections = 0 THEN <<<<"close">>>> ELSE <<>>

\* close(cb): `listening` stays true, and the protocol handler stays registered.
Close ==
    /\ server.transport # "native" /\ server.asked < MaxCloses
    /\ server' = [server EXCEPT !.asked = @ + 1, !.closing = @ + 1]
    /\ nextTicks' = nextTicks \o CloseIfDrained(server)
    /\ UNCHANGED accepted

\* onAborted of a signal that was aborted before listen().
RunAbort ==
    /\ nextTicks # <<>> /\ Head(nextTicks) = <<"abort">>
    /\ nextTicks' = Tail(nextTicks) \o CloseIfDrained(server)
    /\ UNCHANGED <<server, accepted>>

\* The signal is aborted: close() for every listen() that watches it.
Abort ==
    /\ server.signal = "live"
    /\ server' = [server EXCEPT !.signal = "aborted"]
    /\ nextTicks' = nextTicks \o [i \in 1..(IF server.connections = 0 THEN server.aborts ELSE 0)
                                     |-> <<"close">>]
    /\ UNCHANGED accepted

\* emitCloseNT: the callbacks of close(), and the abort listeners are removed.
EmitServerClose ==
    /\ nextTicks # <<>> /\ Head(nextTicks) = <<"close">>
    /\ nextTicks' = Tail(nextTicks)
    /\ server' = [server EXCEPT !.closing = 0, !.closes = @ + 1, !.aborts = 0]
    /\ UNCHANGED accepted

NetServerNext ==
    \/ \E watch \in BOOLEAN : Listen(watch)
    \/ \E s \in Streams : AddConnection(s) \/ EmitConnection(s) \/ SocketGone(s)
    \/ Close \/ Abort \/ RunAbort \/ EmitServerClose

NetServerSpec == NetServerInit /\ [][NetServerNext]_netServerVars

-----------------------------------------------------------------------------
(* Safety *)

Taken == {s \in Streams : accepted[s] \in {"announcing", "announced", "gone"}}

\* _connections counts exactly the sockets the program got or is about to get,
\* although a stream may fail inside addConnection, and never passes
\* maxConnections, although the check and the 'connection' are ticks apart.
AcceptedCounted ==
    server.transport # "native" =>
        /\ server.connections = Cardinality(Taken)
        /\ MaxConnections # 0 => server.connections <= MaxConnections

\* The callback of a listen() runs once at most, although 'listening' is emitted
\* twice and the callback of a listen() that threw waits for the next one.
ListenCallbackOnce == server.called + server.waiting <= server.listens

-----------------------------------------------------------------------------
(* Liveness *)

\* A callback given to close() is called, also when the server never listened
\* or its signal was aborted meanwhile; unless there ever was a connection.
CloseAnswered == server.closing > 0 ~> (server.closing = 0 \/ server.connections > 0)
=============================================================================
