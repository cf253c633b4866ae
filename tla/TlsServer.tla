----------------------------- MODULE TlsServer -----------------------------
(***************************************************************************)
(* The TLS server (src/src/tls/internals/server.js): a net server whose    *)
(* 'connection' listener wraps each socket in a TLSSocket and reports to   *)
(* the server what becomes of it. NetServer.tla is the server below; over  *)
(* "native" it is Node's net.Server, whose sockets come connected.         *)
(***************************************************************************)
EXTENDS NetServer

VARIABLES
    rejectUnauthorized,  \* server.rejectUnauthorized
    sessions             \* the TLSSocket of each stream

tlsServerVars == <<netServerVars, rejectUnauthorized, sessions>>

\* broken: init threw and tlsConnectionListener ended there; failed: forge
\* reported an error.
SessionType ==
    [phase        : {"none", "waiting", "broken", "handshaking", "secure", "failed"},
     destroyed    : BOOLEAN,
     errorEmitted : BOOLEAN,  \* [kErrorEmitted]
     hangups      : 0..2,     \* 'close' events without an error (history)
     clientErrors : 0..2,     \* 'tlsClientError' events about it (2: or more)
     secures      : 0..2]     \* 'secureConnection' events about it (2: or more)

TlsServerTypeOK == /\ NetServerTypeOK
                   /\ rejectUnauthorized \in BOOLEAN
                   /\ sessions \in [Streams -> SessionType]

NewSession(phase) == [phase |-> phase, destroyed |-> FALSE, errorEmitted |-> FALSE,
                      hangups |-> 0, clientErrors |-> 0, secures |-> 0]

TlsServerInit == /\ NetServerInit
                 /\ rejectUnauthorized \in BOOLEAN
                 /\ sessions = [s \in Streams |-> NewSession("none")]

More(n) == IF n = 2 THEN 2 ELSE n + 1

-----------------------------------------------------------------------------
(* tlsConnectionListener *)

\* An accepted generic socket has no readyState and never emits 'connect': its
\* TLSSocket waits for good.
TlsConnection(s) ==
    /\ EmitConnection(s)
    /\ sessions' = [sessions EXCEPT ![s] = NewSession("waiting")]
    /\ UNCHANGED rejectUnauthorized

\* The sockets of Node's server are open, so init runs in the constructor. The
\* server gives no roots and no name, so init throws without rejectUnauthorized.
NativeConnection(s) ==
    /\ server.transport = "native" /\ accepted[s] = "unborn"
    /\ accepted' = [accepted EXCEPT ![s] = "announced"]
    /\ sessions' = [sessions EXCEPT ![s] =
                       NewSession(IF rejectUnauthorized THEN "handshaking" ELSE "broken")]
    /\ UNCHANGED <<server, nextTicks, rejectUnauthorized>>

-----------------------------------------------------------------------------
(* The listeners on the TLSSocket *)

\* onServerSocketSecure.
HandshakeDone(s) ==
    /\ sessions[s].phase = "handshaking" /\ accepted[s] = "announced"
    /\ sessions' = [sessions EXCEPT ![s].phase = "secure",
                       ![s].secures = IF sessions[s].destroyed THEN @ ELSE More(@)]
    /\ UNCHANGED <<netServerVars, rejectUnauthorized>>

\* The error of forge comes as 'error', and onSocketTLSError listens to an event
\* that nothing emits: the error is thrown and the server is not told.
HandshakeFails(s) ==
    /\ sessions[s].phase \in {"handshaking", "secure"} /\ accepted[s] = "announced"
    /\ sessions' = [sessions EXCEPT ![s].phase = "failed"]
    /\ UNCHANGED <<netServerVars, rejectUnauthorized>>

\* Variant: kErrorEmitted is looked at and not set.
Hangup_NotMarked(t) ==
    [t EXCEPT !.hangups = More(@),
              !.clientErrors = IF t.errorEmitted THEN @ ELSE More(@)]

\* onSocketClose without an error. It has no way to know that the session was
\* established: _controlReleased is never set.
Hangup(t) ==
    [t EXCEPT !.hangups = More(@),
              !.clientErrors = IF t.errorEmitted THEN @ ELSE More(@),
              !.errorEmitted = TRUE]

Listened(t) == t.phase \notin {"none", "broken"}

\* 'close' of the socket below is 'close' of the TLSSocket, with its hadError;
\* the sockets of this repository do not say whether there was an error.
TlsSocketGone(s) ==
    /\ SocketGone(s)
    /\ \/ /\ Listened(sessions[s])
          /\ sessions' = [sessions EXCEPT ![s] = Hangup(@)]
       \/ /\ ~Listened(sessions[s]) \/ server.transport = "native"
          /\ UNCHANGED sessions
    /\ UNCHANGED rejectUnauthorized

\* The program destroys a TLSSocket that one of the events gave it.
DestroySession(s) ==
    /\ ~sessions[s].destroyed
    /\ sessions[s].secures > 0 \/ sessions[s].clientErrors > 0
    /\ sessions' = [sessions EXCEPT ![s].destroyed = TRUE]
    /\ nextTicks' = Append(nextTicks, <<"tlsClose", s>>)
    /\ UNCHANGED <<server, accepted, rejectUnauthorized>>

SessionCloses(s) ==
    /\ nextTicks # <<>> /\ Head(nextTicks) = <<"tlsClose", s>>
    /\ nextTicks' = Tail(nextTicks)
    /\ sessions' = [sessions EXCEPT ![s] = Hangup(@)]
    /\ UNCHANGED <<server, accepted, rejectUnauthorized>>

-----------------------------------------------------------------------------
(* Specification *)

NetSteps == \/ \E watch \in BOOLEAN : Listen(watch)
            \/ \E s \in Streams : AddConnection(s)
            \/ Close \/ Abort \/ RunAbort \/ EmitServerClose

ServerTicks == \/ (RunAbort \/ EmitServerClose) /\ UNCHANGED <<rejectUnauthorized, sessions>>
               \/ \E s \in Streams : TlsConnection(s) \/ SessionCloses(s)

TlsServerNext ==
    \/ NetSteps /\ UNCHANGED <<rejectUnauthorized, sessions>>
    \/ \E s \in Streams : \/ TlsConnection(s) \/ NativeConnection(s)
                          \/ HandshakeDone(s) \/ HandshakeFails(s)
                          \/ TlsSocketGone(s) \/ DestroySession(s) \/ SessionCloses(s)

TlsServerSpec == TlsServerInit /\ [][TlsServerNext]_tlsServerVars

\* The ticks run. Nothing is assumed of the program or of the peers.
TlsServerFairness == WF_tlsServerVars(ServerTicks)

-----------------------------------------------------------------------------
(* Safety *)

\* The server hears of a connection that ended without an error exactly once,
\* although two sockets close for it, in either order, and the program may
\* destroy the outer one from the event itself; and it is told at most once
\* that a connection is secure.
OneTlsClientError ==
    \A s \in Streams : /\ sessions[s].clientErrors = (IF sessions[s].hangups > 0 THEN 1 ELSE 0)
                       /\ sessions[s].secures <= 1
=============================================================================
