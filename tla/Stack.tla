------------------------------- MODULE Stack -------------------------------
(***************************************************************************)
(* What lies below the HTTP layer: a client socket with or without TLS     *)
(* (TlsSocket over NetSocket), a TLS server (TlsServer over NetServer),    *)
(* the sessions the https Agent caches, and the check of a certificate's   *)
(* name. The four share no state, so a behaviour is one of either of them: *)
(* side says which, and the others stay where they began.                  *)
(***************************************************************************)
EXTENDS TlsSocket, TlsServer, SessionCache, ServerIdentity

VARIABLE side

stackVars == <<clientVars, tlsServerVars, cacheVars, identityVars, side>>

Sides == {"client", "server", "sessions", "identity"}

TypeOK == /\ side \in Sides
          /\ ClientTypeOK /\ TlsServerTypeOK /\ CacheTypeOK /\ IdentityTypeOK

\* One initial state of what does not run.
ClientRests == /\ sock = [lib |-> "node", listens |-> TRUE, destroyed |-> FALSE, failed |-> FALSE,
                          ended |-> FALSE, connects |-> 0, closes |-> 0, errors |-> 0,
                          uncaught |-> FALSE]
               /\ dial = [awaiting |-> "nothing", valid |-> TRUE, hops |-> 0, relays |-> <<>>]
               /\ tls = NewTls(FALSE, NoOptions)
ServerRests == server = NewServer("generic", "none") /\ rejectUnauthorized = TRUE
CacheRests == cache = [max |-> 0, map |-> [k \in Keys |-> NoTicket], list |-> <<>>]
IdentityRests == /\ hostname = CHOOSE h \in Hostnames : TRUE
                 /\ certificate = CHOOSE c \in AskedCertificates : TRUE

StackInit ==
    /\ side \in Sides
    /\ side = "client" \/ ClientRests
    /\ side = "server" \/ ServerRests
    /\ side = "sessions" \/ CacheRests
    /\ side = "identity" \/ IdentityRests
    /\ ClientInit /\ TlsServerInit /\ CacheInit /\ IdentityInit

StackNext ==
    \/ /\ side = "client" /\ ClientNext
       /\ UNCHANGED <<tlsServerVars, cacheVars, identityVars, side>>
    \/ /\ side = "server" /\ TlsServerNext
       /\ UNCHANGED <<clientVars, cacheVars, identityVars, side>>
    \/ /\ side = "sessions" /\ CacheNext
       /\ UNCHANGED <<clientVars, tlsServerVars, identityVars, side>>
    \/ /\ side = "identity" /\ IdentityNext
       /\ UNCHANGED <<clientVars, tlsServerVars, cacheVars, side>>

StackSpec == StackInit /\ [][StackNext]_stackVars

\* Fairness is that of the parts; it says nothing of a part that does not run.
FairStackSpec ==
    /\ StackSpec
    /\ WF_stackVars(/\ side = "client" /\ ClientProgress
                    /\ UNCHANGED <<tlsServerVars, cacheVars, identityVars, side>>)
    /\ WF_stackVars(/\ side = "server" /\ ServerTicks
                    /\ UNCHANGED <<clientVars, cacheVars, identityVars, side>>)
=============================================================================
