----------------------------- MODULE TlsSocket -----------------------------
(***************************************************************************)
(* A client socket: the net socket of NetSocket.tla, used as it is or      *)
(* under a TLSSocket (src/src/tls/internals/socket.js), which buffers what *)
(* the program writes until the handshake is over. The TLS protocol itself *)
(* is node-forge's: the handshake is two flights of the client, and the    *)
(* certificate and the finished message of the peer.                       *)
(***************************************************************************)
EXTENDS NetSocket

CONSTANTS Chunks,      \* how many times the program writes (bound)
          TlsOptions,  \* options of tls.connect, see AllTlsOptions
          Certificates \* what the peer may present, see AllCertificates

\* Which of options.rootCertificates, options.host and rejectUnauthorized are
\* given and true.
AllTlsOptions == [roots : BOOLEAN, servername : BOOLEAN, reject : BOOLEAN]

\* A good chain and the name of the host, a good chain for another name, a bad
\* chain.
AllCertificates == {"trusted", "otherName", "untrusted"}

Flight(n) == <<"flight", n>>
App(n) == <<"app", n>>
Alert == <<"alert", 0>>

ASSUME TlsAssumption ==
    /\ Chunks \in Nat
    /\ TlsOptions \subseteq AllTlsOptions /\ Certificates \subseteq AllCertificates
    /\ Items = {Flight(1), Flight(2), Alert} \cup {App(n) : n \in 1..Chunks}
    /\ Signals = Certificates \cup {"finished", "data", "alert", "closeNotify"}

VARIABLES
    tls,   \* the TLSSocket
    peer   \* the peer: the certificate it presented, and what it sent last

clientVars == <<socketVars, tls, peer>>

TlsType ==
    [used      : BOOLEAN,              \* the program uses TLS on this socket
     options   : AllTlsOptions,
     phase     : {"none", "waiting", "broken", "handshaking", "verified", "connected", "closed"},
     secure    : BOOLEAN,              \* _secureEstablished
     secures   : 0..1,                 \* 'secure' events, each a 'secureConnect'
     pending   : Seq(1..Chunks),       \* _chunks
     buffer    : Seq(1..Chunks),       \* waits in the Writable
     writing   : BOOLEAN,              \* a _write has not called back
     written   : 0..Chunks,            \* writes of the program
     sent      : Seq(1..Chunks),       \* what ssl.prepare got
     ended     : BOOLEAN,              \* end() was called, by `closed`
     destroyed : BOOLEAN,
     errors    : 0..1,                 \* 'error' events
     closes    : 0..2]                 \* 'close' events

PeerType == [certificate : AllCertificates \cup {"none"},
             said : {"nothing", "certificate", "finished", "data", "over"}]

ClientTypeOK == NetTypeOK /\ tls \in TlsType /\ peer \in PeerType

NoOptions == [roots |-> FALSE, servername |-> FALSE, reject |-> FALSE]

NewTls(used, options) ==
    [used |-> used, options |-> options, phase |-> "none", secure |-> FALSE, secures |-> 0,
     pending |-> <<>>, buffer |-> <<>>, writing |-> FALSE, written |-> 0, sent |-> <<>>,
     ended |-> FALSE, destroyed |-> FALSE, errors |-> 0, closes |-> 0]

ClientInit ==
    /\ SocketInit
    /\ tls \in {NewTls(TRUE, o) : o \in TlsOptions} \cup {NewTls(FALSE, NoOptions)}
    /\ peer = [certificate |-> "none", said |-> "nothing"]

-----------------------------------------------------------------------------
(* The program and the TLSSocket *)

\* Variant: init runs in the constructor.
Wrap_AtOnce ==
    /\ tls.used /\ tls.phase = "none" /\ ~sock.destroyed
    /\ tls' = [tls EXCEPT !.phase = "handshaking"]
    /\ tx' = WrittenAll(tx, <<Flight(1)>>)
    /\ UNCHANGED <<sock, dial, stream, rx, ticks, peer>>

\* new TLSSocket(socket): a generic socket has no readyState, so init waits for
\* its 'connect', also when that was emitted before.
Wrap ==
    /\ tls.used /\ tls.phase = "none"
    /\ tls' = [tls EXCEPT !.phase = "waiting"]
    /\ UNCHANGED <<socketVars, peer>>

\* Variant: the chunks stay in _chunks and are written again with the next.
Flush_Kept(t) == [t EXCEPT !.sent = @ \o t.pending]

\* _writePending.
Flush(t) == [t EXCEPT !.sent = @ \o t.pending, !.pending = <<>>]

Records(chunks) == [i \in DOMAIN chunks |-> App(chunks[i])]

\* Variant: written at once, whatever _secureEstablished says.
TlsWrite_AtOnce ==
    /\ tls.phase # "none" /\ ~tls.ended /\ ~tls.destroyed /\ tls.written < Chunks
    /\ tls' = [tls EXCEPT !.written = @ + 1, !.writing = TRUE, !.sent = Append(@, tls.written + 1)]
    /\ tx' = WrittenAll(tx, <<App(tls.written + 1)>>)
    /\ sock' = AfterReply(sock, <<App(tls.written + 1)>>)
    /\ ticks' = Append(ticks, "written")
    /\ UNCHANGED <<dial, stream, rx, peer>>

\* _write: before the handshake is over the chunk stays in _chunks and the
\* callback with it, so what the program writes next waits in the Writable.
TlsWrite ==
    LET n == tls.written + 1
        w == [tls EXCEPT !.written = n, !.writing = TRUE]
    IN
    /\ tls.phase # "none" /\ ~tls.ended /\ ~tls.destroyed /\ tls.written < Chunks
    /\ \/ /\ tls.writing
          /\ tls' = [w EXCEPT !.buffer = Append(@, n)]
          /\ UNCHANGED <<sock, tx, ticks>>
       \/ /\ ~tls.writing /\ ~tls.secure
          /\ tls' = [w EXCEPT !.pending = Append(@, n)]
          /\ UNCHANGED <<sock, tx, ticks>>
       \/ /\ ~tls.writing /\ tls.secure
          /\ tls' = [Flush(w) EXCEPT !.sent = Append(@, n)]
          /\ tx' = WrittenAll(tx, Append(Records(tls.pending), App(n)))
          /\ sock' = AfterReply(sock, <<App(n)>>)
          /\ ticks' = ticks \o [i \in 1..Len(tls.pending) + 1 |-> "written"]
    /\ UNCHANGED <<dial, stream, rx, peer>>

\* The nextTick of _writenow: the callback, and the next chunk of the Writable.
TlsWritten ==
    /\ ticks # <<>> /\ Head(ticks) = "written"
    /\ \/ /\ tls.buffer = <<>> \/ tls.destroyed
          /\ tls' = [tls EXCEPT !.writing = FALSE]
          /\ ticks' = Tail(ticks)
          /\ UNCHANGED <<sock, tx>>
       \/ /\ tls.buffer # <<>> /\ ~tls.destroyed
          /\ tls' = [tls EXCEPT !.buffer = Tail(@), !.sent = Append(@, Head(tls.buffer))]
          /\ ticks' = Append(Tail(ticks), "written")
          /\ tx' = WrittenAll(tx, <<App(Head(tls.buffer))>>)
          /\ sock' = AfterReply(sock, <<App(Head(tls.buffer))>>)
    /\ UNCHANGED <<dial, stream, rx, peer>>

\* There is no _destroy: the socket below is left as it is.
TlsDestroy ==
    /\ tls.phase # "none" /\ ~tls.destroyed
    /\ tls' = [tls EXCEPT !.destroyed = TRUE, !.buffer = <<>>]
    /\ ticks' = Append(ticks, "tlsClose")
    /\ UNCHANGED <<sock, dial, stream, tx, rx, peer>>

Closed(t) == [t EXCEPT !.closes = IF @ = 2 THEN 2 ELSE @ + 1]

TlsEmitClose ==
    /\ ticks # <<>> /\ Head(ticks) = "tlsClose"
    /\ ticks' = Tail(ticks)
    /\ tls' = Closed(tls)
    /\ UNCHANGED <<sock, dial, stream, tx, rx, peer>>

-----------------------------------------------------------------------------
(* The handshake: init and the callbacks it gives to forge *)

\* The check at the start of init.
InitThrows == LET o == tls.options IN ~o.roots /\ ~o.servername /\ ~o.reject

\* checkServerIdentity returns true or an Error object.
Identity(certificate) == IF certificate = "otherName" THEN "Error" ELSE "true"

\* verify tests !checkServerIdentity(...), and an Error object is not falsy.
NameRefused(certificate) == Identity(certificate) = "false"

\* sslOptions.verify for the certificate of the peer, and forge's own verdict.
Accepts(o, certificate) ==
    \/ ~o.reject \/ ~o.servername
    \/ certificate # "untrusted" /\ ~NameRefused(certificate)

\* The 'connect' tick, with the TLSSocket's onConnect among its listeners.
TlsConnect ==
    \/ /\ tls.phase = "waiting" /\ ~InitThrows
       /\ EmitConnect(<<Flight(1)>>)
       /\ tls' = [tls EXCEPT !.phase = "handshaking"]
       /\ UNCHANGED peer
    \/ /\ tls.phase = "waiting" /\ InitThrows
       /\ EmitConnect(<<>>)
       /\ tls' = [tls EXCEPT !.phase = "broken"]
       /\ UNCHANGED peer
    \/ /\ tls.phase # "waiting"
       /\ EmitConnect(<<>>)
       /\ UNCHANGED <<tls, peer>>

Handshaking == tls.phase \in {"handshaking", "verified"}
Session == Handshaking \/ tls.phase = "connected"
Arriving == IF rx.queue = <<>> THEN "nothing" ELSE Head(rx.queue)

\* forge ends the connection: an alert goes out and `closed` calls end().
Shut(t) == [t EXCEPT !.phase = "closed", !.ended = TRUE]

CertificateArrives ==
    /\ Arriving \in Certificates /\ tls.phase = "handshaking"
    /\ \/ /\ Accepts(tls.options, peer.certificate)
          /\ tls' = [tls EXCEPT !.phase = "verified"]
          /\ Pull(<<Flight(2)>>)
       \/ /\ ~Accepts(tls.options, peer.certificate)
          /\ tls' = [Shut(tls) EXCEPT !.errors = 1]
          /\ Pull(<<Alert>>)
    /\ UNCHANGED <<ticks, peer>>

\* `connected`: what was written before is encrypted now, then 'secure', also
\* when the TLSSocket was destroyed in the meantime.
FinishedArrives ==
    /\ Arriving = "finished" /\ tls.phase = "verified"
    /\ tls' = [Flush(tls) EXCEPT !.phase = "connected", !.secure = TRUE, !.secures = 1]
    /\ Pull(Records(tls.pending))
    /\ ticks' = ticks \o [i \in DOMAIN tls.pending |-> "written"]
    /\ UNCHANGED peer

DataArrives ==
    /\ Arriving = "data" /\ tls.phase = "connected"
    /\ Pull(<<>>)
    /\ UNCHANGED <<ticks, tls, peer>>

AlertArrives ==
    /\ Arriving = "alert" /\ Session
    /\ tls' = [Shut(tls) EXCEPT !.errors = 1]
    /\ Pull(<<Alert>>)
    /\ UNCHANGED <<ticks, peer>>

CloseNotifyArrives ==
    /\ Arriving = "closeNotify" /\ tls.phase = "connected"
    /\ tls' = Shut(tls)
    /\ Pull(<<Alert>>)
    /\ UNCHANGED <<ticks, peer>>

\* forge has no connection any more; the end of the socket below is not looked at.
IgnoredArrives ==
    /\ tls.phase = "closed"
    /\ Pull(<<>>)
    /\ UNCHANGED <<ticks, tls, peer>>

EndArrives ==
    /\ tls.phase \notin {"none", "waiting", "broken"}
    /\ PullEnd
    /\ UNCHANGED <<tls, peer>>

\* Variant: the TLSSocket does not hear of it.
TlsSocketCloses_Unheard == EmitClose /\ UNCHANGED <<tls, peer>>

\* 'close' of the socket below is 'close' of the TLSSocket.
TlsSocketCloses ==
    /\ EmitClose
    /\ tls' = IF tls.phase # "none" /\ sock'.closes = 1 THEN Closed(tls) ELSE tls
    /\ UNCHANGED peer

-----------------------------------------------------------------------------
(* The TLS peer *)

PeerSays(signal, said) ==
    /\ PeerSends(signal)
    /\ peer' = [peer EXCEPT !.said = said]
    /\ UNCHANGED tls

Got(item) == \E i \in DOMAIN tx.remote : tx.remote[i] = item

PeerAnswers ==
    \/ /\ peer.said = "nothing" /\ Got(Flight(1))
       /\ \E c \in Certificates : /\ PeerSends(c)
                                 /\ peer' = [certificate |-> c, said |-> "certificate"]
       /\ UNCHANGED tls
    \/ peer.said = "certificate" /\ Got(Flight(2)) /\ PeerSays("finished", "finished")

PeerTalks ==
    \/ peer.said = "finished" /\ PeerSays("data", "data")
    \/ peer.said \in {"finished", "data"} /\ PeerSays("closeNotify", "over")
    \/ peer.said \in {"nothing", "certificate"} /\ Got(Flight(1)) /\ PeerSays("alert", "over")
    \/ peer.said # "over" /\ PeerSays("eof", "over")

-----------------------------------------------------------------------------
(* Specification *)

\* A socket without TLS: the peer sends once and ends.
Plain ==
    \/ EmitConnect(<<>>) /\ UNCHANGED <<tls, peer>>
    \/ EmitClose /\ UNCHANGED <<tls, peer>>
    \/ Pull(<<>>) /\ UNCHANGED <<ticks, tls, peer>>
    \/ PullEnd /\ UNCHANGED <<tls, peer>>
    \/ EndSocket /\ UNCHANGED <<tls, peer>>
    \/ Len(tx.handed) < Chunks /\ ProgramWrites(App(Len(tx.handed) + 1)) /\ UNCHANGED <<tls, peer>>
    \/ peer.said = "nothing" /\ PeerSays("data", "data")
    \/ peer.said # "over" /\ PeerSays("eof", "over")

Secured ==
    \/ Wrap \/ TlsWrite \/ TlsWritten \/ TlsDestroy \/ TlsEmitClose
    \/ TlsConnect \/ TlsSocketCloses
    \/ CertificateArrives \/ FinishedArrives \/ DataArrives \/ AlertArrives
    \/ CloseNotifyArrives \/ IgnoredArrives \/ EndArrives
    \/ PeerAnswers \/ PeerTalks

ClientNext ==
    \/ SocketSteps /\ UNCHANGED <<tls, peer>>
    \/ ~tls.used /\ Plain
    \/ tls.used /\ Secured

ClientSpec == ClientInit /\ [][ClientNext]_clientVars

\* Promises settle, ticks run, the muxer takes what is written and the peer
\* answers the flights. Nothing is assumed of the program.
Settles == DialResolves \/ RelayStreamOpens \/ RelayAnswers \/ UpgradeResolves \/ StreamOpens
           \/ AwaitRejects

Handled == \/ TlsConnect \/ TlsSocketCloses \/ TlsWritten \/ TlsEmitClose
           \/ CertificateArrives \/ FinishedArrives \/ DataArrives \/ AlertArrives
           \/ PeerAnswers

ClientProgress == \/ (Settles \/ SinkTakes \/ WriteDone \/ EmitError) /\ UNCHANGED <<tls, peer>>
                  \/ ~tls.used /\ (EmitConnect(<<>>) \/ EmitClose) /\ UNCHANGED <<tls, peer>>
                  \/ tls.used /\ Handled

ClientFairness == WF_clientVars(ClientProgress)

-----------------------------------------------------------------------------
(* Safety *)

IsApp(item) == item[1] = "app"

\* The net socket drops what is written before its stream exists; the TLSSocket
\* never writes then, although the program may: init waits for 'connect', and
\* 'connect' comes after the stream. So under TLS nothing is dropped.
TlsLosesNothing == tls.used => tx.dropped = 0

AppsUpTo(i) == Cardinality({j \in 1..i : IsApp(tx.handed[j])})

\* Application data goes out only after both flights of the handshake, in the
\* order of the writes, each chunk once, whatever was buffered, destroyed or
\* refused meanwhile. (Nothing is claimed of the peer's certificate: see Identity.)
AppDataAfterHandshake ==
    tls.used =>
        /\ \A i \in DOMAIN tx.handed :
              IsApp(tx.handed[i]) => /\ i > 2
                                     /\ tx.handed[1] = Flight(1) /\ tx.handed[2] = Flight(2)
        /\ \A i \in DOMAIN tls.sent : tls.sent[i] = i
        /\ \A i \in DOMAIN tx.handed : IsApp(tx.handed[i]) =>
              /\ AppsUpTo(i) <= Len(tls.sent)
              /\ tx.handed[i] = App(tls.sent[AppsUpTo(i)])

-----------------------------------------------------------------------------
(* Liveness *)

\* connect() ends: with 'connect', with 'close', or with an 'error' that nobody
\* listens for; whatever is rejected, refused or destroyed on the way.
ConnectSettles ==
    dial.awaiting # "nothing" ~> sock.connects = 1 \/ sock.closes = 1 \/ sock.uncaught

\* A TLSSocket around a socket that has not connected yet becomes secure or the
\* program hears of the failure; unless the stream is reset or ended by the
\* peer, which nobody reports.
HandshakeSettles ==
    (tls.phase = "waiting" /\ sock.connects = 0 /\ sock.closes = 0 /\ dial.awaiting # "nothing")
        ~> \/ tls.secure \/ tls.errors > 0 \/ tls.closes > 0 \/ tls.phase = "broken" \/ sock.uncaught
           \/ stream.source = "failed" \/ rx.over
=============================================================================
