----------------------------- MODULE NetSocket -----------------------------
(***************************************************************************)
(* One socket of the net layer that connects out: the generic Socket       *)
(* (src/src/nets/generic/internals/socket.js), a Duplex over an inner      *)
(* stream, and the libp2p socket over it, whose internalConnect dials a    *)
(* node, hops over circuit relays and opens a stream at the last one.      *)
(*                                                                         *)
(* What 'connect' and data make the listeners of the socket write is a     *)
(* parameter (reply) of the actions, so that TlsSocket.tla can compose     *)
(* them with the TLS socket that listens.                                  *)
(***************************************************************************)
EXTENDS Naturals, Sequences, SequencesExt

CONSTANTS MaxHops,  \* relays the program may name in options.hops
          Items,    \* what may be written to the socket
          Signals   \* what the peer may send, the end of its data apart

ASSUME SocketAssumption == MaxHops \in Nat /\ "eof" \notin Signals

VARIABLES
    sock,    \* the socket as the program sees it
    dial,    \* how far internalConnect is
    stream,  \* the libp2p stream and the inner Duplex made of it
    tx,      \* the way from write() to the peer
    rx,      \* what the peer sent and the socket has not pulled yet
    ticks    \* callbacks of process.nextTick, first in first out

socketVars == <<sock, dial, stream, tx, rx, ticks>>

\* lib: the Duplex of Node calls the callback of a second destroy() without
\* the error, that of readable-stream (browsers) passes the error on.
SockType == [lib       : {"node", "readable"},
             listens   : BOOLEAN,    \* the program listens for 'error'
             destroyed : BOOLEAN,
             failed    : BOOLEAN,    \* destroyed with an error
             ended     : BOOLEAN,    \* 'end' was emitted
             connects  : 0..1,       \* 'connect' events emitted
             closes    : 0..1,       \* 'close' events emitted
             errors    : 0..2,       \* 'error' events emitted (2: or more)
             uncaught  : BOOLEAN]    \* an 'error' event had no listener

\* awaiting: the promise internalConnect waits for; it is over in "emitting"
\* (the 'connect' tick is queued), "done" and "failed".
DialType == [awaiting : {"nothing", "dial", "relayStream", "relayAnswer", "upgrade",
                         "stream", "emitting", "done", "failed"},
             valid    : BOOLEAN,        \* libp2p, multiaddr and proto are given
             hops     : 0..MaxHops,     \* options.hops.length
             relays   : Seq({"open", "carrying", "closed"})]

\* sink: the muxer takes what the socket writes; source: what the peer sends
\* comes ("failed": its iterator rejects).
StreamType == [state  : {"none", "open", "closed", "aborted"},
               sink   : BOOLEAN,
               source : {"open", "failed"}]

TxType == [handed  : Seq(Items),   \* everything written, in order (history)
           dropped : Nat,          \* writes acknowledged without a stream
           buffer  : Seq(Items),   \* waits in the Writable
           fifo    : Seq(Items),   \* the p-fifo, until the sink takes it
           taken   : BOOLEAN,      \* taken, but write()'s callback is to come
           acked   : Nat,          \* callbacks of write() called
           remote  : Seq(Items),   \* what the sink has taken, in order
           ended   : BOOLEAN]      \* the program called end()

RxType == [queue : Seq(Signals \cup {"eof"}), over : BOOLEAN]

NetTypeOK == /\ sock \in SockType
             /\ dial \in DialType
             /\ stream \in StreamType
             /\ tx \in TxType
             /\ rx \in RxType
             /\ ticks \in Seq({"connect", "close", "error", "written", "tlsClose"})

SocketInit ==
    /\ sock \in [lib : {"node", "readable"}, listens : BOOLEAN, destroyed : {FALSE},
                 failed : {FALSE}, ended : {FALSE}, connects : {0}, closes : {0},
                 errors : {0}, uncaught : {FALSE}]
    /\ sock.lib = "node" => sock.listens   \* Node's Duplex emits no 'error' here
    /\ dial \in [awaiting : {"nothing"}, valid : BOOLEAN, hops : 0..MaxHops, relays : {<<>>}]
    /\ dial.valid \/ dial.hops = 0
    /\ stream = [state |-> "none", sink |-> FALSE, source |-> "open"]
    /\ tx = [handed |-> <<>>, dropped |-> 0, buffer |-> <<>>, fifo |-> <<>>, taken |-> FALSE,
             acked |-> 0, remote |-> <<>>, ended |-> FALSE]
    /\ rx = [queue |-> <<>>, over |-> FALSE]
    /\ ticks = <<>>

-----------------------------------------------------------------------------
(* Writing: Socket._write, the inner Duplex and its p-fifo *)

Writing(t) == t.fifo # <<>> \/ t.taken

\* Variant: a write without a stream is put off instead of dropped.
StartWrite_Later(t, items) ==
    IF stream.state = "none"
    THEN [t EXCEPT !.acked = @ + Len(items), !.buffer = @ \o items]
    ELSE [t EXCEPT !.fifo = <<Head(items)>>, !.buffer = @ \o Tail(items)]

\* Variant: the write is acknowledged when it is in the fifo.
StartWrite_Ack(t, items) ==
    IF stream.state = "none"
    THEN [t EXCEPT !.acked = @ + Len(items), !.dropped = @ + Len(items)]
    ELSE [t EXCEPT !.acked = @ + 1, !.fifo = <<Head(items)>>, !.buffer = @ \o Tail(items)]

\* Nothing is being written: the first item goes to the fifo and the others
\* wait. Without a stream done() is called for each, and the data is gone.
StartWrite(t, items) ==
    IF stream.state = "none"
    THEN [t EXCEPT !.acked = @ + Len(items), !.dropped = @ + Len(items)]
    ELSE [t EXCEPT !.fifo = <<Head(items)>>, !.buffer = @ \o Tail(items)]

\* socket.write() of each item: one _write at a time, the rest waits in the
\* Writable.
Written(t, items) ==
    LET h == [t EXCEPT !.handed = @ \o items] IN
    IF Writing(t) THEN [h EXCEPT !.buffer = @ \o items] ELSE StartWrite(h, items)

\* What listeners write, in order. A destroyed socket refuses it.
WrittenAll(t, reply) == IF sock.destroyed \/ reply = <<>> THEN t ELSE Written(t, reply)

\* 'error' of a socket that is destroyed: an error nobody listens for is thrown.
AfterError(s) == IF s.listens THEN [s EXCEPT !.errors = IF @ = 2 THEN 2 ELSE @ + 1]
                 ELSE [s EXCEPT !.uncaught = TRUE]

\* The write of a destroyed socket: readable-stream emits 'error' at once.
AfterReply(s, reply) ==
    IF reply # <<>> /\ s.destroyed /\ s.lib = "readable" THEN AfterError(s) ELSE s

\* The muxer asks the iterator for the next chunk.
SinkTakes ==
    /\ stream.sink /\ tx.fifo # <<>>
    /\ tx' = [tx EXCEPT !.remote = Append(@, Head(tx.fifo)), !.fifo = Tail(@), !.taken = TRUE]
    /\ UNCHANGED <<sock, dial, stream, rx, ticks>>

\* push()'s promise resolves: done of both streams, and the next write.
WriteDone ==
    /\ tx.taken
    /\ LET t == [tx EXCEPT !.taken = FALSE, !.acked = @ + 1] IN
       tx' = IF sock.destroyed \/ tx.buffer = <<>> THEN t
             ELSE StartWrite([t EXCEPT !.buffer = Tail(@)], <<Head(tx.buffer)>>)
    /\ UNCHANGED <<sock, dial, stream, rx, ticks>>

-----------------------------------------------------------------------------
(* Ending *)

\* Variant: a destroyed socket can be destroyed again.
DestroyWith_Again(failed) ==
    /\ sock' = [sock EXCEPT !.destroyed = TRUE, !.failed = failed]
    /\ stream' = IF stream.state = "none" THEN stream ELSE [stream EXCEPT !.state = "closed"]
    /\ tx' = [tx EXCEPT !.buffer = <<>>]
    /\ ticks' = Append(ticks, "close")

\* Socket._destroy. The inner _destroy never calls back, so only the second
\* Duplex.prototype.destroy makes 'close' come. close() ends the source and
\* leaves the sink; abort() ends both. Of a socket that is destroyed already,
\* readable-stream still emits the error, after the 'close'.
DestroyWith(failed) ==
    IF sock.destroyed
    THEN /\ ticks' = IF failed /\ sock.lib = "readable" THEN Append(ticks, "error") ELSE ticks
         /\ UNCHANGED <<sock, stream, tx>>
    ELSE /\ sock' = [sock EXCEPT !.destroyed = TRUE, !.failed = failed]
         /\ stream' = IF stream.state = "none" THEN stream
                      ELSE IF failed THEN [stream EXCEPT !.state = "aborted", !.sink = FALSE]
                      ELSE [stream EXCEPT !.state = "closed"]
         /\ tx' = [tx EXCEPT !.buffer = <<>>]
         /\ ticks' = Append(ticks, "close")

\* The program destroys the socket, at any time.
DestroySocket ==
    /\ ~sock.destroyed
    /\ DestroyWith(FALSE)
    /\ UNCHANGED <<dial, rx>>

\* The program ends its side. There is no _final: the peer is not told.
EndSocket ==
    /\ ~tx.ended /\ ~sock.destroyed
    /\ tx' = [tx EXCEPT !.ended = TRUE]
    /\ UNCHANGED <<sock, dial, stream, rx, ticks>>

\* Node's streams destroy themselves when both sides have ended.
AutoDestroy ==
    /\ sock.lib = "node" /\ sock.ended /\ tx.ended /\ ~Writing(tx) /\ ~sock.destroyed
    /\ DestroyWith(FALSE)
    /\ UNCHANGED <<dial, rx>>

\* emitErrorAndCloseNT: an 'error' nobody listens for is thrown, and 'close'
\* is then not emitted.
AfterCloseTick(s) ==
    IF s.failed /\ s.lib = "readable"
    THEN IF s.listens THEN [s EXCEPT !.errors = IF @ = 2 THEN 2 ELSE @ + 1, !.closes = @ + 1]
                      ELSE [s EXCEPT !.uncaught = TRUE]
    ELSE [s EXCEPT !.closes = @ + 1]

EmitClose ==
    /\ ticks # <<>> /\ Head(ticks) = "close"
    /\ ticks' = Tail(ticks)
    /\ sock' = AfterCloseTick(sock)
    /\ UNCHANGED <<dial, stream, tx, rx>>

\* emitErrorNT, after a second destroy().
EmitError ==
    /\ ticks # <<>> /\ Head(ticks) = "error"
    /\ ticks' = Tail(ticks)
    /\ sock' = AfterError(sock)
    /\ UNCHANGED <<dial, stream, tx, rx>>

-----------------------------------------------------------------------------
(* Connecting: Libp2pSocket.internalConnect and getCircuitRelay *)

Awaits(p) == dial.awaiting = p

\* Variant: the socket is not told.
ConnectFails_Quiet(relays) ==
    /\ dial' = [dial EXCEPT !.awaiting = "failed", !.relays = relays]
    /\ UNCHANGED <<sock, stream, tx, rx, ticks>>

\* The catch of internalConnect, reached from every await and every throw.
ConnectFails(relays) ==
    /\ dial' = [dial EXCEPT !.awaiting = "failed", !.relays = relays]
    /\ DestroyWith(TRUE)
    /\ UNCHANGED rx

\* Goes on after the dial or after a hop: to the next relay or to the exit.
HopFrom(relays) ==
    /\ dial' = [dial EXCEPT !.relays = relays,
                   !.awaiting = IF Len(relays) < dial.hops THEN "relayStream" ELSE "stream"]
    /\ UNCHANGED <<sock, stream, tx, rx, ticks>>

Await(p, relays) ==
    /\ dial' = [dial EXCEPT !.awaiting = p, !.relays = relays]
    /\ UNCHANGED <<sock, stream, tx, rx, ticks>>

\* socket.connect(): missing options fail at once, inside the async function.
Connect ==
    /\ Awaits("nothing") /\ ~sock.destroyed
    /\ \/ dial.valid /\ Await("dial", <<>>)
       \/ ~dial.valid /\ ConnectFails(<<>>)

DialResolves == Awaits("dial") /\ HopFrom(<<>>)

\* connection.newStream(PROTOCOL) of one hop; createFromCID may throw after it.
RelayStreamOpens ==
    /\ Awaits("relayStream")
    /\ \/ Await("relayAnswer", Append(dial.relays, "open"))
       \/ ConnectFails(Append(dial.relays, "open"))

WithLast(relays, state) == [relays EXCEPT ![Len(relays)] = state]

\* Variant: a relay that refuses is left out of the path.
RelayAnswers_Skip ==
    /\ Awaits("relayAnswer")
    /\ \/ Await("upgrade", WithLast(dial.relays, "carrying"))
       \/ HopFrom(dial.relays)
       \/ ConnectFails(WithLast(dial.relays, "closed"))

\* streamHandler.read(): SUCCESS makes the relay stream the connection. Any
\* other answer makes `connection` undefined, which the next use throws on,
\* and leaves the relay stream open; only the end of data closes it.
RelayAnswers ==
    /\ Awaits("relayAnswer")
    /\ \/ Await("upgrade", WithLast(dial.relays, "carrying"))
       \/ ConnectFails(dial.relays)
       \/ ConnectFails(WithLast(dial.relays, "closed"))

UpgradeResolves == Awaits("upgrade") /\ HopFrom(dial.relays)

\* connection.newStream(proto): the stream is installed and 'connect' comes,
\* also when the socket was destroyed during an await; or there is no stream.
StreamOpens ==
    /\ Awaits("stream")
    /\ \/ /\ dial' = [dial EXCEPT !.awaiting = "emitting"]
          /\ stream' = [stream EXCEPT !.state = "open", !.sink = TRUE]
          /\ ticks' = Append(ticks, "connect")
          /\ UNCHANGED <<sock, tx, rx>>
       \/ ConnectFails(dial.relays)

\* Any of the awaited promises rejects.
AwaitRejects ==
    /\ dial.awaiting \in {"dial", "relayStream", "relayAnswer", "upgrade", "stream"}
    /\ ConnectFails(dial.relays)

\* The 'connect' tick; reply is what the listeners write.
EmitConnect(reply) ==
    /\ ticks # <<>> /\ Head(ticks) = "connect"
    /\ ticks' = Tail(ticks)
    /\ dial' = [dial EXCEPT !.awaiting = "done"]
    /\ sock' = AfterReply([sock EXCEPT !.connects = 1], reply)
    /\ tx' = WrittenAll(tx, reply)
    /\ UNCHANGED <<stream, rx>>

-----------------------------------------------------------------------------
(* Reading: the inner Duplex pulls the source and pushes into the socket *)

PeerSends(signal) ==
    /\ stream.state # "none" /\ stream.source = "open" /\ ~rx.over
    /\ rx' = [queue |-> Append(rx.queue, signal), over |-> signal = "eof"]
    /\ UNCHANGED <<sock, dial, stream, tx, ticks>>

Pulls == /\ stream.state = "open" /\ stream.source = "open" /\ rx.queue # <<>>
         /\ rx' = [rx EXCEPT !.queue = Tail(@)]

\* source.next() resolves with data: push, 'data', what its listeners write.
\* A socket that was destroyed before the stream came takes no data.
Pull(reply) ==
    /\ Pulls /\ Head(rx.queue) # "eof"
    /\ sock' = AfterReply(sock, reply)
    /\ tx' = WrittenAll(tx, reply)
    /\ UNCHANGED <<dial, stream>>

\* source.next() resolves with done: push(null), 'end'.
PullEnd ==
    /\ Pulls /\ Head(rx.queue) = "eof"
    /\ sock' = [sock EXCEPT !.ended = ~sock.destroyed]
    /\ UNCHANGED <<dial, stream, tx, ticks>>

\* The stream is reset. The rejection of source.next() is nobody's, and
\* return() of the sink's iterator looks for `stream` on the iterator: the
\* socket is not told.
PeerResets ==
    /\ stream.state # "none" /\ stream.source = "open"
    /\ stream' = [stream EXCEPT !.source = "failed", !.sink = FALSE]
    /\ UNCHANGED <<sock, dial, tx, rx, ticks>>

-----------------------------------------------------------------------------
(* A socket that is used without TLS *)

ProgramWrites(item) ==
    /\ ~tx.ended /\ ~sock.destroyed
    /\ tx' = Written(tx, <<item>>)
    /\ UNCHANGED <<sock, dial, stream, rx, ticks>>

\* What happens to the socket whoever listens to it.
SocketSteps ==
    \/ Connect \/ DialResolves \/ RelayStreamOpens \/ RelayAnswers \/ UpgradeResolves
    \/ StreamOpens \/ AwaitRejects
    \/ SinkTakes \/ WriteDone
    \/ DestroySocket \/ AutoDestroy \/ EmitError
    \/ PeerResets

SocketNext ==
    \/ SocketSteps
    \/ EmitConnect(<<>>) \/ EmitClose
    \/ Pull(<<>>) /\ UNCHANGED ticks
    \/ PullEnd
    \/ EndSocket
    \/ \E item \in Items : ProgramWrites(item)
    \/ \E signal \in Signals \cup {"eof"} : PeerSends(signal)

SocketSpec == SocketInit /\ [][SocketNext]_socketVars

-----------------------------------------------------------------------------
(* Safety *)

\* Data goes to the node the program named and to no other: a stream exists
\* only when every relay of options.hops carries it. A relay that refuses, an
\* answer that cannot be read or a destroyed socket never shortens the path.
StreamAtExit ==
    stream.state # "none" =>
        dial.valid /\ Len(dial.relays) = dial.hops /\ \A i \in DOMAIN dial.relays :
                                                         dial.relays[i] = "carrying"

\* Through two Writables, the fifo and the muxer, and across connect, nothing
\* is reordered, repeated or lost in the middle: what the peer gets is what was
\* written, without the writes of before the stream, which are a beginning of it.
DeliveredInOrder ==
    LET kept == SubSeq(tx.handed, tx.dropped + 1, Len(tx.handed))
        sent == tx.remote \o tx.fifo
    IN IF sock.destroyed THEN IsPrefix(sent, kept) ELSE sent \o tx.buffer = kept

\* A write is acknowledged only when the muxer took it (or when there was no
\* stream), and one write at most is on its way: the backpressure of the peer
\* reaches the program.
AckedIsTaken == tx.acked <= tx.dropped + Len(tx.remote) /\ Len(tx.fifo) <= 1
=============================================================================
