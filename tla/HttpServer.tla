----------------------------- MODULE HttpServer -----------------------------
(***************************************************************************)
(* One connection of an HTTP server (src/src/http/common/server.js): the   *)
(* requests its parser delivers, the responses the program writes in any   *)
(* order, and the pipeline that puts them on the socket one after another  *)
(* (src/src/http/common/outgoing.js), with backpressure and timers.        *)
(*                                                                         *)
(* The handlers call each other synchronously (the end of one response     *)
(* flushes the next, which resumes the parser), so each function is an     *)
(* operator from a world to a world, as in Agent.tla.                      *)
(***************************************************************************)
EXTENDS Integers, Sequences, FiniteSets

CONSTANTS N,                 \* requests the client may send
          MaxWrites,         \* res.write() calls per response (bound)
          HighWaterMark,     \* of the socket and of a response, in writes
          HttpAllowHalfOpen, \* server.httpAllowHalfOpen
          RequestTimeout,    \* server.requestTimeout is not 0
          Early,             \* responses may end before their request does
          Kinds,             \* which requests come: see AllKinds
          Buffers,           \* whether write() gets Buffers: subset of BOOLEAN
          Events             \* which of AllEvents may happen

\* "continue": Expect: 100-continue; "expectation": any other Expect.
AllKinds == {"plain", "continue", "expectation"}
AllEvents == {"fin", "reset", "garbage", "upgrade", "idle", "slow", "destroy", "close"}

ASSUME ServerAssumption ==
    /\ N \in Nat /\ MaxWrites \in Nat
    /\ HighWaterMark \in Nat \ {0}
    /\ HttpAllowHalfOpen \in BOOLEAN /\ RequestTimeout \in BOOLEAN /\ Early \in BOOLEAN
    /\ Kinds \subseteq AllKinds
    /\ Buffers \subseteq BOOLEAN
    /\ Events \subseteq AllEvents

VARIABLES sock,    \* the socket (see SockType)
          srv,     \* state of connectionListenerInternal (see SrvType)
          parser,  \* the HTTPParser (see ParserType)
          req,     \* the IncomingMessages
          res,     \* the ServerResponses
          closing, \* responses for which a tick of emitCloseNT is queued
          wire,    \* what the socket has sent
          failed   \* an assert of the code failed

vars == <<sock, srv, parser, req, res, closing, wire, failed>>

P == INSTANCE Pipeline WITH received <- parser.arrived, wire <- wire,
                            open <- sock.state \in {"open", "ended"}

Messages == 1..N
NoMessage == 0
Pieces == [of : 0..N, part : P!Parts]

SockType == [state     : {"open", "ended", "destroyed", "closed"},
             buf       : Seq(Pieces),            \* written, not yet sent
             needDrain : BOOLEAN,                \* _writableState.needDrain
             paused    : BOOLEAN,                \* _paused
             message   : 0..N,                   \* _httpMessage
             peerEnded : BOOLEAN,
             timer     : BOOLEAN]                \* socket[kRequestTimeout]

SrvType == [incoming : Seq(Messages), outgoing : Seq(Messages), outgoingData : Int,
            keepAliveTimeoutSet : BOOLEAN]

\* executing: the parser is inside a chunk, so no other event can run;
\* phase: where it is in a message, or why it reads no more.
ParserType == [arrived : 0..N, executing : BOOLEAN,
               phase : {"idle", "head", "body", "upgraded", "failed", "gone"}]

ReqType == [kind     : AllKinds,
            complete : BOOLEAN,
            ended    : BOOLEAN,    \* read to its 'end'
            aborted  : BOOLEAN,
            timer    : BOOLEAN]    \* req[kRequestTimeout]

ResType == [keep      : BOOLEAN,       \* shouldKeepAlive
            last      : BOOLEAN,       \* _last
            header    : BOOLEAN,       \* _header is made and sent
            writes    : 0..MaxWrites,
            output    : Seq(Pieces),   \* outputData; its length is outputSize
            needDrain : BOOLEAN,       \* kNeedDrain
            finished  : BOOLEAN,       \* end() was called
            destroyed : BOOLEAN,
            closed    : BOOLEAN]       \* 'close' was emitted

Init == /\ sock = [state |-> "open", buf |-> <<>>, needDrain |-> FALSE, paused |-> FALSE,
                   message |-> NoMessage, peerEnded |-> FALSE, timer |-> RequestTimeout]
        /\ srv = [incoming |-> <<>>, outgoing |-> <<>>, outgoingData |-> 0,
                  keepAliveTimeoutSet |-> FALSE]
        /\ parser = [arrived |-> 0, executing |-> FALSE, phase |-> "idle"]
        /\ req = [r \in Messages |-> [kind |-> "plain", complete |-> FALSE, ended |-> FALSE,
                                      aborted |-> FALSE, timer |-> FALSE]]
        /\ res = [r \in Messages |-> [keep |-> TRUE, last |-> FALSE, header |-> FALSE,
                                      writes |-> 0, output |-> <<>>, needDrain |-> FALSE,
                                      finished |-> FALSE, destroyed |-> FALSE,
                                      closed |-> FALSE]]
        /\ closing = {}
        /\ wire = <<>>
        /\ failed = FALSE

World == [sock |-> sock, srv |-> srv, req |-> req, res |-> res, closing |-> closing,
          failed |-> failed]

Become(w) == /\ sock' = w.sock
             /\ srv' = w.srv
             /\ req' = w.req
             /\ res' = w.res
             /\ closing' = w.closing
             /\ failed' = w.failed

Arrived == 1..parser.arrived
Alive(w) == w.sock.state \in {"open", "ended"}

----------------------------------------------------------------------------
\* The socket.

DestroySocket(w) == IF Alive(w) THEN [w EXCEPT !.sock.state = "destroyed"] ELSE w

\* Variant: a state no handler knows.
EndSocket_Odd(w) == IF w.sock.state = "open" THEN [w EXCEPT !.sock.state = "ending"] ELSE w

\* end() and destroySoon()
EndSocket(w) == IF w.sock.state = "open" THEN [w EXCEPT !.sock.state = "ended"] ELSE w

SocketWrite(w, pieces) ==
    LET buf == w.sock.buf \o pieces
    IN  [w EXCEPT !.sock.buf = buf,
                  !.sock.needDrain = @ \/ Len(buf) >= HighWaterMark]

----------------------------------------------------------------------------
\* Backpressure.

\* Variant: reading is not resumed.
SocketOnDrain_MessageOnly(w) ==
    LET m == w.sock.message
    IN  [w EXCEPT !.res = IF m # NoMessage /\ ~w.res[m].finished
                          THEN [@ EXCEPT ![m].needDrain = FALSE] ELSE @]

\* Variant: the response in progress is not told.
SocketOnDrain_ResumeOnly(w) ==
    [w EXCEPT !.sock.paused = @ /\ w.srv.outgoingData > HighWaterMark]

\* socketOnDrain: read again, and tell the response in progress.
SocketOnDrain(w) ==
    LET m == w.sock.message
    IN  [w EXCEPT !.sock.paused = @ /\ w.srv.outgoingData > HighWaterMark,
                  !.res = IF m # NoMessage /\ ~w.res[m].finished
                          THEN [@ EXCEPT ![m].needDrain = FALSE] ELSE @]

\* _onPendingData of every response
UpdateOutgoingData(w, delta) ==
    SocketOnDrain([w EXCEPT !.srv.outgoingData = @ + delta])

\* Variant: the counter still holds what was flushed.
FlushOutput_NotCounted(w, r) ==
    LET out == w.res[r].output
    IN  IF out = <<>> THEN w ELSE [SocketWrite(w, out) EXCEPT !.res[r].output = <<>>]

\* _flushOutput: what the response has queued goes to the socket.
FlushOutput(w, r) ==
    LET out == w.res[r].output
    IN  IF out = <<>> THEN w
        ELSE UpdateOutgoingData([SocketWrite(w, out) EXCEPT !.res[r].output = <<>>],
                                -Len(out))

\* Variant: to the socket whenever it is open.
WriteRaw_NoTurn(w, r, piece) ==
    IF ~Alive(w) THEN w
    ELSE IF w.sock.state = "open" THEN SocketWrite(FlushOutput(w, r), <<piece>>)
    ELSE UpdateOutgoingData([w EXCEPT !.res[r].output = Append(@, piece)], 1)

\* _writeRaw: to the socket if it is this response's turn, else to its queue.
WriteRaw(w, r, piece) ==
    IF w.sock.message = r /\ ~Alive(w) THEN w
    ELSE IF w.sock.message = r /\ w.sock.state = "open"
    THEN SocketWrite(FlushOutput(w, r), <<piece>>)
    ELSE UpdateOutgoingData([w EXCEPT !.res[r].output = Append(@, piece)], 1)

\* What _writeRaw returns: may the program go on writing?
WriteRet(w, r) ==
    /\ w.sock.message = r => Alive(w)
    /\ IF w.sock.message = r /\ w.sock.state = "open"
       THEN Len(w.sock.buf) < HighWaterMark
       ELSE Len(w.res[r].output) < HighWaterMark

\* _storeHeader: a response that is not kept alive is the last one.
StoreHeader(w, r) == [w EXCEPT !.res[r].header = TRUE, !.res[r].last = @ \/ ~w.res[r].keep]

\* _send of a chunk.  The first one takes the header with it if it is a string;
\* before a Buffer the header is put in front of the queue.
Send(w, r, buffer, part, whole) ==
    IF w.res[r].header THEN WriteRaw(w, r, P!Piece(r, part))
    ELSE IF buffer
    THEN WriteRaw(UpdateOutgoingData([StoreHeader(w, r) EXCEPT
                                         !.res[r].output = <<P!Piece(r, "head")>> \o @], 1),
                  r, P!Piece(r, part))
    ELSE WriteRaw(StoreHeader(w, r), r, P!Piece(r, whole))

WriteResponse(w, r, buffer) ==
    LET sent == Send(w, r, buffer, "data", "head")
    IN  [sent EXCEPT !.res[r].writes = @ + 1,
                     !.res[r].needDrain = @ \/ ~WriteRet(sent, r)]

EndResponse(w, r) == [Send(w, r, FALSE, "end", "whole") EXCEPT !.res[r].finished = TRUE]

----------------------------------------------------------------------------
\* The pipeline.

\* Variant: what the response queued before its turn stays there.
AssignSocket_NoFlush(w, r) == [w EXCEPT !.sock.message = r]

\* assignSocket: the response's turn has come.  One that was destroyed while it
\* waited destroys the socket (its 'socket' listener); then _flush.
AssignSocket(w, r) ==
    LET assigned == [w EXCEPT !.sock.message = r,
                              !.failed = @ \/ w.sock.message # NoMessage]
        told == IF w.res[r].destroyed THEN DestroySocket(assigned) ELSE assigned
        flushed == FlushOutput(told, r)
    IN  IF told.sock.state # "open" THEN told
        ELSE IF ~w.res[r].finished /\ w.res[r].output # <<>> /\ WriteRet(flushed, r)
        THEN [flushed EXCEPT !.res[r].needDrain = FALSE]
        ELSE flushed

\* 'finish' of a response, first half of resOnFinish: detach it.
Detached(w, r) ==
    LET in == w.srv.incoming
    IN  [w EXCEPT !.failed = @ \/ (in # <<>> /\ Head(in) # r) \/ w.sock.message # r,
                  !.srv.incoming = IF in = <<>> THEN in ELSE Tail(in),
                  !.req[r].timer = FALSE,
                  !.sock.message = NoMessage,
                  !.closing = @ \cup {r}]

\* Variant: the idle connection gets no timer.
TurnToNext_NoTimer(w, r) ==
    IF w.res[r].last THEN EndSocket(w)
    ELSE IF w.srv.outgoing = <<>> THEN w
    ELSE AssignSocket([w EXCEPT !.srv.outgoing = Tail(@)], Head(w.srv.outgoing))

\* Second half: close after the last response, idle, or turn to the next one.
TurnToNext(w, r) ==
    IF w.res[r].last THEN EndSocket(w)
    ELSE IF w.srv.outgoing = <<>> THEN [w EXCEPT !.srv.keepAliveTimeoutSet = TRUE]
    ELSE AssignSocket([w EXCEPT !.srv.outgoing = Tail(@)], Head(w.srv.outgoing))

ResOnFinish(w, r) == TurnToNext(Detached(w, r), r)

\* The callback of a write that ends a response emits its 'finish'.
Written(w, piece) == IF P!EndsResponse(piece) THEN ResOnFinish(w, piece.of) ELSE w

EmitClose(w, r) == IF w.res[r].destroyed THEN w
                   ELSE [w EXCEPT !.res[r].destroyed = TRUE, !.res[r].closed = TRUE]

\* Variant: the keep-alive timer stays.
ResetSocketTimeout_Never(w) == w

ResetSocketTimeout(w) == [w EXCEPT !.srv.keepAliveTimeoutSet = FALSE]

\* this.writable && this.bytesWritten === 0
CanAnswerError(w) == w.sock.state = "open" /\ wire = <<>> /\ w.sock.buf = <<>>

\* The error response does not leave the socket before it is destroyed.
ErrorUnsent(w) ==
    DestroySocket(IF CanAnswerError(w) THEN SocketWrite(w, <<P!Piece(0, "error")>>) ELSE w)

\* socketOnError without a 'clientError' listener: an error response (400, 408 or
\* 431) if nothing was written, past the pipeline and whatever requests wait in
\* it; then destroy().  A native socket hands the bytes to the system as it is
\* written to, unless the system's buffers are full.  (A generic stream has no
\* bytesWritten and writes none: what CanAnswerError forbids covers it.)
SocketOnError(w) ==
    \/ Become(ErrorUnsent(w)) /\ UNCHANGED wire
    \/ /\ CanAnswerError(w)
       /\ Become(DestroySocket(w))
       /\ wire' = Append(wire, P!Piece(0, "error"))

----------------------------------------------------------------------------
\* What the client sends.

\* Data events: the parser is inside a chunk, or a new one can be read.
CanParse == \/ parser.executing
            \/ /\ Alive(World)
               /\ ~sock.paused /\ ~sock.peerEnded

\* The first byte of a message: the parser calls setRequestTimeout.
MessageBegin ==
    /\ CanParse
    /\ parser.phase = "idle" /\ parser.arrived < N
    /\ parser' = [parser EXCEPT !.executing = TRUE, !.phase = "head"]
    /\ sock' = [sock EXCEPT !.timer = @ \/ RequestTimeout]
    /\ UNCHANGED <<srv, req, res, closing, wire, failed>>

\* Variant: a response that has ended leaves the socket at once.
Pipelined_OverFinished(w, r) ==
    IF w.sock.message # NoMessage /\ ~w.res[w.sock.message].finished
    THEN [w EXCEPT !.srv.outgoing = Append(@, r)]
    ELSE AssignSocket(w, r)

\* The response to a new request takes its place in the pipeline.
Pipelined(w, r) ==
    IF w.sock.message # NoMessage THEN [w EXCEPT !.srv.outgoing = Append(@, r)]
    ELSE AssignSocket(w, r)

\* parserOnHeadersComplete: the timer of the socket becomes that of the request.
HeadersComplete(w, r) == [w EXCEPT !.sock.timer = FALSE, !.req[r].timer = w.sock.timer]

\* parserOnIncoming: a request with its response, and perhaps a pause.
\* An Expect header other than 100-continue is answered at once (417).
Incoming(kind, keep) ==
    LET r == parser.arrived + 1
        reset == ResetSocketTimeout(HeadersComplete(World, r))
        pushed == [reset EXCEPT !.req[r].kind = kind,
                                !.srv.incoming = Append(@, r),
                                !.sock.paused = @ \/ sock.needDrain
                                                  \/ srv.outgoingData >= HighWaterMark,
                                !.res[r].keep = keep]
        w == Pipelined(pushed, r)
    IN  /\ CanParse
        /\ parser.phase = "head"
        /\ keep \/ "close" \in Events
        /\ parser' = [arrived |-> r, executing |-> TRUE, phase |-> "body"]
        /\ Become(CASE kind = "plain" -> w
                    [] kind = "continue" -> WriteRaw(w, r, P!Piece(r, "continue"))
                    [] kind = "expectation" -> EndResponse(w, r))
        /\ UNCHANGED wire

\* parserOnMessageComplete
MessageComplete ==
    /\ CanParse
    /\ parser.phase = "body"
    /\ parser' = [parser EXCEPT !.executing = TRUE, !.phase = "idle"]
    /\ req' = [req EXCEPT ![parser.arrived].complete = TRUE]
    /\ UNCHANGED <<sock, srv, res, closing, wire, failed>>

\* The end of a chunk: onParserExecuteCommon.
ChunkDone ==
    /\ parser.executing
    /\ parser' = [parser EXCEPT !.executing = FALSE]
    /\ Become(ResetSocketTimeout(World))
    /\ UNCHANGED wire

\* Bytes that are no HTTP.
ParseError ==
    /\ "garbage" \in Events
    /\ CanParse
    /\ parser.phase \in {"idle", "head", "body"}
    /\ parser' = [parser EXCEPT !.executing = FALSE, !.phase = "failed"]
    /\ SocketOnError(ResetSocketTimeout(World))

\* A request to upgrade, or CONNECT: the server takes its listeners off the
\* socket and gives it to the program, or destroys it when nobody listens (the
\* timer, which is the request's by now, runs on).
Upgrade(listening) ==
    LET w == ResetSocketTimeout(World)
    IN  /\ "upgrade" \in Events
        /\ CanParse
        /\ parser.phase = "head"
        /\ parser' = [parser EXCEPT !.executing = FALSE, !.phase = "upgraded"]
        /\ Become(IF listening THEN [w EXCEPT !.sock.timer = FALSE] ELSE DestroySocket(w))
        /\ UNCHANGED wire

----------------------------------------------------------------------------
\* What the program does.

\* res.write(chunk)
Write(r, buffer) ==
    /\ r \in Arrived
    /\ ~res[r].finished /\ ~res[r].destroyed
    /\ res[r].writes < MaxWrites
    /\ Become(WriteResponse(World, r, buffer))
    /\ UNCHANGED <<parser, wire>>

\* res.end()
End(r) ==
    /\ r \in Arrived
    /\ ~res[r].finished
    /\ Early \/ req[r].complete \/ ~Alive(World)
    /\ Become(EndResponse(World, r))
    /\ UNCHANGED <<parser, wire>>

\* res.destroy(): now, or when the response gets the socket.
Destroy(r) ==
    /\ "destroy" \in Events
    /\ r \in Arrived /\ ~res[r].destroyed
    /\ Become(LET w == [World EXCEPT !.res[r].destroyed = TRUE]
              IN  IF sock.message = r THEN DestroySocket(w) ELSE w)
    /\ UNCHANGED <<parser, wire>>

\* The program reads a request to its end: 'end' clears the timer, if
\* parserOnIncoming made it listen.
ReadRequest(r) ==
    /\ req[r].complete /\ ~req[r].ended /\ ~req[r].aborted
    /\ req' = [req EXCEPT ![r].ended = TRUE,
                          ![r].timer = @ /\ req[r].kind # "plain"]
    /\ UNCHANGED <<sock, srv, parser, res, closing, wire, failed>>

\* emitCloseNT
RunEmitClose(r) ==
    /\ r \in closing
    /\ Become([EmitClose(World, r) EXCEPT !.closing = @ \ {r}])
    /\ UNCHANGED <<parser, wire>>

----------------------------------------------------------------------------
\* Events of the socket and the timers, between chunks.

IO == ~parser.executing

\* The socket sent a piece.  With the last one comes 'drain', then 'finish'.
WriteDone ==
    LET piece == Head(sock.buf)
        drains == Len(sock.buf) = 1 /\ sock.needDrain /\ sock.state = "open"
        popped == [World EXCEPT !.sock.buf = Tail(@), !.sock.needDrain = @ /\ ~drains]
        drained == IF drains /\ parser.phase # "upgraded" THEN SocketOnDrain(popped)
                   ELSE popped
    IN  /\ IO /\ sock.buf # <<>>
        /\ Alive(World)
        /\ wire' = Append(wire, piece)
        /\ Become(Written(drained, piece))
        /\ UNCHANGED parser

\* The callback of a piece that a destroyed socket did not send.
WriteFails ==
    /\ IO /\ sock.buf # <<>>
    /\ ~Alive(World)
    /\ Become(Written([World EXCEPT !.sock.buf = Tail(@)], Head(sock.buf)))
    /\ UNCHANGED <<parser, wire>>

\* A socket that ended and has sent everything is destroyed.
SocketFinish ==
    /\ IO /\ sock.buf = <<>>
    /\ sock.state = "ended"
    /\ Become(DestroySocket(World))
    /\ UNCHANGED <<parser, wire>>

\* Variant: the response in progress becomes the last one.
HalfClose_Current(w) ==
    IF ~HttpAllowHalfOpen THEN EndSocket(w)
    ELSE IF w.sock.message # NoMessage THEN [w EXCEPT !.res[w.sock.message].last = TRUE]
    ELSE EndSocket(w)

\* The client will send no more: close now, or after the last response.
HalfClose(w) ==
    IF ~HttpAllowHalfOpen THEN EndSocket(w)
    ELSE IF w.srv.outgoing # <<>>
    THEN [w EXCEPT !.res[w.srv.outgoing[Len(w.srv.outgoing)]].last = TRUE]
    ELSE IF w.sock.message # NoMessage THEN [w EXCEPT !.res[w.sock.message].last = TRUE]
    ELSE EndSocket(w)

\* 'end' of the socket: socketOnEnd
PeerEnd ==
    LET w == [World EXCEPT !.sock.peerEnded = TRUE]
    IN  /\ "fin" \in Events
        /\ IO /\ Alive(World) /\ ~sock.paused /\ ~sock.peerEnded
        /\ parser.phase # "upgraded"
        /\ IF parser.phase = "idle" THEN Become(HalfClose(w)) /\ UNCHANGED wire
           ELSE SocketOnError(w)
        /\ UNCHANGED parser

\* 'error' of the socket
PeerReset ==
    /\ "reset" \in Events
    /\ IO /\ Alive(World)
    /\ Become(DestroySocket(World))
    /\ UNCHANGED <<parser, wire>>

\* 'timeout' of the socket, which nobody listens to: socketOnTimeout
KeepAliveTimeout ==
    /\ "idle" \in Events
    /\ IO /\ Alive(World)
    /\ srv.keepAliveTimeoutSet /\ parser.phase # "upgraded"
    /\ Become(DestroySocket(World))
    /\ UNCHANGED <<parser, wire>>

\* onRequestTimeout, of the timer on the socket or on a request
RequestTimesOut ==
    /\ "slow" \in Events
    /\ IO
    /\ \/ /\ sock.timer
          /\ SocketOnError([World EXCEPT !.sock.timer = FALSE])
       \/ \E r \in Messages :
             /\ req[r].timer
             /\ SocketOnError([World EXCEPT !.sock.timer = FALSE, !.req[r].timer = FALSE])
    /\ UNCHANGED parser

\* 'close' of the socket: socketOnClose aborts the requests, and
\* onServerResponseClose closes the response in progress.
Closed ==
    LET upgraded == parser.phase = "upgraded"
        incoming == {srv.incoming[i] : i \in 1..Len(srv.incoming)}
        aborted == IF upgraded THEN World
                   ELSE [World EXCEPT !.srv.incoming = <<>>,
                                      !.req = [r \in Messages |->
                                                 [req[r] EXCEPT !.aborted = @ \/ r \in incoming]]]
        w == [aborted EXCEPT !.sock.state = "closed"]
    IN  /\ IO /\ sock.state = "destroyed"
        /\ Become(IF sock.message = NoMessage THEN w ELSE EmitClose(w, sock.message))
        /\ parser' = [parser EXCEPT !.phase = IF upgraded THEN @ ELSE "gone"]
        /\ UNCHANGED wire

----------------------------------------------------------------------------
Client == \/ MessageBegin \/ MessageComplete \/ ChunkDone \/ ParseError
          \/ \E k \in Kinds, keep \in BOOLEAN : Incoming(k, keep)
          \/ \E l \in BOOLEAN : Upgrade(l)

Program == \E r \in Messages : \/ \E b \in Buffers : Write(r, b)
                               \/ End(r) \/ Destroy(r) \/ ReadRequest(r) \/ RunEmitClose(r)

Socket == \/ WriteDone \/ WriteFails \/ SocketFinish \/ PeerEnd \/ PeerReset
          \/ KeepAliveTimeout \/ RequestTimesOut \/ Closed

Next == ~failed /\ (Client \/ Program \/ Socket)

Spec == Init /\ [][Next]_vars

TypeOK == /\ sock \in SockType
          /\ srv \in SrvType
          /\ parser \in ParserType
          /\ req \in [Messages -> ReqType]
          /\ res \in [Messages -> ResType]
          /\ closing \subseteq Messages
          /\ wire \in Seq(Pieces)
          /\ failed \in BOOLEAN

----------------------------------------------------------------------------
(* Safety *)

Serving == Alive(World) /\ parser.phase # "upgraded"

\* The requests still to be answered are the one whose response has the socket
\* followed by those whose responses wait for it, in the same order: what the
\* asserts of assignSocket, detachSocket and resOnFinish take for granted.  (The
\* asserts hold to the end; the order only until the server ends its side: a
\* request that still comes then gets the socket before those that wait.)
PipelineAligned ==
    /\ ~failed
    /\ Serving /\ sock.state = "open" => srv.incoming = (IF sock.message = NoMessage THEN <<>>
                                  ELSE <<sock.message>>) \o srv.outgoing

\* The connection sends responses whole and in the order of their requests
\* (module Pipeline), in whatever order the program writes them.  The error
\* response of socketOnError goes past them, but only as the first and the last
\* thing sent: with it the connection closes, and no request gets an answer.
RefinesPipeline == P!Spec

\* outgoingData, which counts up and down in many calls, is what the responses
\* have queued.
Queued(w) == UNION {{r} \X DOMAIN w.res[r].output : r \in Messages}
OutgoingDataExact == srv.outgoingData = Cardinality(Queued(World))

\* While reading is paused something is pending that will resume it: the
\* 'drain' of the socket, or the flush of a response that waits.
PausedHasReason ==
    Serving /\ sock.state = "open" /\ sock.paused =>
        \/ sock.needDrain /\ sock.buf # <<>>
        \/ \E i \in 1..Len(srv.outgoing) : res[srv.outgoing[i]].output # <<>>

\* A program that was told to wait for 'drain' gets it: the response waits for
\* its turn with something to flush, or the socket has yet to drain.
WaitingWriterWakes ==
    \A r \in Arrived :
        /\ Serving /\ sock.state = "open"
        /\ res[r].needDrain /\ ~res[r].finished /\ ~res[r].destroyed
        => IF sock.message = r THEN sock.needDrain /\ sock.buf # <<>>
           ELSE res[r].output # <<>>

\* The keep-alive timer runs only while no response is due: it never cuts off
\* an exchange.
KeepAliveTimerOnlyWhenIdle ==
    Serving /\ srv.keepAliveTimeoutSet =>
        sock.message = NoMessage /\ srv.incoming = <<>>

Idle == /\ Serving /\ sock.state = "open" /\ ~parser.executing
        /\ parser.phase = "idle" /\ parser.arrived > 0
        /\ sock.message = NoMessage

\* A connection that waits for another request has its keep-alive timer set.
\* (If the program, or the 417 the server sends itself, answers before the
\* request is complete, the rest of the request turns the timer off for good;
\* and so does a chunk between requests that holds no request, such as a stray
\* line end, which is not modelled.)
IdleHasTimer ==
    ~Early /\ "expectation" \notin Kinds /\ Idle => srv.keepAliveTimeoutSet

Answered(r) == \E i \in 1..Len(wire) : wire[i].of = r /\ P!EndsResponse(wire[i])

\* The server ends its side when all requests are answered or the response just
\* sent closes the connection; without httpAllowHalfOpen also when the client
\* ended its own side.
EndsWhenAnswered ==
    [][sock.state = "open" /\ sock'.state = "ended" =>
          \/ \A r \in Arrived : Answered(r)'
          \/ wire' # wire /\ ~res[wire'[Len(wire')].of].keep
          \/ ~HttpAllowHalfOpen /\ sock'.peerEnded /\ ~sock.peerEnded]_vars

----------------------------------------------------------------------------
(* What the comments say and the code does not do *)

\* "... consuming the request body, which would have already cleared the timer"
\* (server.js:739-740): a request read to its end cannot time out.
ReadRequestHasNoTimer == \A r \in Messages : req[r].ended => ~req[r].timer

\* "Queue that holds all currently pending data" (outgoing.js:83): what was
\* written first leaves first.  100 Continue is written before the header.
ContinueFirst ==
    \A i, j \in 1..Len(wire) :
        wire[i].of = wire[j].of /\ wire[i].part = "continue"
            /\ wire[j].part \in {"head", "whole"} => i < j

----------------------------------------------------------------------------
(* Liveness *)

\* The event loop always does the next thing at hand: it ends messages and
\* chunks, sends, closes.  The program ends its responses.
Fairness == /\ WF_vars(~failed /\ (\/ MessageComplete \/ ChunkDone \/ WriteDone
                                  \/ SocketFinish \/ Closed))
            /\ WF_vars(~failed /\ \E r \in Messages : End(r))

FairSpec == Spec /\ Fairness

\* Every request gets its whole response unless the connection ends.
EveryRequestAnswered ==
    \A r \in Messages :
        r \in Arrived ~> (Answered(r) \/ sock.state = "closed" \/ parser.phase = "upgraded")

\* A paused connection reads again, or is on its way to be closed.
ReadingResumes == sock.paused ~> (~sock.paused \/ sock.state # "open")
=============================================================================
