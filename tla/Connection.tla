---------------------------- MODULE Connection ----------------------------
(***************************************************************************)
(* One Net::Connection (connon/source/NetConnection.cpp): the send queue,  *)
(* the read loop and the two ways to close.  User threads only post        *)
(* handlers; the single IO thread runs the io_context's queue `ready' one  *)
(* handler at a time, each to its end, which is what one action RunXxx     *)
(* does.  The reactor holds the asynchronous operations in flight (`reads',*)
(* `writes') and appends their completions to `ready'.                     *)
(*                                                                         *)
(* The hooks of the derived classes (recvToWork, updateTime,               *)
(* derivedToClose) are left to the modules that extend this one.           *)
(***************************************************************************)
EXTENDS Integers, Sequences, SequencesExt, HandlerQueue

CONSTANTS
    Msgs,            \* the message bodies a program sends
    Size,            \* their sizes in bytes
    HEAD_LENGTH,     \* bytes of a frame's header
    MAX_LENGTH,      \* the longest body the protocol allows
    MaxSendBufLen,   \* the backlog limit given to the constructor
    MaxSends,        \* bound: calls of toSend
    MaxStops,        \* bound: calls of stopToClose
    MaxInbound,      \* bound: reads the peer's bytes complete
    MaxStarts        \* bound: calls of start

ASSUME ConnectionAssumption ==
    /\ Size \in [Msgs -> Nat]
    /\ HEAD_LENGTH \in Nat \ {0}
    /\ MAX_LENGTH \in Nat
    /\ MaxSendBufLen \in Nat
    /\ {MaxSends, MaxStops, MaxInbound, MaxStarts} \subseteq Nat

VARIABLES
    started, sending, closing, closeSocket, closeNotified,  \* the flags
    sendQueue,       \* deque of SendNodes
    queueBufLen,     \* bytes the queue is accounted for
    sockOpen,        \* socket.is_open()
    ready,           \* the io_context's handlers that may run now
    reads, writes,   \* operations in flight in the reactor: those without a
                     \* node, by kind, and the writes, by node
    accepted, wire,  \* history: frames queued, frames handed to the peer
    aborted,         \* history: errToClose closed the connection
    sends, stops, inbound, starts        \* how often each bounded step ran

flags    == <<started, sending, closing, closeSocket, closeNotified>>
queue    == <<sendQueue, queueBufLen>>
io       == <<sockOpen, ready, reads, writes>>
history  == <<accepted, wire, aborted>>
bounded  == <<sends, stops, inbound, starts>>
connVars == <<flags, queue, io, history, bounded>>

-----------------------------------------------------------------------------
\* A SendNode is a heap object of its own: `seq' is its identity.
Node  == [seq : 1..MaxSends, msg : Msgs]
NoNode == [seq |-> 0, msg |-> "none"]

FrameLen(n) == HEAD_LENGTH + Size[n.msg]

\* The outcome a completion carries: "bad" is a header read without an error
\* whose length field is 0 or above MAX_LENGTH.
Outcomes == {"ok", "bad", "error", "aborted"}
Handler(kind, ec, n) == [kind |-> kind, ec |-> ec, node |-> n]
CloseRequest == Handler("close", "ok", NoNode)

ConnInit(open) ==
    /\ started = FALSE /\ sending = FALSE /\ closing = FALSE
    /\ closeSocket = FALSE /\ closeNotified = FALSE
    /\ sendQueue = <<>> /\ queueBufLen = 0
    /\ sockOpen = open
    /\ ready = <<>> /\ reads = <<>> /\ writes = <<>>
    /\ accepted = <<>> /\ wire = <<>> /\ aborted = FALSE
    /\ sends = 0 /\ stops = 0 /\ inbound = 0 /\ starts = 0

-----------------------------------------------------------------------------
(* Asio: starting an operation, and what close() does to those in flight.  *)
(* `r' is the handler queue as the code has left it so far.                *)

AsyncRead(kind, r) ==
    IF sockOpen
    THEN reads' = Append(reads, kind) /\ ready' = r
    ELSE reads' = reads /\ ready' = Append(r, Handler(kind, "error", NoNode))

AsyncWrite(n, r) ==
    IF sockOpen
    THEN writes' = Append(writes, n) /\ ready' = r
    ELSE writes' = writes /\ ready' = Append(r, Handler("write", "error", n))

Cancelled ==
    [i \in DOMAIN reads |-> Handler(reads[i], "aborted", NoNode)] \o
    [i \in DOMAIN writes |-> Handler("write", "aborted", writes[i])]

-----------------------------------------------------------------------------
(* The functions the handlers call.  `len' is queueBufLen as the caller    *)
(* left it; `sending' is false at every call of socketClose or about to be *)
(* reset by it.                                                            *)

SocketClose(len, r) ==
    IF closeSocket
    THEN /\ ready' = r /\ queueBufLen' = len /\ sending' = FALSE
         /\ UNCHANGED <<closeSocket, closeNotified, sockOpen, reads, writes>>
    ELSE /\ closeSocket' = TRUE /\ closeNotified' = TRUE
         /\ sockOpen' = FALSE
         /\ ready' = r \o Cancelled
         /\ reads' = <<>> /\ writes' = <<>>
         /\ sending' = FALSE /\ queueBufLen' = 0

ErrToClose_KeepsQueue(r) ==
    IF closeSocket
    THEN /\ ready' = r
         /\ UNCHANGED <<sending, closing, closeSocket, closeNotified, queue,
                        sockOpen, reads, writes, aborted>>
    ELSE /\ sendQueue' = sendQueue /\ closing' = TRUE /\ aborted' = TRUE
         /\ SocketClose(queueBufLen, r)

ErrToClose(r) ==
    IF closeSocket
    THEN /\ ready' = r
         /\ UNCHANGED <<sending, closing, closeSocket, closeNotified, queue,
                        sockOpen, reads, writes, aborted>>
    ELSE /\ sendQueue' = <<>> /\ closing' = TRUE /\ aborted' = TRUE
         /\ SocketClose(queueBufLen, r)

DoSend(q, r) ==
    IF q = <<>>
    THEN /\ sending' = FALSE /\ writes' = writes
         /\ ready' = IF closing THEN Append(r, CloseRequest) ELSE r
    ELSE sending' = TRUE /\ AsyncWrite(Head(q), r)

\* Called with the queue empty and no write in flight.
ContinueClose_Forgotten(len, r) ==
    /\ queueBufLen' = len /\ sending' = FALSE /\ ready' = r
    /\ UNCHANGED <<closeSocket, closeNotified, sockOpen, reads, writes>>
ContinueClose(len, r) == SocketClose(len, r)

-----------------------------------------------------------------------------
(* The calls user threads make.                                            *)

\* toSend() checks the size and posts; the caller is told "true".
ToSend(m) ==
    /\ sends < MaxSends
    /\ Size[m] \in 1..MAX_LENGTH
    /\ sends' = sends + 1
    /\ ready' = Append(ready, Handler("send", "ok", [seq |-> sends + 1, msg |-> m]))
    /\ UNCHANGED <<flags, queue, sockOpen, reads, writes, history, stops, inbound, starts>>

StopToClose ==
    /\ stops < MaxStops
    /\ stops' = stops + 1
    /\ ready' = Append(ready, CloseRequest)
    /\ UNCHANGED <<flags, queue, sockOpen, reads, writes, history, sends, inbound, starts>>

StartsReading_Always == TRUE
StartsReading == ~started

\* start() runs on the IO thread, in the handler that set the socket up.
Start ==
    /\ starts < MaxStarts
    /\ starts' = starts + 1
    /\ started' = TRUE
    /\ IF StartsReading
       THEN AsyncRead("head", ready)
       ELSE UNCHANGED <<reads, ready>>
    /\ UNCHANGED <<sending, closing, closeSocket, closeNotified, queue, sockOpen,
                   writes, history, sends, stops, inbound>>

-----------------------------------------------------------------------------
(* The handlers of the IO thread.                                          *)

Running(kind) == ready # <<>> /\ Head(ready).kind = kind
Rest == Tail(ready)

\* The lambda send() posts.
Clamped(len) == IF len < 0 THEN 0 ELSE len

OverLimit_BodyOnly(n) == Clamped(queueBufLen) + Size[n.msg] > MaxSendBufLen
OverLimit(n) == Clamped(queueBufLen) + FrameLen(n) > MaxSendBufLen

RefuseSend ==
    /\ Running("send") /\ closing
    /\ ready' = Append(Rest, CloseRequest)
    /\ UNCHANGED <<flags, queue, sockOpen, reads, writes, history, bounded>>

DropSend ==
    /\ Running("send") /\ ~closing /\ OverLimit(Head(ready).node)
    /\ ready' = Rest
    /\ queueBufLen' = Clamped(queueBufLen)
    /\ UNCHANGED <<flags, sendQueue, sockOpen, reads, writes, history, bounded>>

StartsWriting_Always == TRUE
StartsWriting == ~sending

EnqueueSend ==
    /\ Running("send") /\ ~closing
    /\ LET n == Head(ready).node IN
       /\ ~OverLimit(n)
       /\ sendQueue' = Append(sendQueue, n)
       /\ queueBufLen' = Clamped(queueBufLen) + FrameLen(n)
       /\ accepted' = Append(accepted, n)
       /\ IF StartsWriting
          THEN DoSend(Append(sendQueue, n), Rest)
          ELSE ready' = Rest /\ UNCHANGED <<sending, writes>>
    /\ UNCHANGED <<started, closing, closeSocket, closeNotified, sockOpen, reads,
                   wire, aborted, bounded>>

RunSend == RefuseSend \/ DropSend \/ EnqueueSend

\* connectionClose(): only the first call starts the closing.
RepeatClose ==
    /\ Running("close") /\ closing
    /\ ready' = Rest
    /\ UNCHANGED <<flags, queue, sockOpen, reads, writes, history, bounded>>

BeginClose_Undrained ==
    /\ Running("close") /\ ~closing
    /\ closing' = TRUE
    /\ SocketClose(queueBufLen, Rest)
    /\ UNCHANGED <<started, sendQueue, history, bounded>>

BeginClose ==
    /\ Running("close") /\ ~closing
    /\ closing' = TRUE
    /\ CASE sending ->
              /\ ready' = Rest
              /\ UNCHANGED <<sending, closeSocket, closeNotified, queueBufLen,
                             sockOpen, reads, writes>>
         [] ~sending /\ sendQueue # <<>> ->
              /\ DoSend(sendQueue, Rest)
              /\ UNCHANGED <<closeSocket, closeNotified, queueBufLen, sockOpen, reads>>
         [] OTHER -> SocketClose(queueBufLen, Rest)
    /\ UNCHANGED <<started, sendQueue, history, bounded>>

RunClose == RepeatClose \/ BeginClose

\* The completion of the write doSend() started.
Released_BodyOnly(len, n) == Clamped(len - Size[n.msg])
Released(len, n) == Clamped(len - FrameLen(n))

WriteOk_NoNext ==
    /\ Running("write") /\ Head(ready).ec = "ok"
    /\ LET n      == Head(ready).node
           popped == sendQueue # <<>> /\ Head(sendQueue) = n
           q      == IF popped THEN Tail(sendQueue) ELSE sendQueue
           len    == IF popped THEN Released(queueBufLen, n) ELSE queueBufLen
       IN /\ sendQueue' = q
          /\ IF closing THEN ContinueClose(len, Rest)
             ELSE /\ sending' = FALSE /\ queueBufLen' = len /\ ready' = Rest
                  /\ UNCHANGED <<closeSocket, closeNotified, sockOpen, reads, writes>>
    /\ UNCHANGED <<started, closing, history, bounded>>

WriteOk ==
    /\ Running("write") /\ Head(ready).ec = "ok"
    /\ LET n      == Head(ready).node
           popped == sendQueue # <<>> /\ Head(sendQueue) = n
           q      == IF popped THEN Tail(sendQueue) ELSE sendQueue
           len    == IF popped THEN Released(queueBufLen, n) ELSE queueBufLen
       IN /\ sendQueue' = q
          /\ \/ /\ q # <<>>
                /\ DoSend(q, Rest)
                /\ queueBufLen' = len
                /\ UNCHANGED <<closeSocket, closeNotified, sockOpen, reads>>
             \/ /\ q = <<>> /\ closing
                /\ ContinueClose(len, Rest)
             \/ /\ q = <<>> /\ ~closing
                /\ sending' = FALSE /\ queueBufLen' = len /\ ready' = Rest
                /\ UNCHANGED <<closeSocket, closeNotified, sockOpen, reads, writes>>
    /\ UNCHANGED <<started, closing, history, bounded>>

WriteFailed ==
    /\ Running("write") /\ Head(ready).ec # "ok"
    /\ ErrToClose(Rest)
    /\ UNCHANGED <<started, accepted, wire, bounded>>

RunWrite == WriteOk \/ WriteFailed

\* The completion of readHead()'s read.  A cancelled one is ignored.
HeadRefused_Never == FALSE
HeadRefused == closing

HeadCancelled ==
    /\ Running("head") /\ Head(ready).ec = "aborted"
    /\ ready' = Rest
    /\ UNCHANGED <<flags, queue, sockOpen, reads, writes, history, bounded>>

HeadFailed ==
    /\ Running("head") /\ Head(ready).ec \in {"error", "bad"}
    /\ ErrToClose(Rest)
    /\ UNCHANGED <<started, accepted, wire, bounded>>

HeadOk ==
    /\ Running("head") /\ Head(ready).ec = "ok"
    /\ IF HeadRefused
       THEN ready' = Append(Rest, CloseRequest) /\ reads' = reads
       ELSE AsyncRead("body", Rest)
    /\ UNCHANGED <<flags, queue, sockOpen, writes, history, bounded>>

RunHead == HeadCancelled \/ HeadFailed \/ HeadOk

\* The completion of readBody()'s read: the message goes to recvToWork(),
\* which may throw, and the next header is read unless the connection closes.
BodyFailed ==
    /\ Running("body") /\ Head(ready).ec # "ok"
    /\ ErrToClose(Rest)
    /\ UNCHANGED <<started, accepted, wire, bounded>>

Deliver ==
    /\ Running("body") /\ Head(ready).ec = "ok"
    /\ IF sockOpen /\ ~closing THEN AsyncRead("head", Rest) ELSE ready' = Rest /\ reads' = reads
    /\ UNCHANGED <<flags, queue, sockOpen, writes, history, bounded>>

DeliverThrows ==
    /\ Running("body") /\ Head(ready).ec = "ok"
    /\ ErrToClose(Rest)
    /\ UNCHANGED <<started, accepted, wire, bounded>>

RunBody == BodyFailed \/ Deliver \/ DeliverThrows

RunHandler == RunSend \/ RunClose \/ RunWrite \/ RunHead \/ RunBody

-----------------------------------------------------------------------------
(* The reactor: what the network does to the operations in flight.         *)

WriteCompletes ==
    /\ writes # <<>>
    /\ writes' = Tail(writes)
    /\ wire' = Append(wire, Head(writes))
    /\ ready' = Append(ready, Handler("write", "ok", Head(writes)))
    /\ UNCHANGED <<flags, queue, sockOpen, reads, accepted, aborted, bounded>>

WriteBreaks ==
    /\ writes # <<>>
    /\ writes' = Tail(writes)
    /\ ready' = Append(ready, Handler("write", "error", Head(writes)))
    /\ UNCHANGED <<flags, queue, sockOpen, reads, history, bounded>>

\* The peer's bytes, its FIN or an error complete the read in flight.
ReadCompletes(ec) ==
    /\ reads # <<>>
    /\ inbound < MaxInbound
    /\ ec \in IF Head(reads) = "head" THEN {"ok", "bad", "error"} ELSE {"ok", "error"}
    /\ inbound' = inbound + 1
    /\ reads' = Tail(reads)
    /\ ready' = Append(ready, Handler(Head(reads), ec, NoNode))
    /\ UNCHANGED <<flags, queue, sockOpen, writes, history, sends, stops, starts>>

Network == \/ WriteCompletes
           \/ WriteBreaks
           \/ \E ec \in {"ok", "bad", "error"} : ReadCompletes(ec)

-----------------------------------------------------------------------------
\* An owner calls start() before it hands the connection to anybody who
\* could close it; Client.tla has the owner that does not.
ConnNext ==
    \/ \E m \in Msgs : ToSend(m)
    \/ StopToClose
    \/ ~closing /\ Start
    \/ RunSend
    \/ RunClose
    \/ RunWrite
    \/ RunHead
    \/ RunBody
    \/ Network

\* The IO thread keeps running handlers, and the peer keeps reading.
ConnFairness == WF_connVars(RunHandler) /\ WF_connVars(WriteCompletes)

ConnSpec     == ConnInit(TRUE) /\ [][ConnNext]_connVars
ConnFairSpec == ConnSpec /\ ConnFairness

-----------------------------------------------------------------------------
(* Properties.                                                             *)

Handlers == [kind : {"send", "write"}, ec : Outcomes, node : Node] \cup
            [kind : {"close", "head", "body"}, ec : Outcomes, node : {NoNode}]

\* Every variable holds a value the code could hold; the accounted backlog
\* never passes the limit, so the int that holds it cannot overflow.
ConnTypeOK ==
    /\ started \in BOOLEAN /\ sending \in BOOLEAN /\ closing \in BOOLEAN
    /\ closeSocket \in BOOLEAN /\ closeNotified \in BOOLEAN
    /\ sendQueue \in Seq(Node) /\ queueBufLen \in 0..MaxSendBufLen
    /\ sockOpen \in BOOLEAN
    /\ ready \in Seq(Handlers)
    /\ reads \in Seq({"head", "body"}) /\ writes \in Seq(Node)
    /\ accepted \in Seq(Node) /\ wire \in Seq(Node) /\ aborted \in BOOLEAN
    /\ sends \in 0..MaxSends /\ stops \in 0..MaxStops
    /\ inbound \in 0..MaxInbound /\ starts \in 0..MaxStarts

\* Operations of a descriptor (`ops') started and not yet answered: in the
\* reactor, or their completion waits for the IO thread.
Outstanding(ops, kinds) == ops # <<>> \/ Waiting(ready, kinds)
Exclusive(ops, kinds) ==
    /\ Len(ops) <= 1
    /\ AtMostOne(ready, kinds)
    /\ ops # <<>> => ~Waiting(ready, kinds)

\* Two async_writes never overlap on the socket, the one in flight is that of
\* the queue's front, and a queued message always has one to wait for: neither
\* toSend() from other threads nor a completion that runs late loses a wakeup.
SingleWriter ==
    /\ Exclusive(writes, {"write"})
    /\ ~closeSocket =>
         /\ sending <=> (sendQueue # <<>>)
         /\ sending <=> Outstanding(writes, {"write"})
         /\ \A i \in DOMAIN writes : writes[i] = Head(sendQueue)
         /\ \A i \in DOMAIN ready :
              ready[i].kind = "write" => ready[i].node = Head(sendQueue)

\* Whatever closed the socket, no frame stays queued behind it, nothing can be
\* started on it any more, and operation_aborted means that it was closed.
ClosedIsClean ==
    /\ sockOpen <=> ~closeSocket
    /\ closeSocket => /\ closing
                      /\ sendQueue = <<>> /\ reads = <<>> /\ writes = <<>>
    /\ \A i \in DOMAIN ready : ready[i].ec = "aborted" => closeSocket

\* queueBufLen is the bytes of the frames queued, at every moment and through
\* every way to drop or clear them, so the limit bounds the real backlog.
QueueAccounting ==
    queueBufLen = FoldSeq(LAMBDA n, total : total + FrameLen(n), 0, sendQueue)

\* A graceful close that has not shut the socket yet waits for a write in
\* flight: whoever set `closing' left somebody to finish the job.
CloseHasDriver == closing /\ ~closeSocket => Outstanding(writes, {"write"})

\* One read at a time fills recvNode, and a connection that was started and
\* is not closing is never left without one (it would be deaf for ever).
ReaderAlive ==
    /\ Exclusive(reads, {"head", "body"})
    /\ ~closing => (started <=> Outstanding(reads, {"head", "body"}))

\* Once it is closing the connection starts no read (NetConnection.h:278).
NoReadWhileClosing == [][closing => Len(reads') <= Len(reads)]_connVars

\* The connection is a graceful channel: frames in order, at most once, all of
\* them before a graceful close, none accepted after the close began.
Phase == IF closeSocket THEN "closed" ELSE IF closing THEN "closing" ELSE "open"

Channel == INSTANCE GracefulChannel WITH Frames <- Node, phase <- Phase
ChannelSafe == Channel!SafeSpec
ChannelLive == Channel!Spec

\* With a peer that reads, a stop() ends in a closed socket, whatever was
\* queued or in flight when it came.
StopCloses == (stops > 0) ~> closeSocket

=============================================================================
