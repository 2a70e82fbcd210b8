------------------------- MODULE ConnectionProofs -------------------------
(***************************************************************************)
(* What holds of a Connection whatever the messages, the sizes, the limit  *)
(* and the number of calls.                                                *)
(***************************************************************************)
EXTENDS Connection, DataProofs, SequenceTheorems

-----------------------------------------------------------------------------
(* Types.                                                                  *)

LEMMA FrameLenNat == ASSUME NEW n \in Node PROVE FrameLen(n) \in Nat
  BY ConnectionAssumption DEF FrameLen, Node

LEMMA HandlerType ==
  ASSUME NEW ec \in Outcomes
  PROVE  /\ \A n \in Node : /\ Handler("send", ec, n) \in Handlers
                            /\ Handler("write", ec, n) \in Handlers
         /\ \A k \in {"close", "head", "body"} : Handler(k, ec, NoNode) \in Handlers
  BY DEF Handler, Handlers

LEMMA RestType ==
  ASSUME ConnTypeOK, ready # <<>>
  PROVE  /\ Rest \in Seq(Handlers)
         /\ Head(ready) \in Handlers
         /\ Head(ready).kind \in {"send", "write"} => Head(ready).node \in Node
<1>1. ready \in Seq(Handlers)
  BY DEF ConnTypeOK
<1>2. Rest \in Seq(Handlers) /\ Head(ready) \in Handlers
  BY <1>1 DEF Rest
<1>3. \A h \in Handlers : h.kind \in {"send", "write"} => h.node \in Node
  BY DEF Handlers
<1> QED BY <1>2, <1>3

LEMMA CancelledType ==
  ASSUME ConnTypeOK
  PROVE  Cancelled \in Seq(Handlers)
<1> DEFINE rs == [i \in DOMAIN reads |-> Handler(reads[i], "aborted", NoNode)]
           ws == [i \in DOMAIN writes |-> Handler("write", "aborted", writes[i])]
<1>1. /\ DOMAIN reads = 1..Len(reads) /\ Len(reads) \in Nat
      /\ DOMAIN writes = 1..Len(writes) /\ Len(writes) \in Nat
      /\ \A i \in DOMAIN reads : reads[i] \in {"head", "body"}
      /\ \A i \in DOMAIN writes : writes[i] \in Node
  BY DEF ConnTypeOK
<1>2. \A i \in DOMAIN reads : rs[i] \in Handlers
  <2> TAKE i \in DOMAIN reads
  <2>1. reads[i] \in {"head", "body"}
    BY <1>1
  <2>2. Handler(reads[i], "aborted", NoNode) \in Handlers
    BY <2>1, HandlerType DEF Outcomes
  <2> QED BY <2>2
<1>3. \A i \in DOMAIN writes : ws[i] \in Handlers
  <2> TAKE i \in DOMAIN writes
  <2>1. writes[i] \in Node
    BY <1>1
  <2>2. Handler("write", "aborted", writes[i]) \in Handlers
    BY <2>1, HandlerType DEF Outcomes
  <2> QED BY <2>2
<1>4. rs \in Seq(Handlers)
  BY <1>1, <1>2
<1>5. ws \in Seq(Handlers)
  BY <1>1, <1>3
<1> HIDE DEF rs, ws
<1>6. rs \o ws \in Seq(Handlers)
  BY <1>4, <1>5
<1> QED BY <1>6 DEF Cancelled, rs, ws

\* What the code's functions leave behind, for any handler queue `r' they are
\* given.
LEMMA AsyncReadType ==
  ASSUME ConnTypeOK, NEW r \in Seq(Handlers), NEW k \in {"head", "body"},
         AsyncRead(k, r)
  PROVE  ready' \in Seq(Handlers) /\ reads' \in Seq({"head", "body"})
<1>1. Handler(k, "error", NoNode) \in Handlers
  BY HandlerType DEF Outcomes
<1>2. Append(r, Handler(k, "error", NoNode)) \in Seq(Handlers)
  BY <1>1
<1>3. reads \in Seq({"head", "body"}) /\ Append(reads, k) \in Seq({"head", "body"})
  BY DEF ConnTypeOK
<1> QED BY <1>2, <1>3 DEF AsyncRead

LEMMA AsyncWriteType ==
  ASSUME ConnTypeOK, NEW r \in Seq(Handlers), NEW n \in Node, AsyncWrite(n, r)
  PROVE  ready' \in Seq(Handlers) /\ writes' \in Seq(Node)
<1>1. Handler("write", "error", n) \in Handlers
  BY HandlerType DEF Outcomes
<1>2. Append(r, Handler("write", "error", n)) \in Seq(Handlers)
  BY <1>1
<1>3. writes \in Seq(Node) /\ Append(writes, n) \in Seq(Node)
  BY DEF ConnTypeOK
<1> QED BY <1>2, <1>3 DEF AsyncWrite

LEMMA SocketCloseType ==
  ASSUME ConnTypeOK, NEW r \in Seq(Handlers), NEW len \in 0..MaxSendBufLen,
         SocketClose(len, r)
  PROVE  /\ closeSocket' \in BOOLEAN /\ closeNotified' \in BOOLEAN
         /\ sockOpen' \in BOOLEAN /\ sending' \in BOOLEAN
         /\ queueBufLen' \in 0..MaxSendBufLen
         /\ ready' \in Seq(Handlers)
         /\ reads' \in Seq({"head", "body"}) /\ writes' \in Seq(Node)
<1>1. Cancelled \in Seq(Handlers)
  BY CancelledType
<1>2. r \o Cancelled \in Seq(Handlers)
  BY <1>1
<1>3. CASE closeSocket
  BY <1>3 DEF SocketClose, ConnTypeOK
<1>4. CASE ~closeSocket
  <2>1. /\ closeSocket' = TRUE /\ closeNotified' = TRUE /\ sockOpen' = FALSE
        /\ ready' = r \o Cancelled /\ reads' = <<>> /\ writes' = <<>>
        /\ sending' = FALSE /\ queueBufLen' = 0
    BY <1>4 DEF SocketClose
  <2>2. 0 \in 0..MaxSendBufLen
    BY ConnectionAssumption
  <2>3. reads' \in Seq({"head", "body"}) /\ writes' \in Seq(Node)
    BY <2>1
  <2>4. ready' \in Seq(Handlers)
    BY <2>1, <1>2
  <2>5. queueBufLen' \in 0..MaxSendBufLen
    BY <2>1, <2>2
  <2>6. closeSocket' \in BOOLEAN /\ closeNotified' \in BOOLEAN /\ sockOpen' \in BOOLEAN /\ sending' \in BOOLEAN
    BY <2>1
  <2> QED BY <2>3, <2>4, <2>5, <2>6
<1> QED BY <1>3, <1>4

LEMMA ErrToCloseType ==
  ASSUME ConnTypeOK, NEW r \in Seq(Handlers), ErrToClose(r)
  PROVE  /\ closeSocket' \in BOOLEAN /\ closeNotified' \in BOOLEAN
         /\ sockOpen' \in BOOLEAN /\ sending' \in BOOLEAN
         /\ closing' \in BOOLEAN /\ aborted' \in BOOLEAN
         /\ sendQueue' \in Seq(Node) /\ queueBufLen' \in 0..MaxSendBufLen
         /\ ready' \in Seq(Handlers)
         /\ reads' \in Seq({"head", "body"}) /\ writes' \in Seq(Node)
<1>1. CASE closeSocket
  BY <1>1 DEF ErrToClose, ConnTypeOK, queue
<1>2. CASE ~closeSocket
  <2>1. sendQueue' = <<>> /\ closing' = TRUE /\ aborted' = TRUE
        /\ SocketClose(queueBufLen, r)
    BY <1>2 DEF ErrToClose
  <2>2. queueBufLen \in 0..MaxSendBufLen
    BY DEF ConnTypeOK
  <2> QED BY <2>1, <2>2, SocketCloseType
<1> QED BY <1>1, <1>2

LEMMA DoSendType ==
  ASSUME ConnTypeOK, NEW r \in Seq(Handlers), NEW q \in Seq(Node), DoSend(q, r)
  PROVE  /\ sending' \in BOOLEAN
         /\ ready' \in Seq(Handlers) /\ writes' \in Seq(Node)
<1>1. CASE q = <<>>
  <2>1. CloseRequest \in Handlers
    BY HandlerType DEF CloseRequest, Outcomes
  <2>2. Append(r, CloseRequest) \in Seq(Handlers)
    BY <2>1
  <2>3. writes \in Seq(Node)
    BY DEF ConnTypeOK
  <2> QED BY <1>1, <2>2, <2>3 DEF DoSend
<1>2. CASE q # <<>>
  <2>1. Head(q) \in Node
    BY <1>2
  <2>2. sending' = TRUE /\ AsyncWrite(Head(q), r)
    BY <1>2 DEF DoSend
  <2> QED BY <2>1, <2>2, AsyncWriteType
<1> QED BY <1>1, <1>2

-----------------------------------------------------------------------------
\* Every reachable state is well typed; in particular the backlog a
\* connection accounts for never passes the limit it was built with.
LEMMA TypeStep == ConnTypeOK /\ [ConnNext]_connVars => ConnTypeOK'
<1> SUFFICES ASSUME ConnTypeOK, [ConnNext]_connVars PROVE ConnTypeOK'
  OBVIOUS
<1> USE DEF flags, queue, io, history, bounded
<1>1. ASSUME NEW m \in Msgs, ToSend(m) PROVE ConnTypeOK'
  <2>1. [seq |-> sends + 1, msg |-> m] \in Node /\ sends + 1 \in 0..MaxSends
    BY <1>1, ConnectionAssumption DEF ToSend, Node, ConnTypeOK
  <2>2. Handler("send", "ok", [seq |-> sends + 1, msg |-> m]) \in Handlers
    BY <2>1, HandlerType DEF Outcomes
  <2>3. ready' \in Seq(Handlers)
    BY <1>1, <2>2 DEF ToSend, ConnTypeOK
  <2> QED BY <1>1, <2>1, <2>3 DEF ToSend, ConnTypeOK
<1>2. CASE StopToClose
  <2>1. ready' \in Seq(Handlers)
    BY <1>2, HandlerType DEF StopToClose, CloseRequest, Outcomes, ConnTypeOK
  <2>2. stops' \in 0..MaxStops
    BY <1>2, ConnectionAssumption DEF StopToClose, ConnTypeOK
  <2> QED BY <1>2, <2>1, <2>2 DEF StopToClose, ConnTypeOK
<1>3. CASE Start
  <2>1. starts' \in 0..MaxStarts
    BY <1>3, ConnectionAssumption DEF Start, ConnTypeOK
  <2>2. ready' \in Seq(Handlers) /\ reads' \in Seq({"head", "body"})
    BY <1>3, AsyncReadType DEF Start, ConnTypeOK
  <2> QED BY <1>3, <2>1, <2>2 DEF Start, ConnTypeOK
<1>4. CASE RunSend
  <2>0. /\ Rest \in Seq(Handlers) /\ Head(ready).node \in Node
    BY <1>4, RestType DEF RunSend, RefuseSend, DropSend, EnqueueSend, Running
  <2>1. CASE RefuseSend
    <3>1. ready' \in Seq(Handlers)
      BY <2>0, <2>1, HandlerType DEF RefuseSend, CloseRequest, Outcomes
    <3> QED BY <2>1, <3>1 DEF RefuseSend, ConnTypeOK
  <2>2. CASE DropSend
    <3>1. queueBufLen' \in 0..MaxSendBufLen
      BY <2>2, ConnectionAssumption DEF DropSend, Clamped, ConnTypeOK
    <3> QED BY <2>0, <2>2, <3>1 DEF DropSend, ConnTypeOK
  <2>3. CASE EnqueueSend
    <3> DEFINE n == Head(ready).node
    <3>1. queueBufLen' \in 0..MaxSendBufLen
      <4>1. FrameLen(n) \in Nat /\ Clamped(queueBufLen) \in Nat /\ MaxSendBufLen \in Nat
        BY SMTT(20), <2>0, FrameLenNat, ConnectionAssumption DEF Clamped, ConnTypeOK
      <4>2. ~(Clamped(queueBufLen) + FrameLen(n) > MaxSendBufLen)
        BY <2>3 DEF EnqueueSend, OverLimit
      <4>3. queueBufLen' = Clamped(queueBufLen) + FrameLen(n)
        BY <2>3 DEF EnqueueSend
      <4> HIDE DEF n
      <4> QED BY <4>1, <4>2, <4>3
    <3>2. Append(sendQueue, n) \in Seq(Node) /\ Append(accepted, n) \in Seq(Node)
      BY <2>0 DEF ConnTypeOK
    <3>3. /\ sending' \in BOOLEAN
          /\ ready' \in Seq(Handlers) /\ writes' \in Seq(Node)
      <4>1. CASE StartsWriting
        BY <4>1, <2>0, <2>3, <3>2, DoSendType DEF EnqueueSend
      <4>2. CASE ~StartsWriting
        BY <4>2, <2>0, <2>3 DEF EnqueueSend, ConnTypeOK
      <4> QED BY <4>1, <4>2
    <3> QED BY <2>3, <3>1, <3>2, <3>3 DEF EnqueueSend, ConnTypeOK
  <2> QED BY <1>4, <2>1, <2>2, <2>3 DEF RunSend
<1>5. CASE RunClose
  <2>0. Rest \in Seq(Handlers) /\ queueBufLen \in 0..MaxSendBufLen
    BY <1>5, RestType DEF RunClose, RepeatClose, BeginClose, Running, ConnTypeOK
  <2>1. CASE RepeatClose
    BY <2>0, <2>1 DEF RepeatClose, ConnTypeOK
  <2>2. CASE BeginClose
    <3>1. CASE sending
      BY <2>0, <2>2, <3>1 DEF BeginClose, ConnTypeOK
    <3>2. CASE ~sending /\ sendQueue # <<>>
      <4>1. DoSend(sendQueue, Rest)
        BY <2>2, <3>2 DEF BeginClose
      <4>2. sendQueue \in Seq(Node)
        BY DEF ConnTypeOK
      <4>3. /\ sending' \in BOOLEAN
            /\ ready' \in Seq(Handlers) /\ writes' \in Seq(Node)
        BY <4>1, <4>2, <2>0, DoSendType
      <4> QED BY <2>2, <3>2, <4>3 DEF BeginClose, ConnTypeOK
    <3>3. CASE ~sending /\ sendQueue = <<>>
      <4>1. SocketClose(queueBufLen, Rest)
        BY <2>2, <3>3 DEF BeginClose
      <4> QED BY <2>0, <2>2, <4>1, SocketCloseType DEF BeginClose, ConnTypeOK
    <3> QED BY <3>1, <3>2, <3>3 DEF ConnTypeOK
  <2> QED BY <1>5, <2>1, <2>2 DEF RunClose
<1>6. CASE RunWrite
  <2>0. Rest \in Seq(Handlers) /\ Head(ready).node \in Node
    BY <1>6, RestType DEF RunWrite, WriteOk, WriteFailed, Running
  <2>1. CASE WriteOk
    <3> DEFINE n == Head(ready).node
               popped == sendQueue # <<>> /\ Head(sendQueue) = n
               q == IF popped THEN Tail(sendQueue) ELSE sendQueue
               len == IF popped THEN Released(queueBufLen, n) ELSE queueBufLen
    <3>1. len \in 0..MaxSendBufLen
      <4>1. FrameLen(n) \in Nat /\ queueBufLen \in 0..MaxSendBufLen /\ MaxSendBufLen \in Nat
        BY <2>0, FrameLenNat, ConnectionAssumption DEF ConnTypeOK
      <4>2. Released(queueBufLen, n) \in 0..MaxSendBufLen
        BY <4>1 DEF Released, Clamped
      <4> QED BY <4>1, <4>2
    <3>2. q \in Seq(Node)
      BY DEF ConnTypeOK
    <3>3. sendQueue' = q
      BY <2>1 DEF WriteOk
    <3> HIDE DEF q, len
    <3>4. CASE /\ q # <<>> /\ DoSend(q, Rest) /\ queueBufLen' = len
               /\ UNCHANGED <<closeSocket, closeNotified, sockOpen, reads>>
      <4>1. /\ sending' \in BOOLEAN
            /\ ready' \in Seq(Handlers) /\ writes' \in Seq(Node)
        BY <2>0, <3>2, <3>4, DoSendType
      <4> QED BY <2>1, <3>1, <3>2, <3>3, <3>4, <4>1 DEF WriteOk, ConnTypeOK
    <3>5. CASE ContinueClose(len, Rest)
      BY <2>0, <2>1, <3>1, <3>2, <3>3, <3>5, SocketCloseType
      DEF WriteOk, ContinueClose, ConnTypeOK
    <3>6. CASE /\ sending' = FALSE /\ queueBufLen' = len /\ ready' = Rest
               /\ UNCHANGED <<closeSocket, closeNotified, sockOpen, reads, writes>>
      BY <2>0, <2>1, <3>1, <3>2, <3>3, <3>6 DEF WriteOk, ConnTypeOK
    <3> QED BY <2>1, <3>4, <3>5, <3>6 DEF WriteOk, q, len
  <2>2. CASE WriteFailed
    BY <2>0, <2>2, ErrToCloseType DEF WriteFailed, ConnTypeOK
  <2> QED BY <1>6, <2>1, <2>2 DEF RunWrite
<1>7. CASE RunHead
  <2>0. Rest \in Seq(Handlers)
    BY <1>7, RestType DEF RunHead, HeadCancelled, HeadFailed, HeadOk, Running
  <2>1. CASE HeadCancelled
    BY <2>0, <2>1 DEF HeadCancelled, ConnTypeOK
  <2>2. CASE HeadFailed
    BY <2>0, <2>2, ErrToCloseType DEF HeadFailed, ConnTypeOK
  <2>3. CASE HeadOk
    <3>1. ready' \in Seq(Handlers) /\ reads' \in Seq({"head", "body"})
      <4>1. CASE HeadRefused
        <5>1. CloseRequest \in Handlers
          BY HandlerType DEF CloseRequest, Outcomes
        <5>2. ready' = Append(Rest, CloseRequest) /\ reads' = reads
          BY <2>3, <4>1 DEF HeadOk
        <5>3. reads \in Seq({"head", "body"})
          BY DEF ConnTypeOK
        <5> QED BY <2>0, <5>1, <5>2, <5>3
      <4>2. CASE ~HeadRefused
        BY <2>0, <2>3, <4>2, AsyncReadType DEF HeadOk
      <4> QED BY <4>1, <4>2
    <3> QED BY <2>3, <3>1 DEF HeadOk, ConnTypeOK
  <2> QED BY <1>7, <2>1, <2>2, <2>3 DEF RunHead
<1>8. CASE RunBody
  <2>0. Rest \in Seq(Handlers)
    BY <1>8, RestType DEF RunBody, BodyFailed, Deliver, DeliverThrows, Running
  <2>1. CASE BodyFailed \/ DeliverThrows
    BY <2>0, <2>1, ErrToCloseType DEF BodyFailed, DeliverThrows, ConnTypeOK
  <2>2. CASE Deliver
    <3>1. ready' \in Seq(Handlers) /\ reads' \in Seq({"head", "body"})
      BY <2>0, <2>2, AsyncReadType DEF Deliver, ConnTypeOK
    <3> QED BY <2>2, <3>1 DEF Deliver, ConnTypeOK
  <2> QED BY <1>8, <2>1, <2>2 DEF RunBody
<1>9. CASE WriteCompletes \/ WriteBreaks
  <2>1. Head(writes) \in Node /\ Tail(writes) \in Seq(Node)
    BY <1>9 DEF WriteCompletes, WriteBreaks, ConnTypeOK
  <2>2. ready' \in Seq(Handlers)
    <3>1. \A ec \in {"ok", "error"} : Handler("write", ec, Head(writes)) \in Handlers
      BY <2>1, HandlerType DEF Outcomes
    <3>2. \E ec \in {"ok", "error"} :
             ready' = Append(ready, Handler("write", ec, Head(writes)))
      BY <1>9 DEF WriteCompletes, WriteBreaks
    <3>3. ready \in Seq(Handlers)
      BY DEF ConnTypeOK
    <3> QED BY <3>1, <3>2, <3>3
  <2>3. wire' \in Seq(Node)
    <3>1. wire \in Seq(Node) /\ Append(wire, Head(writes)) \in Seq(Node)
      BY <2>1 DEF ConnTypeOK
    <3> QED BY <1>9, <3>1 DEF WriteCompletes, WriteBreaks
  <2> QED BY <1>9, <2>1, <2>2, <2>3 DEF WriteCompletes, WriteBreaks, ConnTypeOK
<1>10. ASSUME NEW ec \in {"ok", "bad", "error"}, ReadCompletes(ec) PROVE ConnTypeOK'
  <2>1. Head(reads) \in {"head", "body"} /\ Tail(reads) \in Seq({"head", "body"})
    BY <1>10 DEF ReadCompletes, ConnTypeOK
  <2>2. ready' \in Seq(Handlers)
    BY <1>10, <2>1, HandlerType DEF ReadCompletes, Outcomes, ConnTypeOK
  <2>3. inbound' \in 0..MaxInbound
    BY <1>10, ConnectionAssumption DEF ReadCompletes, ConnTypeOK
  <2> QED BY <1>10, <2>1, <2>2, <2>3 DEF ReadCompletes, ConnTypeOK
<1>11. CASE UNCHANGED connVars
  BY <1>11 DEF connVars, ConnTypeOK
<1> QED
  BY <1>1, <1>2, <1>3, <1>4, <1>5, <1>6, <1>7, <1>8, <1>9, <1>10, <1>11
  DEF ConnNext, Network

LEMMA TypeInit == ConnInit(TRUE) => ConnTypeOK
<1>1. /\ 0 \in 0..MaxSendBufLen /\ 0 \in 0..MaxSends /\ 0 \in 0..MaxStops
      /\ 0 \in 0..MaxInbound /\ 0 \in 0..MaxStarts
  BY ConnectionAssumption
<1>2. <<>> \in Seq(Node) /\ <<>> \in Seq(Handlers) /\ <<>> \in Seq({"head", "body"})
  OBVIOUS
<1> QED BY <1>1, <1>2 DEF ConnInit, ConnTypeOK

THEOREM TypeCorrect == ConnSpec => []ConnTypeOK
  BY TypeInit, TypeStep, PTL DEF ConnSpec
-----------------------------------------------------------------------------
(* The handler queue.                                                      *)

\* close() appends one completion per operation in flight, so it keeps at most
\* one completion of a set of kinds where there was at most one operation.
LEMMA CancelKinds ==
  ASSUME ConnTypeOK, NEW r \in Seq(Handlers), NEW K \in {{"write"}, {"head", "body"}},
         Len(writes) <= 1, Len(reads) <= 1, AtMostOne(r, K),
         (IF K = {"write"} THEN writes ELSE reads) # <<>> => ~Waiting(r, K)
  PROVE  AtMostOne(r \o Cancelled, K)
<1> DEFINE c == Cancelled
           s == r \o c
<1>1. /\ Len(reads) \in {0, 1} /\ Len(writes) \in {0, 1}
      /\ \A i \in DOMAIN reads : reads[i] \in {"head", "body"}
      /\ reads = <<>> <=> Len(reads) = 0
      /\ writes = <<>> <=> Len(writes) = 0
  <2>1. reads \in Seq({"head", "body"}) /\ writes \in Seq(Node)
    BY DEF ConnTypeOK
  <2>2. Len(reads) \in Nat /\ Len(writes) \in Nat
    BY <2>1
  <2>3. Len(reads) \in {0, 1} /\ Len(writes) \in {0, 1}
    <3>1. \A k \in Nat : k <= 1 => k \in {0, 1}
      OBVIOUS
    <3>2. Len(reads) <= 1 /\ Len(writes) <= 1
      OBVIOUS
    <3> QED BY <2>2, <3>1, <3>2
  <2>4. \A i \in DOMAIN reads : reads[i] \in {"head", "body"}
    BY <2>1
  <2>5. (reads = <<>> <=> Len(reads) = 0) /\ (writes = <<>> <=> Len(writes) = 0)
    BY <2>1
  <2> QED BY <2>3, <2>4, <2>5
<1>2. /\ c \in Seq(Handlers)
      /\ Len(c) = Len(reads) + Len(writes)
      /\ \A i \in 1..Len(reads) : c[i].kind = reads[i]
      /\ \A i \in 1..Len(writes) : c[Len(reads) + i].kind = "write"
  BY SMTT(20), CancelledType DEF Cancelled, Handler, ConnTypeOK
<1>3. \A i, j \in DOMAIN c : c[i].kind \in K /\ c[j].kind \in K => i = j
  BY <1>1, <1>2
<1>4. (\E i \in DOMAIN c : c[i].kind \in K) => ~Waiting(r, K)
  BY <1>1, <1>2
<1>5. /\ s \in Seq(Handlers) /\ Len(r) \in Nat
      /\ \A i \in DOMAIN s : \/ i \in DOMAIN r /\ s[i] = r[i]
                             \/ i - Len(r) \in DOMAIN c /\ s[i] = c[i - Len(r)]
  BY <1>2
<1> HIDE DEF c, s
<1>6. ASSUME NEW i \in DOMAIN s, NEW j \in DOMAIN s, s[i].kind \in K, s[j].kind \in K
      PROVE  i = j
  <2>1. i \in Int /\ j \in Int
    BY <1>5
  <2>2. CASE i \in DOMAIN r /\ s[i] = r[i] /\ j \in DOMAIN r /\ s[j] = r[j]
    BY <1>6, <2>2 DEF AtMostOne
  <2>3. CASE /\ i - Len(r) \in DOMAIN c /\ s[i] = c[i - Len(r)]
             /\ j - Len(r) \in DOMAIN c /\ s[j] = c[j - Len(r)]
    <3>1. i - Len(r) = j - Len(r)
      BY <1>3, <1>6, <2>3
    <3> QED BY <3>1, <2>1, <1>5
  <2>4. CASE i \in DOMAIN r /\ s[i] = r[i] /\ j - Len(r) \in DOMAIN c /\ s[j] = c[j - Len(r)]
    BY <1>4, <1>6, <2>4 DEF Waiting
  <2>5. CASE j \in DOMAIN r /\ s[j] = r[j] /\ i - Len(r) \in DOMAIN c /\ s[i] = c[i - Len(r)]
    BY <1>4, <1>6, <2>5 DEF Waiting
  <2> QED BY <1>5, <1>6, <2>2, <2>3, <2>4, <2>5
<1> QED BY <1>6 DEF AtMostOne, s, c
-----------------------------------------------------------------------------
(* The inductive invariant.  SingleWriter and ReaderAlive need each other's *)
(* context: that a closed connection is clean, and that a closing one is    *)
(* not closed before its last write is answered.                            *)

Structure == ClosedIsClean /\ SingleWriter /\ CloseHasDriver /\ ReaderAlive
IInv == ConnTypeOK /\ Structure

\* A step that leaves the connection closed.
LEMMA ClosedStructure ==
  ASSUME closeSocket' = TRUE, sockOpen' = FALSE, closing' = TRUE,
         sendQueue' = <<>>, reads' = <<>>, writes' = <<>>,
         AtMostOne(ready', {"write"}), AtMostOne(ready', {"head", "body"})
  PROVE  Structure'
<1>1. Len(reads') <= 1 /\ Len(writes') <= 1
  OBVIOUS
<1> QED
  BY <1>1 DEF Structure, ClosedIsClean, SingleWriter, CloseHasDriver, ReaderAlive,
              Exclusive, Outstanding

\* The step of a handler that closes the socket, from any state.
LEMMA HandlerExclusive ==
  ASSUME IInv, ready # <<>>, NEW K
  PROVE  /\ K = {"write"} => /\ AtMostOne(Rest, K)
                             /\ writes # <<>> => ~Waiting(Rest, K)
         /\ K = {"head", "body"} => /\ AtMostOne(Rest, K)
                                    /\ reads # <<>> => ~Waiting(Rest, K)
<1>1. ready \in Seq(Handlers)
  BY DEF IInv, ConnTypeOK
<1>2. /\ AtMostOne(ready, {"write"}) /\ AtMostOne(ready, {"head", "body"})
      /\ writes # <<>> => ~Waiting(ready, {"write"})
      /\ reads # <<>> => ~Waiting(ready, {"head", "body"})
  BY DEF IInv, Structure, SingleWriter, ReaderAlive, Exclusive
<1>3. \A L : AtMostOne(ready, L) =>
               AtMostOne(Rest, L) /\ (Waiting(Rest, L) => Waiting(ready, L))
  BY <1>1, RunKinds DEF Rest, Waiting
<1> QED BY <1>2, <1>3

LEMMA SocketCloseStructure ==
  ASSUME IInv, ready # <<>>, NEW len, SocketClose(len, Rest), ~closeSocket,
         closing' = TRUE, sendQueue' = <<>>
  PROVE  Structure'
<1>1. Rest \in Seq(Handlers)
  BY RestType DEF IInv
<1>2. Len(writes) <= 1 /\ Len(reads) <= 1
  BY DEF IInv, Structure, SingleWriter, ReaderAlive, Exclusive
<1>3. AtMostOne(Rest \o Cancelled, {"write"})
  BY <1>1, <1>2, HandlerExclusive, CancelKinds DEF IInv
<1>4. AtMostOne(Rest \o Cancelled, {"head", "body"})
  BY <1>1, <1>2, HandlerExclusive, CancelKinds DEF IInv
<1>5. /\ closeSocket' = TRUE /\ sockOpen' = FALSE /\ reads' = <<>> /\ writes' = <<>>
      /\ ready' = Rest \o Cancelled
  BY DEF SocketClose
<1> QED BY <1>3, <1>4, <1>5, ClosedStructure

LEMMA StaysClosed ==
  ASSUME IInv, closeSocket, ready # <<>>, ready' = Rest,
         UNCHANGED <<closeSocket, closing, sendQueue, sockOpen, reads, writes>>
  PROVE  Structure'
<1>1. /\ closing /\ sendQueue = <<>> /\ reads = <<>> /\ writes = <<>>
      /\ closeSocket = TRUE /\ sockOpen = FALSE /\ closing = TRUE
  BY DEF IInv, ConnTypeOK, Structure, ClosedIsClean
<1> QED BY <1>1, HandlerExclusive, ClosedStructure

LEMMA ErrToCloseStructure ==
  ASSUME IInv, ready # <<>>, ErrToClose(Rest)
  PROVE  Structure'
<1>1. CASE closeSocket
  BY <1>1, StaysClosed DEF ErrToClose, queue
<1>2. CASE ~closeSocket
  BY <1>2, SocketCloseStructure DEF ErrToClose
<1> QED BY <1>1, <1>2
\* A step that neither starts nor answers an operation: it may post requests,
\* queue a message behind others, or set `closing' while a write is in flight.
LEMMA NeutralStructure ==
  ASSUME IInv,
         UNCHANGED <<started, closeSocket, sending, sockOpen, reads, writes>>,
         sendQueue' = <<>> <=> sendQueue = <<>>,
         sendQueue # <<>> => Head(sendQueue') = Head(sendQueue),
         closeSocket => sendQueue' = <<>>,
         closing' \in BOOLEAN, closing => closing', closing' /\ ~closing => sending,
         Waiting(ready', {"write"}) <=> Waiting(ready, {"write"}),
         AtMostOne(ready', {"write"}),
         Waiting(ready', {"head", "body"}) => Waiting(ready, {"head", "body"}),
         ~closing => (Waiting(ready', {"head", "body"}) <=> Waiting(ready, {"head", "body"})),
         AtMostOne(ready', {"head", "body"}),
         \A i \in DOMAIN ready' :
            \/ \E j \in DOMAIN ready : ready'[i] = ready[j]
            \/ ready'[i].kind # "write" /\ ready'[i].ec = "ok"
  PROVE  Structure'
<1>1. ClosedIsClean'
  BY DEF IInv, Structure, ClosedIsClean
<1>2. SingleWriter'
  <2>1. Exclusive(writes, {"write"})'
    BY DEF IInv, Structure, SingleWriter, Exclusive
  <2>2. ASSUME ~closeSocket'
        PROVE  /\ sending' <=> (sendQueue' # <<>>)
               /\ sending' <=> Outstanding(writes, {"write"})'
    BY <2>2 DEF IInv, Structure, SingleWriter, Outstanding
  <2>3. ASSUME ~closeSocket', NEW i \in DOMAIN writes'
        PROVE  writes'[i] = Head(sendQueue')
    <3>1. i \in DOMAIN writes /\ writes # <<>>
      BY <2>3 DEF IInv, ConnTypeOK
    <3>2. sendQueue # <<>> /\ writes[i] = Head(sendQueue)
      BY <2>3, <3>1 DEF IInv, Structure, SingleWriter, Outstanding
    <3> QED BY <3>2
  <2>4. ASSUME ~closeSocket', NEW i \in DOMAIN ready', ready'[i].kind = "write"
        PROVE  ready'[i].node = Head(sendQueue')
    <3>1. PICK j \in DOMAIN ready : ready'[i] = ready[j]
      BY <2>4
    <3>2. sendQueue # <<>> /\ ready[j].node = Head(sendQueue)
      BY <2>4, <3>1 DEF IInv, Structure, SingleWriter, Outstanding, Waiting
    <3> QED BY <3>1, <3>2
  <2> QED BY <2>1, <2>2, <2>3, <2>4 DEF SingleWriter
<1>3. CloseHasDriver'
  BY DEF IInv, Structure, CloseHasDriver, SingleWriter, Outstanding
<1>4. ReaderAlive'
  BY DEF IInv, Structure, ReaderAlive, Exclusive, Outstanding
<1> QED BY <1>1, <1>2, <1>3, <1>4 DEF Structure

\* A request posted by another thread.
LEMMA PostStructure ==
  ASSUME IInv, NEW h \in Handlers, h.kind \in {"send", "close"}, h.ec = "ok",
         ready' = Append(ready, h),
         UNCHANGED <<flags, queue, sockOpen, reads, writes>>
  PROVE  Structure'
<1>1. ready \in Seq(Handlers) /\ closing \in BOOLEAN
  BY DEF IInv, ConnTypeOK
<1>2. /\ AtMostOne(ready, {"write"}) /\ AtMostOne(ready, {"head", "body"})
      /\ closeSocket => sendQueue = <<>>
  BY DEF IInv, Structure, SingleWriter, ReaderAlive, Exclusive, ClosedIsClean
<1>3. \A K \in {{"write"}, {"head", "body"}} : h.kind \notin K
  OBVIOUS
<1>4. \A K \in {{"write"}, {"head", "body"}} :
         /\ Waiting(ready', K) <=> Waiting(ready, K)
         /\ AtMostOne(ready, K) => AtMostOne(ready', K)
  BY <1>1, <1>3, PostKinds
<1>5. \A i \in DOMAIN ready' : \/ \E j \in DOMAIN ready : ready'[i] = ready[j]
                               \/ ready'[i] = h
  BY <1>1, AppendElements
<1>6. h.kind # "write"
  OBVIOUS
<1> QED BY <1>1, <1>2, <1>4, <1>5, <1>6, NeutralStructure DEF flags, queue

\* A handler that only posts a close request, or nothing.
LEMMA SkipStructure ==
  ASSUME IInv, ready # <<>>, Head(ready).kind # "write",
         Head(ready).kind \in {"head", "body"} => closing,
         ready' \in {Rest, Append(Rest, CloseRequest)},
         UNCHANGED <<started, closeSocket, sending, sockOpen, reads, writes>>,
         sendQueue' = <<>> <=> sendQueue = <<>>,
         sendQueue # <<>> => Head(sendQueue') = Head(sendQueue),
         closeSocket => sendQueue' = <<>>,
         closing' \in BOOLEAN, closing => closing', closing' /\ ~closing => sending
  PROVE  Structure'
<1>1. ready \in Seq(Handlers) /\ Rest \in Seq(Handlers)
  BY RestType DEF IInv, ConnTypeOK
<1>2. AtMostOne(ready, {"write"}) /\ AtMostOne(ready, {"head", "body"})
  BY DEF IInv, Structure, SingleWriter, ReaderAlive, Exclusive
<1>3. \A K \in {{"write"}, {"head", "body"}} :
         /\ AtMostOne(Rest, K)
         /\ Head(ready).kind \notin K => (Waiting(Rest, K) <=> Waiting(ready, K))
         /\ Head(ready).kind \in K => ~Waiting(Rest, K)
  BY <1>1, <1>2, RunKinds DEF Rest
<1>4. CloseRequest \in Handlers /\ CloseRequest.kind = "close" /\ CloseRequest.ec = "ok"
  BY HandlerType DEF CloseRequest, Handler, Outcomes
<1>5. \A K \in {{"write"}, {"head", "body"}} :
         /\ Waiting(ready', K) <=> Waiting(Rest, K)
         /\ AtMostOne(ready', K)
  <2>1. CASE ready' = Rest
    BY <2>1, <1>3
  <2>2. CASE ready' = Append(Rest, CloseRequest)
    <3>1. \A K \in {{"write"}, {"head", "body"}} : CloseRequest.kind \notin K
      BY <1>4
    <3> QED BY <2>2, <3>1, <1>1, <1>3, <1>4, PostKinds
  <2> QED BY <2>1, <2>2
<1>6. \A i \in DOMAIN ready' : \/ \E j \in DOMAIN Rest : ready'[i] = Rest[j]
                               \/ ready'[i] = CloseRequest
  <2>1. CASE ready' = Rest
    BY <2>1
  <2>2. CASE ready' = Append(Rest, CloseRequest)
    BY <2>2, <1>1, <1>4, AppendElements
  <2> QED BY <2>1, <2>2
<1>7. \A i \in DOMAIN Rest : \E j \in DOMAIN ready : Rest[i] = ready[j]
  BY <1>1, TailElements DEF Rest
<1>8. \A i \in DOMAIN ready' :
         \/ \E j \in DOMAIN ready : ready'[i] = ready[j]
         \/ ready'[i].kind # "write" /\ ready'[i].ec = "ok"
  BY <1>4, <1>6, <1>7
<1>9. /\ Waiting(ready', {"write"}) <=> Waiting(ready, {"write"})
      /\ AtMostOne(ready', {"write"})
  BY <1>3, <1>5
<1>10. /\ Waiting(ready', {"head", "body"}) => Waiting(ready, {"head", "body"})
       /\ ~closing => (Waiting(ready', {"head", "body"}) <=> Waiting(ready, {"head", "body"}))
       /\ AtMostOne(ready', {"head", "body"})
  BY <1>3, <1>5
<1> QED BY <1>8, <1>9, <1>10, NeutralStructure
\* What is left of the queue when its head is taken.
LEMMA RestFacts ==
  ASSUME IInv, ready # <<>>
  PROVE  /\ 1 \in DOMAIN ready /\ ready[1] = Head(ready)
         /\ \A i \in DOMAIN Rest : \E j \in DOMAIN ready : Rest[i] = ready[j]
         /\ AtMostOne(Rest, {"write"}) /\ AtMostOne(Rest, {"head", "body"})
         /\ IF Head(ready).kind = "write"
            THEN writes = <<>> /\ ~Waiting(Rest, {"write"})
            ELSE Waiting(Rest, {"write"}) <=> Waiting(ready, {"write"})
         /\ IF Head(ready).kind \in {"head", "body"}
            THEN reads = <<>> /\ ~Waiting(Rest, {"head", "body"})
            ELSE Waiting(Rest, {"head", "body"}) <=> Waiting(ready, {"head", "body"})
<1>1. ready \in Seq(Handlers)
  BY DEF IInv, ConnTypeOK
<1>2. /\ AtMostOne(ready, {"write"}) /\ AtMostOne(ready, {"head", "body"})
      /\ writes # <<>> => ~Waiting(ready, {"write"})
      /\ reads # <<>> => ~Waiting(ready, {"head", "body"})
  BY DEF IInv, Structure, SingleWriter, ReaderAlive, Exclusive
<1>3. 1 \in DOMAIN ready /\ ready[1] = Head(ready)
  BY <1>1
<1>4. \A i \in DOMAIN Rest : \E j \in DOMAIN ready : Rest[i] = ready[j]
  BY <1>1, TailElements DEF Rest
<1>5. /\ AtMostOne(Rest, {"write"})
      /\ Head(ready).kind \in {"write"} => ~Waiting(Rest, {"write"})
      /\ Head(ready).kind \notin {"write"} =>
            (Waiting(Rest, {"write"}) <=> Waiting(ready, {"write"}))
  BY <1>1, <1>2, RunKinds DEF Rest
<1>6. /\ AtMostOne(Rest, {"head", "body"})
      /\ Head(ready).kind \in {"head", "body"} => ~Waiting(Rest, {"head", "body"})
      /\ Head(ready).kind \notin {"head", "body"} =>
            (Waiting(Rest, {"head", "body"}) <=> Waiting(ready, {"head", "body"}))
  BY <1>1, <1>2, RunKinds DEF Rest
<1>7. /\ Head(ready).kind \in {"write"} => writes = <<>>
      /\ Head(ready).kind \in {"head", "body"} => reads = <<>>
  BY <1>2, <1>3 DEF Waiting
<1> QED BY <1>3, <1>4, <1>5, <1>6, <1>7

\* A write is started for the queue's front when none is outstanding.
LEMMA StartWriteStructure ==
  ASSUME IInv, ready # <<>>, ~closeSocket, Head(ready).kind \notin {"head", "body"},
         writes = <<>>, ~Waiting(Rest, {"write"}),
         sendQueue' \in Seq(Node), sendQueue' # <<>>, DoSend(sendQueue', Rest),
         UNCHANGED <<started, closing, closeSocket, sockOpen, reads>>
  PROVE  Structure'
<1>1. sockOpen
  BY DEF IInv, Structure, ClosedIsClean
<1>2. ready' = Rest /\ sending' = TRUE /\ writes' = <<Head(sendQueue')>>
  BY <1>1 DEF DoSend, AsyncWrite
<1>3. /\ Len(writes') <= 1 /\ writes' # <<>>
      /\ \A i \in DOMAIN writes' : writes'[i] = Head(sendQueue')
  BY <1>2
<1>4. ClosedIsClean'
  BY <1>2, RestFacts DEF IInv, Structure, ClosedIsClean
<1>5. SingleWriter'
  BY <1>2, <1>3, RestFacts DEF SingleWriter, Exclusive, Outstanding, Waiting
<1>6. CloseHasDriver'
  BY <1>3 DEF CloseHasDriver, Outstanding
<1>7. ReaderAlive'
  BY <1>2, RestFacts DEF IInv, Structure, ReaderAlive, Exclusive, Outstanding
<1> QED BY <1>4, <1>5, <1>6, <1>7 DEF Structure

\* A read is started when none is outstanding; `r' is the queue without the
\* handler that starts it.
LEMMA StartReadStructure ==
  ASSUME IInv, ~closing, reads = <<>>, NEW k \in {"head", "body"},
         started' = TRUE,
         \/ ready # <<>> /\ Head(ready).kind # "write" /\ AsyncRead(k, Rest)
            /\ ~Waiting(Rest, {"head", "body"})
         \/ AsyncRead(k, ready) /\ ~Waiting(ready, {"head", "body"}),
         UNCHANGED <<sending, closing, closeSocket, sendQueue, sockOpen, writes>>
  PROVE  Structure'
<1>1. sockOpen /\ ~closeSocket
  BY DEF IInv, Structure, ClosedIsClean
<1>2. /\ reads' = <<k>>
      /\ \/ ready' = ready
         \/ ready # <<>> /\ Head(ready).kind # "write" /\ ready' = Rest
      /\ ~Waiting(ready', {"head", "body"})
  BY <1>1 DEF AsyncRead
<1>3. Len(reads') <= 1 /\ reads' # <<>>
  BY <1>2
<1>4. \A i \in DOMAIN ready' : \E j \in DOMAIN ready : ready'[i] = ready[j]
  BY <1>2, RestFacts
<1>5. /\ Waiting(ready', {"write"}) <=> Waiting(ready, {"write"})
      /\ AtMostOne(ready', {"write"})
  BY <1>2, RestFacts DEF IInv, Structure, SingleWriter, Exclusive
<1>6. ClosedIsClean'
  BY <1>1, <1>4 DEF IInv, Structure, ClosedIsClean
<1>7. SingleWriter'
  BY <1>1, <1>4, <1>5 DEF IInv, Structure, SingleWriter, Exclusive, Outstanding
<1>8. CloseHasDriver'
  BY DEF CloseHasDriver
<1>9. ReaderAlive'
  BY <1>2, <1>3 DEF ReaderAlive, Exclusive, Outstanding, Waiting, AtMostOne
<1> QED BY <1>6, <1>7, <1>8, <1>9 DEF Structure
\* The last frame queued is answered and the connection stays open.
LEMMA WriteIdleStructure ==
  ASSUME IInv, ready # <<>>, ~closeSocket, ~closing, Head(ready).kind = "write",
         sendQueue' = <<>>, sending' = FALSE, ready' = Rest,
         UNCHANGED <<started, closing, closeSocket, sockOpen, reads, writes>>
  PROVE  Structure'
<1>1. ClosedIsClean'
  BY RestFacts DEF IInv, Structure, ClosedIsClean
<1>2. SingleWriter'
  BY RestFacts DEF IInv, Structure, SingleWriter, Exclusive, Outstanding, Waiting
<1>3. CloseHasDriver'
  BY DEF CloseHasDriver
<1>4. ReaderAlive'
  BY RestFacts DEF IInv, Structure, ReaderAlive, Exclusive, Outstanding
<1> QED BY <1>1, <1>2, <1>3, <1>4 DEF Structure

\* The reactor answers the write in flight.
LEMMA WriteAnswered ==
  ASSUME IInv, WriteCompletes \/ WriteBreaks
  PROVE  Structure'
<1> DEFINE f == Head(sendQueue)
<1>1. PICK ec \in {"ok", "error"} :
         ready' = Append(ready, Handler("write", ec, Head(writes)))
  BY DEF WriteCompletes, WriteBreaks
<1> DEFINE h == Handler("write", ec, Head(writes))
<1>2. /\ writes # <<>> /\ writes' = Tail(writes)
      /\ UNCHANGED <<flags, queue, sockOpen, reads>>
  BY DEF WriteCompletes, WriteBreaks
<1>3. ready \in Seq(Handlers) /\ writes \in Seq(Node) /\ Head(writes) \in Node
  BY <1>2 DEF IInv, ConnTypeOK
<1>4. h \in Handlers /\ h.kind = "write" /\ h.ec # "aborted" /\ h.node = Head(writes)
  <2>1. h \in Handlers
    BY <1>3, HandlerType DEF Outcomes
  <2> QED BY <2>1 DEF Handler
<1>5. ~closeSocket
  BY <1>2 DEF IInv, Structure, ClosedIsClean
<1>6. writes' = <<>> /\ Head(writes) = f
  <2>1. Len(writes) <= 1 /\ writes[1] = f
    BY <1>2, <1>3, <1>5 DEF IInv, Structure, SingleWriter, Exclusive
  <2> QED BY <2>1, <1>2, <1>3
<1> HIDE DEF h
<1>7. /\ Waiting(ready', {"write"}) /\ AtMostOne(ready', {"write"})
      /\ Waiting(ready', {"head", "body"}) <=> Waiting(ready, {"head", "body"})
      /\ AtMostOne(ready', {"head", "body"})
  <2>1. ~Waiting(ready, {"write"}) /\ AtMostOne(ready, {"head", "body"})
    BY <1>2 DEF IInv, Structure, SingleWriter, ReaderAlive, Exclusive
  <2>2. h.kind \in {"write"} /\ h.kind \notin {"head", "body"}
    BY <1>4
  <2> QED BY <1>1, <1>3, <1>4, <2>1, <2>2, PostKinds DEF h
<1>8. \A i \in DOMAIN ready' :
         \/ i \in DOMAIN ready /\ ready'[i] = ready[i]
         \/ ready'[i] = h
  BY <1>1, <1>3, <1>4, AppendElements DEF h
<1>9. ClosedIsClean'
  BY <1>2, <1>4, <1>5, <1>8 DEF IInv, Structure, ClosedIsClean, flags, queue
<1>10. SingleWriter'
  <2>1. Exclusive(writes, {"write"})'
    <3>1. Len(writes') <= 1
      BY <1>6
    <3> QED BY <3>1, <1>6, <1>7 DEF Exclusive
  <2>2. /\ sending' = sending /\ sendQueue' = sendQueue
        /\ sending <=> sendQueue # <<>>
        /\ sending
    BY <1>2, <1>5 DEF IInv, Structure, SingleWriter, Outstanding, flags, queue
  <2>3. Outstanding(writes, {"write"})'
    BY <1>7 DEF Outstanding
  <2>4. \A i \in DOMAIN ready' :
           ready'[i].kind = "write" => ready'[i].node = Head(sendQueue')
    BY <1>4, <1>5, <1>6, <1>8, <2>2 DEF IInv, Structure, SingleWriter
  <2>5. \A i \in DOMAIN writes' : writes'[i] = Head(sendQueue')
    BY <1>6
  <2> QED BY <2>1, <2>2, <2>3, <2>4, <2>5 DEF SingleWriter
<1>11. CloseHasDriver'
  BY <1>7 DEF CloseHasDriver, Outstanding
<1>12. ReaderAlive'
  BY <1>2, <1>7 DEF IInv, Structure, ReaderAlive, Exclusive, Outstanding, flags
<1> QED BY <1>9, <1>10, <1>11, <1>12 DEF Structure

\* The reactor answers the read in flight.
LEMMA ReadAnswered ==
  ASSUME IInv, NEW ec \in {"ok", "bad", "error"}, ReadCompletes(ec)
  PROVE  Structure'
<1> DEFINE h == Handler(Head(reads), ec, NoNode)
<1>2. /\ reads # <<>> /\ reads' = Tail(reads) /\ ready' = Append(ready, h)
      /\ UNCHANGED <<flags, queue, sockOpen, writes>>
  BY DEF ReadCompletes
<1>3. /\ ready \in Seq(Handlers) /\ reads \in Seq({"head", "body"})
      /\ Head(reads) \in {"head", "body"}
  BY <1>2 DEF IInv, ConnTypeOK
<1>4. h \in Handlers /\ h.kind \in {"head", "body"} /\ h.ec # "aborted"
  <2>1. h \in Handlers
    BY <1>3, HandlerType DEF Outcomes
  <2> QED BY <1>3, <2>1 DEF Handler
<1>5. ~closeSocket
  BY <1>2 DEF IInv, Structure, ClosedIsClean
<1>6. reads' = <<>>
  <2>1. Len(reads) <= 1
    BY DEF IInv, Structure, ReaderAlive, Exclusive
  <2> QED BY <2>1, <1>2, <1>3
<1> HIDE DEF h
<1>7. /\ Waiting(ready', {"head", "body"}) /\ AtMostOne(ready', {"head", "body"})
      /\ Waiting(ready', {"write"}) <=> Waiting(ready, {"write"})
      /\ AtMostOne(ready', {"write"})
  <2>1. ~Waiting(ready, {"head", "body"}) /\ AtMostOne(ready, {"write"})
    BY <1>2 DEF IInv, Structure, SingleWriter, ReaderAlive, Exclusive
  <2>2. h.kind \notin {"write"}
    BY <1>4
  <2> QED BY <1>2, <1>3, <1>4, <2>1, <2>2, PostKinds
<1>8. \A i \in DOMAIN ready' :
         \/ i \in DOMAIN ready /\ ready'[i] = ready[i]
         \/ ready'[i] = h
  BY <1>2, <1>3, <1>4, AppendElements
<1>9. ClosedIsClean'
  BY <1>2, <1>4, <1>5, <1>8 DEF IInv, Structure, ClosedIsClean, flags, queue
<1>10. SingleWriter'
  <2>1. h.kind # "write"
    BY <1>4
  <2> QED BY <1>2, <1>7, <1>8, <2>1
      DEF IInv, Structure, SingleWriter, Exclusive, Outstanding, flags, queue
<1>11. CloseHasDriver'
  BY <1>2, <1>7 DEF IInv, Structure, CloseHasDriver, Outstanding, flags
<1>12. ReaderAlive'
  <2>1. Len(reads') <= 1
    BY <1>6
  <2>2. closing' = closing /\ started' = started
    BY <1>2 DEF flags
  <2>3. ~closing => started
    BY <1>2 DEF IInv, Structure, ReaderAlive, Outstanding
  <2> QED BY <1>6, <1>7, <2>1, <2>2, <2>3 DEF ReaderAlive, Exclusive, Outstanding
<1> QED BY <1>9, <1>10, <1>11, <1>12 DEF Structure
-----------------------------------------------------------------------------
\* Every step preserves the invariant, one case per action.
LEMMA StructureStep == IInv /\ [ConnNext]_connVars => Structure'
<1> SUFFICES ASSUME IInv, [ConnNext]_connVars PROVE Structure'
  OBVIOUS
<1> USE DEF flags, queue, io, history, bounded
<1>0. ConnTypeOK /\ ready \in Seq(Handlers) /\ closing \in BOOLEAN /\ sendQueue \in Seq(Node)
  BY DEF IInv, ConnTypeOK
<1>1. ASSUME NEW m \in Msgs, ToSend(m) PROVE Structure'
  <2> DEFINE h == Handler("send", "ok", [seq |-> sends + 1, msg |-> m])
  <2>1. [seq |-> sends + 1, msg |-> m] \in Node
    BY <1>1, ConnectionAssumption DEF ToSend, Node, IInv, ConnTypeOK
  <2>2. h \in Handlers
    BY <2>1, HandlerType DEF Outcomes
  <2>3. h.kind = "send" /\ h.ec = "ok"
    BY DEF Handler
  <2> QED BY <1>1, <2>2, <2>3, PostStructure DEF ToSend
<1>2. CASE StopToClose
  <2>1. CloseRequest \in Handlers /\ CloseRequest.kind = "close" /\ CloseRequest.ec = "ok"
    BY HandlerType DEF CloseRequest, Handler, Outcomes
  <2> QED BY <1>2, <2>1, PostStructure DEF StopToClose
<1>3. CASE ~closing /\ Start
  <2>1. CASE StartsReading
    <3>1. reads = <<>> /\ ~Waiting(ready, {"head", "body"})
      BY <1>3, <2>1 DEF IInv, Structure, ReaderAlive, Outstanding, StartsReading
    <3>2. "head" \in {"head", "body"}
      OBVIOUS
    <3> QED BY <1>3, <2>1, <3>1, <3>2, StartReadStructure DEF Start
  <2>2. CASE ~StartsReading
    <3>1. started /\ UNCHANGED <<flags, queue, sockOpen, ready, reads, writes>>
      BY <1>3, <2>2, <1>0 DEF Start, StartsReading, ConnTypeOK
    <3> QED BY <3>1 DEF IInv, Structure, ClosedIsClean, SingleWriter, CloseHasDriver,
                        ReaderAlive, Exclusive, Outstanding
  <2> QED BY <2>1, <2>2
<1>4. CASE RunSend
  <2>0. ready # <<>> /\ Head(ready).kind = "send"
    BY <1>4 DEF RunSend, RefuseSend, DropSend, EnqueueSend, Running
  <2>1. CASE RefuseSend \/ DropSend
    <3>1. closeSocket => sendQueue' = <<>>
      BY <2>1 DEF RefuseSend, DropSend, IInv, Structure, ClosedIsClean
    <3> QED BY <1>0, <2>0, <2>1, <3>1, SkipStructure DEF RefuseSend, DropSend
  <2>2. CASE EnqueueSend
    <3> DEFINE n == Head(ready).node
    <3>1. /\ ~closing /\ sendQueue' = Append(sendQueue, n)
          /\ UNCHANGED <<started, closing, closeSocket, sockOpen, reads>>
      BY <2>2 DEF EnqueueSend
    <3>2. ~closeSocket
      BY <3>1 DEF IInv, Structure, ClosedIsClean
    <3>3. n \in Node /\ sendQueue' \in Seq(Node) /\ sendQueue' # <<>>
      BY <1>0, <2>0, <3>1, RestType
    <3>4. CASE StartsWriting
      <4>1. sendQueue = <<>> /\ writes = <<>> /\ ~Waiting(ready, {"write"})
        BY <3>2, <3>4 DEF IInv, Structure, SingleWriter, Outstanding, StartsWriting
      <4>2. ~Waiting(Rest, {"write"})
        BY <2>0, <4>1, RestFacts
      <4>3. DoSend(sendQueue', Rest)
        BY <2>2, <3>1, <3>4 DEF EnqueueSend
      <4> QED BY <2>0, <3>1, <3>2, <3>3, <4>1, <4>2, <4>3, StartWriteStructure
    <3>5. CASE ~StartsWriting
      <4>1. sending /\ sendQueue # <<>>
        BY <3>2, <3>5 DEF IInv, Structure, SingleWriter, StartsWriting
      <4>2. Head(sendQueue') = Head(sendQueue)
        BY <1>0, <3>1, <3>3, <4>1
      <4>3. ready' = Rest /\ UNCHANGED <<sending, writes>>
        BY <2>2, <3>5 DEF EnqueueSend
      <4> QED BY <1>0, <2>0, <3>1, <3>2, <3>3, <4>1, <4>2, <4>3, SkipStructure
    <3> QED BY <3>4, <3>5
  <2> QED BY <1>4, <2>1, <2>2 DEF RunSend
<1>5. CASE RunClose
  <2>0. ready # <<>> /\ Head(ready).kind = "close"
    BY <1>5 DEF RunClose, RepeatClose, BeginClose, Running
  <2>1. CASE RepeatClose
    <3>1. closeSocket => sendQueue' = <<>>
      BY <2>1 DEF RepeatClose, IInv, Structure, ClosedIsClean
    <3> QED BY <1>0, <2>0, <2>1, <3>1, SkipStructure DEF RepeatClose
  <2>2. CASE BeginClose
    <3>1. ~closing /\ ~closeSocket /\ closing' = TRUE
      BY <2>2 DEF BeginClose, IInv, Structure, ClosedIsClean
    <3>2. CASE sending
      BY <1>0, <2>0, <2>2, <3>1, <3>2, SkipStructure DEF BeginClose
    <3>3. CASE ~sending
      <4>1. sendQueue = <<>>
        BY <3>1, <3>3 DEF IInv, Structure, SingleWriter
      <4>2. SocketClose(queueBufLen, Rest) /\ sendQueue' = <<>>
        BY <2>2, <3>3, <4>1 DEF BeginClose
      <4> QED BY <2>0, <3>1, <4>2, SocketCloseStructure
    <3> QED BY <3>2, <3>3
  <2> QED BY <1>5, <2>1, <2>2 DEF RunClose
<1>6. CASE RunWrite
  <2>0. ready # <<>> /\ Head(ready).kind = "write"
    BY <1>6 DEF RunWrite, WriteOk, WriteFailed, Running
  <2>1. CASE WriteFailed
    BY <2>0, <2>1, ErrToCloseStructure DEF WriteFailed
  <2>2. CASE WriteOk
    <3> DEFINE n == Head(ready).node
               popped == sendQueue # <<>> /\ Head(sendQueue) = n
               q == IF popped THEN Tail(sendQueue) ELSE sendQueue
               len == IF popped THEN Released(queueBufLen, n) ELSE queueBufLen
    <3>1. /\ sendQueue' = q
          /\ UNCHANGED <<started, closing>>
          /\ \/ /\ q # <<>> /\ DoSend(q, Rest)
                /\ UNCHANGED <<closeSocket, sockOpen, reads>>
             \/ q = <<>> /\ closing /\ ContinueClose(len, Rest)
             \/ /\ q = <<>> /\ ~closing /\ sending' = FALSE /\ ready' = Rest
                /\ UNCHANGED <<closeSocket, sockOpen, reads, writes>>
      BY <2>2 DEF WriteOk
    <3>2. q \in Seq(Node)
      BY <1>0
    <3> HIDE DEF q, len
    <3>3. CASE closeSocket
      <4>1. sendQueue = <<>> /\ closing
        BY <3>3 DEF IInv, Structure, ClosedIsClean
      <4>2. q = <<>>
        BY <4>1 DEF q
      <4>3. SocketClose(len, Rest)
        BY <3>1, <4>1, <4>2 DEF ContinueClose
      <4> QED BY <2>0, <3>1, <3>3, <4>1, <4>2, <4>3, StaysClosed DEF SocketClose
    <3>4. CASE ~closeSocket
      <4>1. writes = <<>> /\ ~Waiting(Rest, {"write"})
        BY <2>0, RestFacts
      <4>2. CASE q # <<>>
        BY <2>0, <3>1, <3>2, <3>4, <4>1, <4>2, StartWriteStructure
      <4>3. CASE q = <<>> /\ closing
        <5>1. SocketClose(len, Rest) /\ closing' = TRUE
          BY <1>0, <3>1, <4>3 DEF ContinueClose
        <5> QED BY <2>0, <3>1, <3>4, <4>3, <5>1, SocketCloseStructure
      <4>4. CASE q = <<>> /\ ~closing
        BY <2>0, <3>1, <3>4, <4>4, WriteIdleStructure
      <4> QED BY <4>2, <4>3, <4>4
    <3> QED BY <3>3, <3>4
  <2> QED BY <1>6, <2>1, <2>2 DEF RunWrite
<1>7. CASE RunHead
  <2>0. ready # <<>> /\ Head(ready).kind = "head"
    BY <1>7 DEF RunHead, HeadCancelled, HeadFailed, HeadOk, Running
  <2>1. closeSocket => sendQueue = <<>> /\ closing
    BY DEF IInv, Structure, ClosedIsClean
  <2>2. CASE HeadCancelled
    <3>1. closing
      BY <2>0, <2>1, <2>2, RestFacts DEF HeadCancelled, IInv, Structure, ClosedIsClean
    <3> QED BY <1>0, <2>0, <2>1, <2>2, <3>1, SkipStructure DEF HeadCancelled
  <2>3. CASE HeadFailed
    BY <2>0, <2>3, ErrToCloseStructure DEF HeadFailed
  <2>4. CASE HeadOk
    <3>1. CASE closing
      BY <1>0, <2>0, <2>1, <2>4, <3>1, SkipStructure DEF HeadOk, HeadRefused
    <3>2. CASE ~closing
      <4>1. reads = <<>> /\ ~Waiting(Rest, {"head", "body"})
        BY <2>0, RestFacts
      <4>2. Waiting(ready, {"head", "body"})
        BY <2>0, RestFacts DEF Waiting
      <4>3. started = TRUE
        BY <1>0, <3>2, <4>2 DEF IInv, Structure, ReaderAlive, Outstanding, ConnTypeOK
      <4>4. AsyncRead("body", Rest)
        BY <2>4, <3>2 DEF HeadOk, HeadRefused
      <4>5. started' = TRUE /\ UNCHANGED <<sending, closing, closeSocket, sendQueue, sockOpen, writes>>
        BY <2>4, <4>3 DEF HeadOk
      <4> QED BY <2>0, <3>2, <4>1, <4>4, <4>5, StartReadStructure
    <3> QED BY <3>1, <3>2
  <2> QED BY <1>7, <2>2, <2>3, <2>4 DEF RunHead
<1>8. CASE RunBody
  <2>0. ready # <<>> /\ Head(ready).kind = "body"
    BY <1>8 DEF RunBody, BodyFailed, Deliver, DeliverThrows, Running
  <2>1. closeSocket => sendQueue = <<>> /\ closing
    BY DEF IInv, Structure, ClosedIsClean
  <2>2. CASE BodyFailed \/ DeliverThrows
    BY <2>0, <2>2, ErrToCloseStructure DEF BodyFailed, DeliverThrows
  <2>3. CASE Deliver
    <3>1. CASE sockOpen /\ ~closing
      <4>1. reads = <<>> /\ ~Waiting(Rest, {"head", "body"})
        BY <2>0, RestFacts
      <4>2. Waiting(ready, {"head", "body"})
        BY <2>0, RestFacts DEF Waiting
      <4>3. started = TRUE
        BY <1>0, <3>1, <4>2 DEF IInv, Structure, ReaderAlive, Outstanding, ConnTypeOK
      <4>4. AsyncRead("head", Rest)
        BY <2>3, <3>1 DEF Deliver
      <4>5. started' = TRUE /\ UNCHANGED <<sending, closing, closeSocket, sendQueue, sockOpen, writes>>
        BY <2>3, <4>3 DEF Deliver
      <4> QED BY <2>0, <3>1, <4>1, <4>4, <4>5, StartReadStructure
    <3>2. CASE ~(sockOpen /\ ~closing)
      <4>1. closing
        BY <3>2 DEF IInv, Structure, ClosedIsClean
      <4> QED BY <1>0, <2>0, <2>1, <2>3, <3>2, <4>1, SkipStructure DEF Deliver
    <3> QED BY <3>1, <3>2
  <2> QED BY <1>8, <2>2, <2>3 DEF RunBody
<1>9. CASE WriteCompletes \/ WriteBreaks
  BY <1>9, WriteAnswered
<1>10. ASSUME NEW ec \in {"ok", "bad", "error"}, ReadCompletes(ec) PROVE Structure'
  BY <1>10, ReadAnswered
<1>11. CASE UNCHANGED connVars
  BY <1>11 DEF connVars, IInv, Structure, ClosedIsClean, SingleWriter, CloseHasDriver,
               ReaderAlive, Exclusive, Outstanding
<1> QED
  BY <1>1, <1>2, <1>3, <1>4, <1>5, <1>6, <1>7, <1>8, <1>9, <1>10, <1>11
  DEF ConnNext, Network

LEMMA StructureInit == ConnInit(TRUE) => Structure
  BY DEF ConnInit, Structure, ClosedIsClean, SingleWriter, CloseHasDriver, ReaderAlive,
         Exclusive, Outstanding, Waiting, AtMostOne

\* The invariant holds in every reachable state.
THEOREM Invariance == ConnSpec => []IInv
<1>1. ConnInit(TRUE) => IInv
  BY TypeInit, StructureInit DEF IInv
<1>2. IInv /\ [ConnNext]_connVars => IInv'
  BY TypeStep, StructureStep DEF IInv
<1> QED BY <1>1, <1>2, PTL DEF ConnSpec

\* async_writes never overlap, always carry the queue's front, and a queued
\* message always has one that will wake the sender.
THEOREM OneWriterAtATime == ConnSpec => []SingleWriter
  BY Invariance, PTL DEF IInv, Structure

\* A graceful close that is under way always has a write whose completion
\* will carry it on: no interleaving of senders, closers and peer strands it.
THEOREM CloseIsDriven == ConnSpec => []CloseHasDriver
  BY Invariance, PTL DEF IInv, Structure

\* There is never a second read in flight, and never none on a connection
\* that was started and is not closing.
THEOREM ReaderStaysAlive == ConnSpec => []ReaderAlive
  BY Invariance, PTL DEF IInv, Structure

\* A closed connection has dropped its queue and can start nothing.
THEOREM ClosedStaysClean == ConnSpec => []ClosedIsClean
  BY Invariance, PTL DEF IInv, Structure

\* Once a connection is closing, no handler starts a read on its socket: not a
\* header that was accepted late, not the one after the last body.
THEOREM ClosingStartsNoRead == ConnSpec => NoReadWhileClosing
<1>1. ConnTypeOK /\ [ConnNext]_connVars => [closing => Len(reads') <= Len(reads)]_connVars
  <2> SUFFICES ASSUME ConnTypeOK, ConnNext, closing PROVE Len(reads') <= Len(reads)
    BY DEF connVars
  <2> USE DEF flags, queue, io, history, bounded
  <2>1. /\ reads \in Seq({"head", "body"})
        /\ reads' = reads \/ reads' = <<>> => Len(reads') <= Len(reads)
        /\ reads # <<>> /\ reads' = Tail(reads) => Len(reads') <= Len(reads)
    BY DEF ConnTypeOK
  <2>2. ASSUME NEW len, NEW r, SocketClose(len, r) PROVE reads' = reads \/ reads' = <<>>
    BY <2>2 DEF SocketClose
  <2>3. ASSUME NEW r, ErrToClose(r) PROVE reads' = reads \/ reads' = <<>>
    BY <2>2, <2>3 DEF ErrToClose
  <2>4. ASSUME NEW m \in Msgs, ToSend(m) PROVE reads' = reads
    BY <2>4 DEF ToSend
  <2>5. CASE StopToClose
    BY <2>1, <2>5 DEF StopToClose
  <2>6. CASE RunSend
    BY <2>1, <2>6 DEF RunSend, RefuseSend, DropSend, EnqueueSend
  <2>7. CASE RunClose
    BY <2>1, <2>7 DEF RunClose, RepeatClose, BeginClose
  <2>8. CASE RunWrite
    <3>1. CASE WriteFailed
      BY <2>1, <2>3, <3>1 DEF WriteFailed
    <3>2. CASE WriteOk
      BY <2>1, <2>2, <3>2 DEF WriteOk, ContinueClose
    <3> QED BY <2>8, <3>1, <3>2 DEF RunWrite
  <2>9. CASE RunHead
    BY <2>1, <2>3, <2>9 DEF RunHead, HeadCancelled, HeadFailed, HeadOk, HeadRefused
  <2>10. CASE RunBody
    BY <2>1, <2>3, <2>10 DEF RunBody, BodyFailed, Deliver, DeliverThrows
  <2>11. CASE Network
    BY <2>1, <2>11 DEF Network, WriteCompletes, WriteBreaks, ReadCompletes
  <2> QED BY <2>1, <2>4, <2>5, <2>6, <2>7, <2>8, <2>9, <2>10, <2>11 DEF ConnNext
<1> QED BY <1>1, TypeCorrect, PTL DEF ConnSpec, NoReadWhileClosing

-----------------------------------------------------------------------------
(* A Connection implements the abstract channel of GracefulChannel: every  *)
(* step of the code is a step of the channel or leaves it unchanged.       *)

\* A write the reactor has done and the IO thread has not heard of: its frame
\* is on the wire and still at the front of the queue.
IsHanded(h) == h.kind = "write" /\ h.ec = "ok"
Handed(r) == \E i \in DOMAIN r : IsHanded(r[i])

\* Until the socket is closed, every frame accepted is on the wire or queued,
\* once and in the order of acceptance.
Conveyed ==
    ~closeSocket =>
        accepted = wire \o (IF Handed(ready) THEN Tail(sendQueue) ELSE sendQueue)

\* The handlers of a connection and of one that dials first.
AnyHandlers == [kind : {"send", "write"}, ec : Outcomes, node : Node] \cup
               [kind : {"close", "head", "body", "resolve", "connect"},
                ec : Outcomes, node : {NoNode}]

\* What the simulation needs of a state: the invariant of a connection has it,
\* and that of a client too.
Coherent ==
    /\ ready \in Seq(AnyHandlers) /\ sendQueue \in Seq(Node)
    /\ reads \in Seq({"head", "body", "connect"}) /\ writes \in Seq(Node)
    /\ wire \in Seq(Node) /\ sends \in 0..MaxSends
    /\ SingleWriter
    /\ closeSocket => closing /\ sendQueue = <<>> /\ writes = <<>>

LEMMA AnyHandler ==
  ASSUME NEW ec \in Outcomes
  PROVE  /\ \A n \in Node : \A k \in {"send", "write"} :
              /\ Handler(k, ec, n) \in AnyHandlers
              /\ IsHanded(Handler(k, ec, n)) <=> k = "write" /\ ec = "ok"
         /\ \A k \in {"close", "head", "body", "resolve", "connect"} :
              Handler(k, ec, NoNode) \in AnyHandlers /\ ~IsHanded(Handler(k, ec, NoNode))
  BY DEF Handler, AnyHandlers, IsHanded

\* The first handler of the queue, and those behind it.
LEMMA RunsFirst ==
  ASSUME Coherent, ready # <<>>
  PROVE  /\ Rest \in Seq(AnyHandlers)
         /\ 1 \in DOMAIN ready /\ ready[1] = Head(ready)
         /\ Head(ready).kind \in {"send", "write"} => Head(ready).node \in Node
         /\ Head(ready).kind = "write" => ~Waiting(Rest, {"write"})
<1>1. ready \in Seq(AnyHandlers) /\ AtMostOne(ready, {"write"})
  BY DEF Coherent, SingleWriter, Exclusive
<1>2. Rest \in Seq(AnyHandlers) /\ Head(ready) \in AnyHandlers
  BY <1>1 DEF Rest
<1>3. \A h \in AnyHandlers : h.kind \in {"send", "write"} => h.node \in Node
  BY DEF AnyHandlers
<1>4. 1 \in DOMAIN ready /\ ready[1] = Head(ready)
  BY <1>1
<1>5. Head(ready).kind \in {"write"} => ~Waiting(Rest, {"write"})
  BY <1>1, RunKinds DEF Rest
<1> QED BY <1>2, <1>3, <1>4, <1>5

LEMMA InvariantIsCoherent == IInv => Coherent
<1> SUFFICES ASSUME IInv PROVE Coherent
  OBVIOUS
<1>1. Handlers \subseteq AnyHandlers
  BY DEF Handlers, AnyHandlers
<1>2. ready \in Seq(Handlers)
  BY DEF IInv, ConnTypeOK
<1>3. ready \in Seq(AnyHandlers)
  BY <1>1, <1>2
<1>4. reads \in Seq({"head", "body"})
  BY DEF IInv, ConnTypeOK
<1>5. reads \in Seq({"head", "body", "connect"})
  BY <1>4
<1>6. /\ sendQueue \in Seq(Node) /\ writes \in Seq(Node)
      /\ wire \in Seq(Node) /\ sends \in 0..MaxSends
  BY DEF IInv, ConnTypeOK
<1>7. SingleWriter /\ (closeSocket => closing /\ sendQueue = <<>> /\ writes = <<>>)
  BY DEF IInv, Structure, ClosedIsClean
<1> QED BY <1>3, <1>5, <1>6, <1>7 DEF Coherent

LEMMA AppendConcat ==
  ASSUME NEW a \in Seq(Node), NEW b \in Seq(Node), NEW x \in Node
  PROVE  Append(a \o b, x) = a \o Append(b, x)
<1>1. a \o b \in Seq(Node) /\ <<x>> \in Seq(Node)
  BY ConcatProperties
<1>2. (a \o b) \o <<x>> = a \o (b \o <<x>>)
  BY <1>1, ConcatAssociative
<1> QED BY <1>1, <1>2, AppendIsConcat

LEMMA SeqFacts ==
  ASSUME NEW a \in Seq(Node), NEW b \in Seq(Node), NEW x \in Node
  PROVE  /\ a \o <<>> = a
         /\ Append(a \o b, x) = a \o Append(b, x)
         /\ b # <<>> => /\ a \o b = Append(a, Head(b)) \o Tail(b)
                        /\ (a \o b)[Len(a) + 1] = Head(b)
                        /\ Len(a \o b) # Len(a)
                        /\ Tail(Append(b, x)) = Append(Tail(b), x)
<1>1. a \o <<>> = a
  BY ConcatEmptySeq
<1>2. Append(a \o b, x) = a \o Append(b, x)
  BY AppendConcat
<1>3. ASSUME b # <<>>
      PROVE  /\ a \o b = Append(a, Head(b)) \o Tail(b)
             /\ (a \o b)[Len(a) + 1] = Head(b)
             /\ Len(a \o b) # Len(a)
             /\ Tail(Append(b, x)) = Append(Tail(b), x)
  <2>1. Head(b) \in Node /\ Tail(b) \in Seq(Node) /\ <<Head(b)>> \in Seq(Node)
    BY <1>3
  <2>2. b = <<Head(b)>> \o Tail(b)
    BY <1>3, <2>1
  <2>3. (a \o <<Head(b)>>) \o Tail(b) = a \o (<<Head(b)>> \o Tail(b))
    BY <2>1, ConcatAssociative
  <2>4. a \o <<Head(b)>> = Append(a, Head(b))
    BY <2>1, AppendIsConcat
  <2>5. Len(a) \in Nat /\ Len(b) \in Nat /\ Len(b) # 0
    BY <1>3
  <2>6. (a \o b)[Len(a) + 1] = b[1] /\ Len(a \o b) = Len(a) + Len(b)
    BY <2>5, ConcatProperties
  <2>7. b[1] = Head(b)
    BY <1>3
  <2> QED BY <1>3, <2>2, <2>3, <2>4, <2>5, <2>6, <2>7, HeadTailAppend
<1> QED BY <1>1, <1>2, <1>3

\* Handlers other than a write's completion do not change what is handed over.
LEMMA HandedAppend ==
  ASSUME NEW r \in Seq(AnyHandlers), NEW h \in AnyHandlers
  PROVE  Handed(Append(r, h)) <=> Handed(r) \/ IsHanded(h)
  BY AppendElements DEF Handed

LEMMA HandedTail ==
  ASSUME NEW r \in Seq(AnyHandlers), r # <<>>
  PROVE  Handed(r) <=> Handed(Tail(r)) \/ IsHanded(Head(r))
<1>1. ASSUME Handed(r) PROVE Handed(Tail(r)) \/ IsHanded(Head(r))
  BY <1>1, TailElements DEF Handed
<1>2. ASSUME Handed(Tail(r)) \/ IsHanded(Head(r)) PROVE Handed(r)
  BY <1>2, TailElements DEF Handed
<1> QED BY <1>1, <1>2

LEMMA HandedWaits ==
  ASSUME NEW r, Handed(r)
  PROVE  Waiting(r, {"write"})
  BY DEF Handed, IsHanded, Waiting

LEMMA QuietReady ==
  ASSUME NEW r \in Seq(AnyHandlers),
         ready' = r \/ \E h \in AnyHandlers : ~IsHanded(h) /\ ready' = Append(r, h)
  PROVE  Handed(ready') <=> Handed(r)
<1>1. CASE ready' = r
  BY <1>1
<1>2. ASSUME NEW h \in AnyHandlers, ~IsHanded(h), ready' = Append(r, h)
      PROVE  Handed(ready') <=> Handed(r)
  <2>1. Handed(Append(r, h)) <=> Handed(r)
    BY <1>2, HandedAppend
  <2> QED BY <1>2, <2>1
<1> QED BY <1>1, <1>2

\* Once closed, the connection owes nothing.
LEMMA ClosedConveys == closeSocket' => Conveyed'
  BY DEF Conveyed

LEMMA Unmoved ==
  ASSUME Conveyed, UNCHANGED <<closeSocket, accepted, wire, sendQueue>>,
         Handed(ready') <=> Handed(ready)
  PROVE  Conveyed'
  BY DEF Conveyed

\* The channel does not see a step that leaves its four variables alone.
LEMMA Stutters ==
  ASSUME UNCHANGED <<accepted, wire, closing, closeSocket, aborted>>
  PROVE  [Channel!Next]_Channel!chanVars
  BY DEF Channel!chanVars, Phase

\* Before the socket is closed, nothing is left to transmit exactly when the
\* queue is empty, or holds only the frame already handed over.
LEMMA DrainedWhenEmpty ==
  ASSUME Coherent, Conveyed, ~closeSocket,
         sendQueue = <<>> \/ (Handed(ready) /\ Tail(sendQueue) = <<>>)
  PROVE  Channel!Drained
<1>1. wire \in Seq(Node)
  BY DEF Coherent
<1>2. Handed(ready) => sendQueue # <<>>
  BY HandedWaits DEF Coherent, SingleWriter, Outstanding
<1>3. accepted = wire \o <<>>
  BY <1>2 DEF Conveyed
<1>4. accepted = wire
  BY <1>1, <1>3, SeqFacts
<1> QED BY <1>4 DEF Channel!Drained

LEMMA ErrToCloseSimulates ==
  ASSUME Coherent, Conveyed, ErrToClose(Rest), ready # <<>>,
         UNCHANGED <<accepted, wire>>
  PROVE  Conveyed' /\ [Channel!Next]_Channel!chanVars
<1>1. CASE closeSocket
  BY <1>1, Stutters DEF ErrToClose, Conveyed
<1>2. CASE ~closeSocket
  <2>1. closeSocket' /\ aborted' = TRUE
    BY <1>2 DEF ErrToClose, SocketClose
  <2>2. Phase # "closed" /\ Phase' = "closed"
    BY <1>2, <2>1 DEF Phase
  <2>3. Channel!Abort
    BY <2>1, <2>2 DEF Channel!Abort
  <2> QED BY <2>1, <2>3, ClosedConveys DEF Channel!Next
<1> QED BY <1>1, <1>2

LEMMA EnqueueSimulates ==
  ASSUME Coherent, Conveyed, EnqueueSend
  PROVE  Conveyed' /\ [Channel!Next]_Channel!chanVars
<1> DEFINE n == Head(ready).node
<1>1. /\ ready # <<>> /\ Head(ready).kind = "send" /\ ~closing
      /\ sendQueue' = Append(sendQueue, n) /\ accepted' = Append(accepted, n)
      /\ UNCHANGED <<closing, closeSocket, wire, aborted>>
  BY DEF EnqueueSend, Running
<1>2. /\ ~closeSocket /\ ready \in Seq(AnyHandlers) /\ Rest \in Seq(AnyHandlers) /\ n \in Node
      /\ sendQueue \in Seq(Node) /\ wire \in Seq(Node)
  BY <1>1, RunsFirst DEF Coherent
<1>3. Handed(Rest) <=> Handed(ready)
  BY <1>1, <1>2, HandedTail DEF IsHanded, Rest
<1>4. Handed(ready) => sendQueue # <<>>
  BY <1>2, HandedWaits DEF Coherent, SingleWriter, Outstanding
<1>5. Handed(ready') <=> Handed(Rest)
  <2>1. CASE StartsWriting
    <3>1. DoSend(Append(sendQueue, n), Rest)
      BY <2>1 DEF EnqueueSend
    <3>2. Append(sendQueue, n) # <<>> /\ Head(Append(sendQueue, n)) \in Node
      BY <1>2, HeadTailAppend, AppendProperties
    <3>3. DEFINE h == Handler("write", "error", Head(Append(sendQueue, n)))
    <3>4. h \in AnyHandlers /\ ~IsHanded(h)
      BY <3>2, AnyHandler DEF Outcomes
    <3>5. ready' = Rest \/ ready' = Append(Rest, h)
      BY <3>1, <3>2 DEF DoSend, AsyncWrite
    <3> QED BY <1>2, <3>4, <3>5, QuietReady
  <2>2. CASE ~StartsWriting
    BY <2>2 DEF EnqueueSend
  <2> QED BY <2>1, <2>2
<1> HIDE DEF n
<1>6. Conveyed'
  <2>1. CASE Handed(ready)
    <3>1. Tail(sendQueue) \in Seq(Node) /\ accepted = wire \o Tail(sendQueue)
      BY <1>2, <1>4, <2>1 DEF Conveyed
    <3>2. accepted' = wire \o Append(Tail(sendQueue), n)
      <4>1. Append(wire \o Tail(sendQueue), n) = wire \o Append(Tail(sendQueue), n)
        BY <1>2, <3>1, AppendConcat, Zenon
      <4> QED BY <1>1, <3>1, <4>1
    <3>3. Append(Tail(sendQueue), n) = Tail(sendQueue')
      BY <1>1, <1>2, <1>4, <2>1, SeqFacts
    <3> QED BY <1>1, <1>3, <1>5, <2>1, <3>2, <3>3 DEF Conveyed
  <2>2. CASE ~Handed(ready)
    <3>1. accepted' = wire \o sendQueue'
      <4>1. Append(wire \o sendQueue, n) = wire \o Append(sendQueue, n)
        BY <1>2, AppendConcat, Zenon
      <4>2. accepted = wire \o sendQueue
        BY <1>2, <2>2 DEF Conveyed
      <4> QED BY <1>1, <4>1, <4>2
    <3> QED BY <1>1, <1>3, <1>5, <2>2, <3>1 DEF Conveyed
  <2> QED BY <2>1, <2>2
<1>7. Channel!Accept(n)
  BY <1>1, <1>2 DEF Channel!Accept, Phase
<1> QED BY <1>2, <1>6, <1>7 DEF Channel!Next

LEMMA BeginCloseSimulates ==
  ASSUME Coherent, Conveyed, BeginClose
  PROVE  Conveyed' /\ [Channel!Next]_Channel!chanVars
<1>1. /\ ready # <<>> /\ Head(ready).kind = "close" /\ ~closing /\ closing' = TRUE
      /\ UNCHANGED <<sendQueue, accepted, wire, aborted>>
  BY DEF BeginClose, Running, history
<1>2. ~closeSocket /\ ready \in Seq(AnyHandlers)
  BY <1>1 DEF Coherent
<1>3. CASE sending
  <2>1. ready' = Rest /\ closeSocket' = closeSocket
    BY <1>1, <1>3 DEF BeginClose
  <2>2. Handed(ready') <=> Handed(ready)
    BY <1>1, <1>2, <2>1, HandedTail DEF IsHanded, Rest
  <2>3. Channel!Close
    BY <1>1, <1>2, <2>1 DEF Channel!Close, Phase
  <2> QED BY <1>1, <2>1, <2>2, <2>3, Unmoved DEF Channel!Next
<1>4. CASE ~sending
  <2>1. sendQueue = <<>>
    BY <1>2, <1>4 DEF Coherent, SingleWriter
  <2>2. closeSocket'
    BY <1>2, <1>4, <2>1 DEF BeginClose, SocketClose
  <2>3. Channel!Drained
    BY <1>2, <2>1, DrainedWhenEmpty
  <2>4. Channel!Close
    BY <1>1, <1>2, <2>2, <2>3 DEF Channel!Close, Phase
  <2> QED BY <2>2, <2>4, ClosedConveys DEF Channel!Next
<1> QED BY <1>3, <1>4

\* The write's completion pops the frame the network already has.
LEMMA WriteOkSimulates ==
  ASSUME Coherent, Conveyed, WriteOk
  PROVE  Conveyed' /\ [Channel!Next]_Channel!chanVars
<1> DEFINE n == Head(ready).node
           q == IF sendQueue # <<>> /\ Head(sendQueue) = n
                THEN Tail(sendQueue) ELSE sendQueue
           len == IF sendQueue # <<>> /\ Head(sendQueue) = n
                  THEN Released(queueBufLen, n) ELSE queueBufLen
<1>1. /\ ready # <<>> /\ Head(ready).kind = "write" /\ Head(ready).ec = "ok"
      /\ sendQueue' = q
      /\ UNCHANGED <<closing, accepted, wire, aborted>>
      /\ \/ /\ q # <<>> /\ DoSend(q, Rest) /\ closeSocket' = closeSocket
         \/ q = <<>> /\ closing /\ ContinueClose(len, Rest)
         \/ q = <<>> /\ ~closing /\ ready' = Rest /\ closeSocket' = closeSocket
  BY DEF WriteOk, Running, history
<1>2. ready \in Seq(AnyHandlers) /\ Rest \in Seq(AnyHandlers) /\ sendQueue \in Seq(Node)
  BY <1>1, RunsFirst DEF Coherent
<1>3. CASE closeSocket
  <2>1. closing /\ sendQueue = <<>> /\ q = <<>>
    BY <1>3 DEF Coherent
  <2>2. closeSocket' = closeSocket
    BY <1>1, <1>3, <2>1 DEF ContinueClose, SocketClose
  <2> QED BY <1>1, <1>3, <2>2, Stutters, ClosedConveys
<1>4. CASE ~closeSocket
  <2>1. Handed(ready) /\ ~Waiting(Rest, {"write"})
    BY <1>1, <1>2, HandedTail, RunsFirst DEF IsHanded
  <2>2. ~Handed(Rest)
    BY <2>1, HandedWaits
  <2>3. sendQueue # <<>> /\ Head(sendQueue) = n
    BY <1>1, <1>4, <2>1, RunsFirst, HandedWaits
    DEF Coherent, SingleWriter, Outstanding
  <2>4. q = Tail(sendQueue) /\ q \in Seq(Node)
    BY <1>2, <2>3
  <2> HIDE DEF q, len
  <2>5. accepted = wire \o q
    BY <1>4, <2>1, <2>4 DEF Conveyed
  <2>6. CASE q # <<>> /\ DoSend(q, Rest) /\ closeSocket' = closeSocket
    <3> DEFINE h == Handler("write", "error", Head(q))
    <3>0. Head(q) \in Node
      BY <2>4, <2>6
    <3>1. h \in AnyHandlers /\ ~IsHanded(h)
      BY <3>0, AnyHandler DEF Outcomes
    <3>2. ready' = Rest \/ ready' = Append(Rest, h)
      BY <2>6 DEF DoSend, AsyncWrite
    <3>3. ~Handed(ready')
      BY <1>2, <2>2, <3>1, <3>2, QuietReady
    <3> QED BY <1>1, <2>5, <2>6, <3>3, Stutters DEF Conveyed
  <2>7. CASE q = <<>> /\ closing /\ ContinueClose(len, Rest)
    <3>1. closeSocket'
      BY <1>4, <2>7 DEF ContinueClose, SocketClose
    <3>2. Channel!Drained
      BY <1>4, <2>1, <2>4, <2>7, DrainedWhenEmpty
    <3>3. Channel!Finish
      BY <1>1, <1>4, <2>7, <3>1, <3>2 DEF Channel!Finish, Phase
    <3> QED BY <3>1, <3>3, ClosedConveys DEF Channel!Next
  <2>8. CASE q = <<>> /\ ~closing /\ ready' = Rest /\ closeSocket' = closeSocket
    BY <1>1, <2>2, <2>5, <2>8, Stutters DEF Conveyed
  <2> QED BY <1>1, <2>6, <2>7, <2>8
<1> QED BY <1>3, <1>4

\* What the reactor transmits is the oldest frame accepted and not yet sent.
LEMMA WriteCompletesSimulates ==
  ASSUME Coherent, Conveyed, WriteCompletes
  PROVE  Conveyed' /\ [Channel!Next]_Channel!chanVars
<1> DEFINE f == Head(writes)
           h == Handler("write", "ok", f)
<1>1. /\ writes # <<>> /\ wire' = Append(wire, f) /\ ready' = Append(ready, h)
      /\ UNCHANGED <<closing, closeSocket, sendQueue, accepted, aborted>>
  BY DEF WriteCompletes, flags, queue
<1>2. /\ ready \in Seq(AnyHandlers) /\ writes \in Seq(Node)
      /\ sendQueue \in Seq(Node) /\ wire \in Seq(Node)
  BY DEF Coherent
<1>3. 1 \in DOMAIN writes /\ writes[1] = f /\ f \in Node
  BY <1>1, <1>2
<1>4. ~closeSocket /\ ~Waiting(ready, {"write"})
  BY <1>1 DEF Coherent, SingleWriter, Exclusive
<1>5. sendQueue # <<>> /\ Head(sendQueue) = f
  BY <1>1, <1>3, <1>4 DEF Coherent, SingleWriter, Outstanding
<1>6. h \in AnyHandlers /\ IsHanded(h)
  BY <1>3, AnyHandler DEF Outcomes
<1>7. ~Handed(ready) /\ Handed(ready')
  BY <1>1, <1>2, <1>4, <1>6, HandedAppend, HandedWaits
<1> HIDE DEF f, h
<1>8. accepted = wire \o sendQueue
  BY <1>4, <1>7 DEF Conveyed
<1>9. /\ accepted = Append(wire, f) \o Tail(sendQueue)
      /\ accepted[Len(wire) + 1] = f /\ Len(accepted) # Len(wire)
  BY <1>2, <1>3, <1>5, <1>8, SeqFacts
<1>10. Conveyed'
  BY <1>1, <1>7, <1>9 DEF Conveyed
<1>11. Channel!Transmit
  BY <1>1, <1>4, <1>9 DEF Channel!Transmit, Channel!Drained, Phase
<1> QED BY <1>10, <1>11 DEF Channel!Next

LEMMA SimulationStep ==
  Coherent /\ Conveyed /\ [ConnNext]_connVars => Conveyed' /\ [Channel!Next]_Channel!chanVars
<1> SUFFICES ASSUME Coherent, Conveyed, [ConnNext]_connVars
             PROVE  Conveyed' /\ [Channel!Next]_Channel!chanVars
  OBVIOUS
<1> USE DEF flags, queue, history
<1> DEFINE Quiet == UNCHANGED <<accepted, wire, closing, closeSocket, aborted, sendQueue>>
<1>0. ready \in Seq(AnyHandlers)
  BY DEF Coherent
<1>queues. ASSUME NEW h \in AnyHandlers, ~IsHanded(h), Quiet, ready' \in {ready, Append(ready, h)}
      PROVE  Conveyed' /\ [Channel!Next]_Channel!chanVars
  BY <1>0, <1>queues, QuietReady, Unmoved, Stutters
<1>runs. ASSUME NEW h \in AnyHandlers, ~IsHanded(h), Quiet, ready # <<>>, ~IsHanded(Head(ready)),
             ready' \in {Rest, Append(Rest, h)}
      PROVE  Conveyed' /\ [Channel!Next]_Channel!chanVars
  <2>1. Rest \in Seq(AnyHandlers)
    BY <1>0, <1>runs DEF Rest
  <2>2. Handed(ready') <=> Handed(ready)
    BY <1>0, <1>runs, <2>1, QuietReady, HandedTail DEF Rest
  <2> QED BY <1>runs, <2>2, Unmoved, Stutters
<1>types. /\ CloseRequest \in AnyHandlers /\ ~IsHanded(CloseRequest)
      /\ \A k \in {"head", "body"} : /\ Handler(k, "error", NoNode) \in AnyHandlers
                                     /\ ~IsHanded(Handler(k, "error", NoNode))
  BY AnyHandler DEF CloseRequest, Outcomes
<1>1. ASSUME NEW m \in Msgs, ToSend(m) PROVE Conveyed' /\ [Channel!Next]_Channel!chanVars
  <2> DEFINE h == Handler("send", "ok", [seq |-> sends + 1, msg |-> m])
  <2>1. [seq |-> sends + 1, msg |-> m] \in Node
    BY <1>1, ConnectionAssumption DEF ToSend, Node, Coherent
  <2>2. h \in AnyHandlers /\ ~IsHanded(h)
    BY <2>1, AnyHandler DEF Outcomes
  <2>3. Quiet /\ ready' = Append(ready, h)
    BY <1>1 DEF ToSend
  <2> HIDE DEF h
  <2> QED BY <2>2, <2>3, <1>queues
<1>2. CASE StopToClose
  BY <1>2, <1>queues, <1>types DEF StopToClose
<1>3. CASE ~closing /\ Start
  <2>1. Quiet /\ ready' \in {ready, Append(ready, Handler("head", "error", NoNode))}
    BY <1>3 DEF Start, AsyncRead
  <2> QED BY <2>1, <1>queues, <1>types
<1>4. CASE RunSend
  <2>1. CASE RefuseSend \/ DropSend
    <3>1. ready # <<>> /\ ~IsHanded(Head(ready)) /\ Quiet
          /\ ready' \in {Rest, Append(Rest, CloseRequest)}
      BY <2>1 DEF RefuseSend, DropSend, Running, IsHanded
    <3> QED BY <3>1, <1>runs, <1>types
  <2> QED BY <1>4, <2>1, EnqueueSimulates DEF RunSend
<1>5. CASE RunClose
  <2>1. CASE RepeatClose
    <3>1. ready # <<>> /\ ~IsHanded(Head(ready)) /\ Quiet /\ ready' = Rest
      BY <2>1 DEF RepeatClose, Running, IsHanded
    <3> QED BY <3>1, <1>runs, <1>types
  <2> QED BY <1>5, <2>1, BeginCloseSimulates DEF RunClose
<1>6. CASE RunWrite
  <2>1. CASE WriteFailed
    BY <2>1, ErrToCloseSimulates DEF WriteFailed, Running
  <2> QED BY <1>6, <2>1, WriteOkSimulates DEF RunWrite
<1>7. CASE RunHead
  <2>1. CASE HeadFailed
    BY <2>1, ErrToCloseSimulates DEF HeadFailed, Running
  <2>2. CASE HeadCancelled
    <3>1. ready # <<>> /\ ~IsHanded(Head(ready)) /\ Quiet /\ ready' = Rest
      BY <2>2 DEF HeadCancelled, Running, IsHanded
    <3> QED BY <3>1, <1>runs, <1>types
  <2>3. CASE HeadOk
    <3>1. ready # <<>> /\ ~IsHanded(Head(ready)) /\ Quiet
      BY <2>3 DEF HeadOk, Running, IsHanded
    <3>2. ready' \in {Rest, Append(Rest, CloseRequest), Append(Rest, Handler("body", "error", NoNode))}
      BY <2>3 DEF HeadOk, AsyncRead
    <3> QED BY <3>1, <3>2, <1>runs, <1>types
  <2> QED BY <1>7, <2>1, <2>2, <2>3 DEF RunHead
<1>8. CASE RunBody
  <2>1. CASE BodyFailed \/ DeliverThrows
    BY <2>1, ErrToCloseSimulates DEF BodyFailed, DeliverThrows, Running
  <2>2. CASE Deliver
    <3>1. ready # <<>> /\ ~IsHanded(Head(ready)) /\ Quiet
      BY <2>2 DEF Deliver, Running, IsHanded
    <3>2. ready' \in {Rest, Append(Rest, Handler("head", "error", NoNode))}
      BY <2>2 DEF Deliver, AsyncRead
    <3> QED BY <3>1, <3>2, <1>runs, <1>types
  <2> QED BY <1>8, <2>1, <2>2 DEF RunBody
<1>9. CASE WriteCompletes
  BY <1>9, WriteCompletesSimulates
<1>10. CASE WriteBreaks
  <2> DEFINE h == Handler("write", "error", Head(writes))
  <2>1. writes # <<>> /\ Quiet /\ ready' = Append(ready, h)
    BY <1>10 DEF WriteBreaks
  <2>2. Head(writes) \in Node
    BY <2>1 DEF Coherent
  <2>3. h \in AnyHandlers /\ ~IsHanded(h)
    BY <2>2, AnyHandler DEF Outcomes
  <2> HIDE DEF h
  <2> QED BY <2>1, <2>3, <1>queues
<1>11. ASSUME NEW ec \in {"ok", "bad", "error"}, ReadCompletes(ec)
       PROVE  Conveyed' /\ [Channel!Next]_Channel!chanVars
  <2> DEFINE h == Handler(Head(reads), ec, NoNode)
  <2>1. reads # <<>> /\ Quiet /\ ready' = Append(ready, h)
    BY <1>11 DEF ReadCompletes
  <2>2. Head(reads) \in {"head", "body", "connect"}
    BY <2>1 DEF Coherent
  <2>3. h \in AnyHandlers /\ ~IsHanded(h)
    BY <2>2, AnyHandler DEF Outcomes
  <2> HIDE DEF h
  <2> QED BY <2>1, <2>3, <1>queues
<1>12. CASE UNCHANGED connVars
  BY <1>12, <1>0, Stutters DEF connVars, io, Conveyed
<1> QED
  BY <1>1, <1>2, <1>3, <1>4, <1>5, <1>6, <1>7, <1>8, <1>9, <1>10, <1>11, <1>12
  DEF ConnNext, Network

LEMMA SimulationInit == ConnInit(TRUE) => Conveyed /\ Channel!Init
<1>1. <<>> \in Seq(Node)
  OBVIOUS
<1>2. <<>> \o <<>> = <<>>
  BY <1>1, ConcatEmptySeq
<1> QED BY <1>2 DEF ConnInit, Conveyed, Handed, Channel!Init, Phase

\* The code of NetConnection.cpp implements the channel: in order, at most
\* once, everything accepted before a graceful close, nothing after it began.
THEOREM ConnectionIsChannel == ConnSpec => ChannelSafe
<1>1. ConnSpec => []IInv
  BY Invariance
<1>2. ConnInit(TRUE) => Conveyed /\ Channel!Init
  BY SimulationInit
<1>3. IInv /\ Conveyed /\ [ConnNext]_connVars => Conveyed' /\ [Channel!Next]_Channel!chanVars
  BY SimulationStep, InvariantIsCoherent
<1> QED BY <1>1, <1>2, <1>3, PTL DEF ConnSpec, ChannelSafe, Channel!SafeSpec

\* What the channel promises of the two histories, read off its steps.
ChannelKept ==
    /\ accepted \in Seq(Node) /\ wire \in Seq(Node) /\ Len(wire) <= Len(accepted)
    /\ \A i \in 1..Len(wire) : wire[i] = accepted[i]
    /\ Phase = "closed" /\ ~aborted => Len(wire) = Len(accepted)

LEMMA ChannelKeeps == ChannelKept /\ [Channel!Next]_Channel!chanVars => ChannelKept'
<1> SUFFICES ASSUME ChannelKept, [Channel!Next]_Channel!chanVars PROVE ChannelKept'
  OBVIOUS
<1> USE DEF Channel!Drained
<1>1. /\ accepted \in Seq(Node) /\ wire \in Seq(Node)
      /\ Len(wire) \in Nat /\ Len(accepted) \in Nat /\ Len(wire) <= Len(accepted)
  BY DEF ChannelKept
<1>2. ASSUME NEW f \in Node, Channel!Accept(f) PROVE ChannelKept'
  <2>1. /\ accepted' = Append(accepted, f) /\ wire' = wire
        /\ Phase' = Phase /\ Phase = "open"
    BY <1>2 DEF Channel!Accept
  <2>2. /\ accepted' \in Seq(Node) /\ Len(accepted') = Len(accepted) + 1
        /\ \A i \in 1..Len(accepted) : accepted'[i] = accepted[i]
    BY <1>1, <2>1
  <2>3. \A i \in 1..Len(wire') : wire'[i] = accepted'[i]
    BY <1>1, <2>1, <2>2 DEF ChannelKept
  <2>4. Phase' # "closed"
    BY <2>1
  <2> QED BY <1>1, <2>1, <2>2, <2>3, <2>4 DEF ChannelKept
<1>3. CASE Channel!Transmit
  <2> DEFINE n == Len(wire) + 1
  <2>1. /\ wire' = Append(wire, accepted[n]) /\ accepted' = accepted
        /\ Phase' = Phase /\ Phase # "closed" /\ Len(wire) # Len(accepted)
    BY <1>3 DEF Channel!Transmit
  <2>2. n \in 1..Len(accepted) /\ accepted[n] \in Node
    BY <1>1, <2>1
  <2>3. /\ wire' \in Seq(Node) /\ Len(wire') = n /\ wire'[n] = accepted[n]
        /\ \A i \in 1..Len(wire) : wire'[i] = wire[i]
    BY <1>1, <2>1, <2>2
  <2>4. \A i \in 1..n : i = n \/ i \in 1..Len(wire)
    BY <1>1
  <2>5. \A i \in 1..Len(wire') : wire'[i] = accepted'[i]
    BY <2>1, <2>3, <2>4 DEF ChannelKept
  <2>6. Len(wire') <= Len(accepted') /\ accepted' \in Seq(Node) /\ Phase' # "closed"
    BY <1>1, <2>1, <2>2, <2>3
  <2> QED BY <2>3, <2>5, <2>6 DEF ChannelKept
<1>4. CASE Channel!Close
  <2>1. /\ UNCHANGED <<accepted, wire, aborted>>
        /\ Phase' = "closed" => Len(wire) = Len(accepted)
    BY <1>4 DEF Channel!Close
  <2> QED BY <2>1 DEF ChannelKept
<1>5. CASE Channel!Finish
  BY <1>5 DEF Channel!Finish, ChannelKept
<1>6. CASE Channel!Abort
  BY <1>6 DEF Channel!Abort, ChannelKept
<1>7. CASE UNCHANGED Channel!chanVars
  BY <1>7 DEF Channel!chanVars, ChannelKept
<1> QED BY <1>2, <1>3, <1>4, <1>5, <1>6, <1>7 DEF Channel!Next

\* The peer gets a prefix of what was accepted, and all of it when the
\* connection closed without an error.
NothingLost == /\ IsPrefix(wire, accepted)
               /\ closeSocket /\ ~aborted => wire = accepted

LEMMA KeptLosesNothing == ChannelKept => NothingLost
<1> SUFFICES ASSUME ChannelKept PROVE NothingLost
  OBVIOUS
<1> DEFINE n == Len(wire)
<1>1. /\ accepted \in Seq(Node) /\ wire \in Seq(Node) /\ n \in Nat /\ n <= Len(accepted)
      /\ \A i \in 1..n : wire[i] = accepted[i]
  BY DEF ChannelKept
<1>2. SubSeq(wire, 1, n) = SubSeq(accepted, 1, n)
  BY <1>1
<1>3. IsPrefix(wire, accepted)
  BY <1>1, <1>2 DEF IsPrefix
<1>4. ASSUME closeSocket, ~aborted PROVE wire = accepted
  <2>1. Len(wire) = Len(accepted)
    BY <1>4 DEF ChannelKept, Phase
  <2> QED BY <1>1, <2>1, SeqEqual
<1> QED BY <1>3, <1>4 DEF NothingLost

LEMMA ChannelInitKept == Channel!Init => ChannelKept
<1>1. <<>> \in Seq(Node) /\ Len(<<>>) = 0
  OBVIOUS
<1> QED BY <1>1 DEF Channel!Init, ChannelKept

LEMMA ChannelLosesNothing == ChannelSafe => []NothingLost
  BY ChannelInitKept, ChannelKeeps, KeptLosesNothing, PTL DEF ChannelSafe, Channel!SafeSpec

\* What toSend() queued goes out in its order; a stop() that meets no error
\* closes the socket only when the last byte of it was handed to the peer.
THEOREM CloseLosesNothing == ConnSpec => []NothingLost
  BY ConnectionIsChannel, ChannelLosesNothing




-----------------------------------------------------------------------------
(* The backlog: queueBufLen counts the frames queued.                      *)

\* The bytes of the frames of q, as QueueAccounting counts them.
Total(q) == FoldSeq(LAMBDA n, total : total + FrameLen(n), 0, q)

\* Total adds the frames up one by one, from the front.
LEMMA TotalIsPartialSum ==
  ASSUME NEW q \in Seq(Node)
  PROVE  \E f \in [0..Len(q) -> Nat] :
            /\ f[0] = 0 /\ f[Len(q)] = Total(q)
            /\ \A i \in 1..Len(q) : f[i] = f[i - 1] + FrameLen(q[i])
<1> DEFINE n == Len(q)
           w == [i \in 1..n |-> FrameLen(q[i])]
           pick == [s \in SUBSET (1..n) |-> CHOOSE x \in s : TRUE]
           step == [p \in (1..n) \X Nat |-> p[2] + w[p[1]]]
           Term(g, s) == IF s = {} THEN 0
                         ELSE LET x == CHOOSE x \in s : TRUE IN g[s \ {x}] + FrameLen(q[x])
           g == CHOOSE iter : iter = [s \in SUBSET (1..n) |-> Term(iter, s)]
<1>1. n \in Nat /\ DOMAIN q = 1..n /\ IsFiniteSet(1..n)
  BY FS_Interval
<1>2. w \in [1..n -> Nat]
  <2> SUFFICES ASSUME NEW i \in 1..n PROVE FrameLen(q[i]) \in Nat
    OBVIOUS
  <2>1. q[i] \in Node
    BY <1>1
  <2>2. q[i].msg \in Msgs
    BY <2>1 DEF Node
  <2> QED BY <2>2, ConnectionAssumption DEF FrameLen
<1>3. Picks(pick, 1..n)
  BY DEF Picks
<1>4. step \in [(1..n) \X Nat -> Nat]
  <2> HIDE DEF w
  <2> QED BY <1>2
<1>5. PICK h \in [SUBSET (1..n) -> Nat] : Folds(h, 1..n, 0, pick, step)
  <2> HIDE DEF pick, step
  <2> QED BY <1>1, <1>3, <1>4, FoldExists
<1>6. \A s \in SUBSET (1..n) : h[s] = Term(h, s)
  <2> SUFFICES ASSUME NEW s \in SUBSET (1..n), s # {} PROVE h[s] = Term(h, s)
    BY <1>5 DEF Folds, Folded
  <2> DEFINE c == CHOOSE x \in s : TRUE
  <2>1. c \in s /\ pick[s] = c /\ h[s \ {c}] \in Nat
    OBVIOUS
  <2>2. h[s] = step[<<c, h[s \ {c}]>>]
    BY <1>5, <2>1 DEF Folds, Folded
  <2> QED BY <2>1, <2>2
<1>7. h = [s \in SUBSET (1..n) |-> Term(h, s)]
  BY <1>6
<1>8. g = [s \in SUBSET (1..n) |-> Term(g, s)]
  <2> HIDE DEF Term
  <2> QED BY <1>7
<1>9. Total(q) = g[1..n]
  BY <1>1 DEF Total, FoldSeq, FoldFunction, FoldFunctionOnSet, MapThenFoldSet
<1>10. Sums(g, 1..n, w, pick)
  <2> HIDE DEF g
  <2>1. \A s \in SUBSET (1..n) : g[s] = Term(g, s)
    BY <1>8
  <2> QED BY <1>3, <2>1 DEF Sums, Picks
<1> HIDE DEF w, pick, g, step, Term
<1>11. PICK f : PartialSums(f, n, w) /\ f[n] = g[1..n]
  BY <1>1, <1>2, <1>10, SumIsPartialSum
<1> QED BY <1>9, <1>11 DEF w, PartialSums

Weights(q) == [i \in 1..Len(q) |-> FrameLen(q[i])]

LEMMA FrameLenType == \A n \in Node : FrameLen(n) \in Nat \ {0}
  BY ConnectionAssumption DEF FrameLen, Node

\* q is a part of r that starts k frames after its front.
Part(q, r, k) == k \in {0, 1} /\ Len(q) + k <= Len(r) /\ \A i \in 1..Len(q) : r[i + k] = q[i]

LEMMA TotalOfPart ==
  ASSUME NEW q \in Seq(Node), NEW r \in Seq(Node), NEW k, Part(q, r, k)
  PROVE  \E h \in [0..Len(r) -> Nat] :
            /\ h[Len(r)] = Total(r) /\ h[0] = 0
            /\ \A i \in 1..Len(r) : h[i] = h[i - 1] + FrameLen(r[i])
            /\ h[Len(q) + k] = h[k] + Total(q)
<1>1. PICK f \in [0..Len(q) -> Nat] : /\ f[0] = 0 /\ f[Len(q)] = Total(q)
                                      /\ \A i \in 1..Len(q) : f[i] = f[i - 1] + FrameLen(q[i])
  BY TotalIsPartialSum
<1>2. PICK h \in [0..Len(r) -> Nat] : /\ h[0] = 0 /\ h[Len(r)] = Total(r)
                                      /\ \A i \in 1..Len(r) : h[i] = h[i - 1] + FrameLen(r[i])
  BY TotalIsPartialSum
<1>3. PartialSums(f, Len(q), Weights(q)) /\ PartialSums(h, Len(r), Weights(r))
  BY <1>1, <1>2 DEF PartialSums, Weights
<1>4. \A i \in 1..Len(q) : Weights(q)[i] \in Nat /\ Weights(r)[i + k] = Weights(q)[i]
  <2> SUFFICES ASSUME NEW i \in 1..Len(q)
               PROVE  Weights(q)[i] \in Nat /\ Weights(r)[i + k] = Weights(q)[i]
    OBVIOUS
  <2>1. q[i] \in Node /\ i + k \in 1..Len(r) /\ r[i + k] = q[i]
    BY DEF Part
  <2> QED BY <2>1, FrameLenType DEF Weights
<1>5. Inside(Len(q), Weights(q), Len(r), Weights(r), k)
  BY <1>4 DEF Inside, Part
<1>6. h[Len(q) + k] = h[k] + f[Len(q)]
  BY <1>3, <1>5, PartialSumsOfPart
<1> QED BY <1>1, <1>2, <1>6

LEMMA HeadAndTail ==
  ASSUME NEW N, NEW q \in Seq(N), q # <<>>
  PROVE  /\ Tail(q) \in Seq(N) /\ Len(Tail(q)) + 1 = Len(q) /\ Len(Tail(q)) \in Nat
         /\ q[1] = Head(q) /\ Head(q) \in N
         /\ \A i \in 1..Len(Tail(q)) : q[i + 1] = Tail(q)[i]
  OBVIOUS

\* What is queued, and how it grows and shrinks.
LEMMA TotalSteps ==
  /\ Total(<<>>) = 0
  /\ \A q \in Seq(Node) : Total(q) \in Nat
  /\ \A q \in Seq(Node), n \in Node : Total(Append(q, n)) = Total(q) + FrameLen(n)
  /\ \A q \in Seq(Node) : q # <<>> => Total(q) = FrameLen(Head(q)) + Total(Tail(q))
<1>1. Total(<<>>) = 0
  <2>1. <<>> \in Seq(Node) /\ Len(<<>>) = 0
    OBVIOUS
  <2> QED BY <2>1, TotalIsPartialSum
<1>2. ASSUME NEW q \in Seq(Node) PROVE Total(q) \in Nat
  <2>1. PICK f \in [0..Len(q) -> Nat] : f[Len(q)] = Total(q)
    BY TotalIsPartialSum
  <2> QED BY <2>1
<1>3. ASSUME NEW q \in Seq(Node), NEW n \in Node PROVE Total(Append(q, n)) = Total(q) + FrameLen(n)
  <2> DEFINE r == Append(q, n)
  <2>1. r \in Seq(Node) /\ Len(r) = Len(q) + 1 /\ Len(q) \in Nat /\ r[Len(q) + 1] = n
    OBVIOUS
  <2>0. Part(q, r, 0)
    BY <2>1 DEF Part
  <2> HIDE DEF r
  <2>2. PICK h \in [0..Len(r) -> Nat] :
            /\ h[Len(r)] = Total(r) /\ h[0] = 0
            /\ \A i \in 1..Len(r) : h[i] = h[i - 1] + FrameLen(r[i])
            /\ h[Len(q) + 0] = h[0] + Total(q)
    BY <2>1, <2>0, TotalOfPart
  <2>3. h[Len(q) + 1] = h[Len(q)] + FrameLen(n)
    BY <2>1, <2>2
  <2> QED BY <1>2, <2>1, <2>2, <2>3 DEF r
<1>4. ASSUME NEW q \in Seq(Node), q # <<>> PROVE Total(q) = FrameLen(Head(q)) + Total(Tail(q))
  <2> DEFINE t == Tail(q)
  <2>1. /\ t \in Seq(Node) /\ Len(t) + 1 = Len(q) /\ Len(t) \in Nat
        /\ q[1] = Head(q) /\ Head(q) \in Node
    <3> DEFINE N == Node
    <3>1. q \in Seq(N)
      OBVIOUS
    <3> HIDE DEF N
    <3>2. /\ t \in Seq(N) /\ Len(t) + 1 = Len(q) /\ Len(t) \in Nat
          /\ q[1] = Head(q) /\ Head(q) \in N
      BY <1>4, <3>1
    <3> QED BY <3>2 DEF N
  <2>0. Part(t, q, 1)
    BY <2>1, HeadAndTail DEF Part
  <2> HIDE DEF t
  <2>2. PICK h \in [0..Len(q) -> Nat] :
            /\ h[Len(q)] = Total(q) /\ h[0] = 0
            /\ \A i \in 1..Len(q) : h[i] = h[i - 1] + FrameLen(q[i])
            /\ h[Len(t) + 1] = h[1] + Total(t)
    <3>1. t \in Seq(Node) /\ q \in Seq(Node) /\ 1 \in Nat /\ Part(t, q, 1)
      BY <2>1, <2>0
    <3> QED BY <3>1, TotalOfPart
  <2>3. h[1] = h[0] + FrameLen(Head(q))
    BY <2>1, <2>2
  <2>4. FrameLen(Head(q)) \in Nat
    BY <2>1, FrameLenType
  <2>5. Total(t) \in Nat
    BY <1>2, <2>1
  <2>6. Total(q) = h[1] + Total(t) /\ h[1] = FrameLen(Head(q))
    BY <2>1, <2>2, <2>3, <2>4
  <2>7. Total(q) = FrameLen(Head(q)) + Total(t)
    BY <2>4, <2>5, <2>6
  <2> QED BY <2>7 DEF t
<1> QED BY <1>1, <1>2, <1>3, <1>4

\* What a step does to the queue and to its count.
Counted == queueBufLen = Total(sendQueue)

LEMMA CountIsNatural == Coherent /\ Counted => queueBufLen \in Nat
  BY TotalSteps DEF Coherent, Counted

LEMMA CloseKeepsCount ==
  ASSUME Coherent, Counted, NEW r,
         SocketClose(queueBufLen, r), sendQueue = <<>>, sendQueue' = <<>>
  PROVE  Counted'
  BY TotalSteps DEF SocketClose, Counted

LEMMA ErrorKeepsCount ==
  ASSUME Coherent, Counted, NEW r, ErrToClose(r)
  PROVE  Counted'
<1>1. CASE closeSocket
  BY <1>1 DEF ErrToClose, Counted, queue
<1>2. CASE ~closeSocket
  <2>1. sendQueue' = <<>> /\ queueBufLen' = 0
    BY <1>2 DEF ErrToClose, SocketClose
  <2> QED BY <2>1, TotalSteps DEF Counted
<1> QED BY <1>1, <1>2

LEMMA EnqueueCounts ==
  ASSUME Coherent, Counted, EnqueueSend
  PROVE  Counted'
<1> DEFINE n == Head(ready).node
<1>1. /\ ready # <<>> /\ Head(ready).kind = "send"
      /\ sendQueue' = Append(sendQueue, n)
      /\ queueBufLen' = Clamped(queueBufLen) + FrameLen(n)
  BY DEF EnqueueSend, Running
<1>2. n \in Node /\ sendQueue \in Seq(Node) /\ queueBufLen \in Nat
  BY <1>1, RunsFirst, CountIsNatural DEF Coherent
<1>3. Total(Append(sendQueue, n)) = Total(sendQueue) + FrameLen(n)
  BY <1>2, TotalSteps
<1>4. Clamped(queueBufLen) = queueBufLen
  BY <1>2 DEF Clamped
<1> QED BY <1>1, <1>3, <1>4 DEF Counted

LEMMA BeginCloseCounts ==
  ASSUME Coherent, Counted, BeginClose
  PROVE  Counted'
<1>1. sendQueue' = sendQueue
  BY DEF BeginClose
<1>2. CASE queueBufLen' = queueBufLen
  BY <1>1, <1>2 DEF Counted
<1>3. CASE sendQueue = <<>> /\ SocketClose(queueBufLen, Rest)
  BY <1>1, <1>3, CloseKeepsCount
<1> QED BY <1>2, <1>3 DEF BeginClose

LEMMA WriteOkCounts ==
  ASSUME Coherent, Counted, WriteOk
  PROVE  Counted'
<1> DEFINE n == Head(ready).node
           popped == sendQueue # <<>> /\ Head(sendQueue) = n
           q == IF popped THEN Tail(sendQueue) ELSE sendQueue
           len == IF popped THEN Released(queueBufLen, n) ELSE queueBufLen
<1>1. /\ ready # <<>> /\ Head(ready).kind = "write" /\ sendQueue' = q
      /\ \/ queueBufLen' = len
         \/ q = <<>> /\ ContinueClose(len, Rest)
  BY DEF WriteOk, Running
<1>2. n \in Node /\ sendQueue \in Seq(Node)
  BY <1>1, RunsFirst DEF Coherent
<1>3. len = Total(q)
  <2>1. CASE popped
    <3>1. Total(sendQueue) = FrameLen(n) + Total(Tail(sendQueue))
      BY <1>2, <2>1, TotalSteps
    <3>2. FrameLen(n) \in Nat /\ Total(Tail(sendQueue)) \in Nat
      <4>1. Tail(sendQueue) \in Seq(Node)
        BY <1>2, <2>1
      <4> QED BY <1>2, <4>1, TotalSteps, FrameLenNat
    <3>3. Released(Total(sendQueue), n) = Total(Tail(sendQueue))
      BY <3>1, <3>2 DEF Released, Clamped
    <3> QED BY <2>1, <3>3 DEF Counted
  <2>2. CASE ~popped
    BY <2>2 DEF Counted
  <2> QED BY <2>1, <2>2
<1> HIDE DEF q, len
<1>4. CASE queueBufLen' = len
  BY <1>1, <1>3, <1>4 DEF Counted
<1>5. CASE q = <<>> /\ ContinueClose(len, Rest)
  <2>1. queueBufLen' \in {len, 0}
    BY <1>5 DEF ContinueClose, SocketClose
  <2> QED BY <1>1, <1>3, <1>5, <2>1, TotalSteps DEF Counted
<1> QED BY <1>1, <1>4, <1>5

LEMMA CountStep ==
  Coherent /\ Counted /\ [ConnNext]_connVars => Counted'
<1> SUFFICES ASSUME Coherent, Counted, [ConnNext]_connVars PROVE Counted'
  OBVIOUS
<1>1. queueBufLen \in Nat
  BY CountIsNatural
<1>2. ASSUME UNCHANGED queue PROVE Counted'
  BY <1>2 DEF queue, Counted
<1>3. CASE RunSend
  <2>1. CASE DropSend
    <3>1. Clamped(queueBufLen) = queueBufLen
      BY <1>1 DEF Clamped
    <3> QED BY <2>1, <3>1 DEF DropSend, Counted
  <2> QED BY <1>2, <1>3, <2>1, EnqueueCounts DEF RunSend, RefuseSend
<1>4. CASE RunClose
  BY <1>2, <1>4, BeginCloseCounts DEF RunClose, RepeatClose
<1>5. CASE RunWrite
  BY <1>5, WriteOkCounts, ErrorKeepsCount DEF RunWrite, WriteFailed
<1>6. CASE RunHead
  BY <1>2, <1>6, ErrorKeepsCount DEF RunHead, HeadFailed, HeadCancelled, HeadOk
<1>7. CASE RunBody
  BY <1>2, <1>7, ErrorKeepsCount DEF RunBody, BodyFailed, Deliver, DeliverThrows
<1>8. CASE Network
  BY <1>2, <1>8 DEF Network, WriteCompletes, WriteBreaks, ReadCompletes
<1>9. CASE (\E m \in Msgs : ToSend(m)) \/ StopToClose \/ (~closing /\ Start)
  BY <1>2, <1>9 DEF ToSend, StopToClose, Start
<1>10. CASE UNCHANGED connVars
  BY <1>2, <1>10 DEF connVars
<1> QED
  BY <1>3, <1>4, <1>5, <1>6, <1>7, <1>8, <1>9, <1>10 DEF ConnNext

\* The bytes counted are the bytes queued, through every way to queue, send,
\* drop or clear a frame, so the limit of send() bounds the real backlog.
THEOREM BacklogIsCounted == ConnSpec => []QueueAccounting
<1>1. ConnSpec => []IInv
  BY Invariance
<1>2. ConnInit(TRUE) => Counted
  BY TotalSteps DEF ConnInit, Counted
<1>3. IInv /\ Counted /\ [ConnNext]_connVars => Counted'
  BY CountStep, InvariantIsCoherent
<1>4. Counted => QueueAccounting
  BY DEF Counted, Total, QueueAccounting
<1> QED BY <1>1, <1>2, <1>3, <1>4, PTL DEF ConnSpec

\* The frames queued never hold more bytes than maxSendBufLen, whatever is sent
\* and however long the peer does not read.
THEOREM BacklogIsBounded == ConnSpec => [](Total(sendQueue) <= MaxSendBufLen)
<1>1. QueueAccounting => queueBufLen = Total(sendQueue)
  BY DEF QueueAccounting, Total
<1>2. ConnTypeOK => queueBufLen <= MaxSendBufLen
  BY ConnectionAssumption DEF ConnTypeOK
<1>3. ConnTypeOK /\ QueueAccounting => Total(sendQueue) <= MaxSendBufLen
  BY <1>1, <1>2
<1> QED BY <1>3, TypeCorrect, BacklogIsCounted, PTL

===========================================================================
