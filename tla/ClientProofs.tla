--------------------------- MODULE ClientProofs ---------------------------
(***************************************************************************)
(* What holds of a Client whatever the messages, the sizes, the limit and  *)
(* the number of calls.  Its socket is opened by async_connect, even after *)
(* it was closed, so the invariant of ConnectionProofs is not the          *)
(* client's: in its place comes a count of what the client waits for.      *)
(***************************************************************************)
EXTENDS Client, ConnectionProofs

WriteKinds == {"write"}
StageKinds == {"resolve", "connect", "head", "body"}
ReadKinds  == {"head", "body", "connect"}

\* Writes and stages of the dial that are begun and not yet answered.
Writes == Len(writes) + HowMany(ready, WriteKinds)
Waits  == (IF resolving THEN 1 ELSE 0) + Len(reads) + HowMany(ready, StageKinds)

\* The handlers that may wait when the client is not closing, and once it
\* has started.
Sound(open)      == {h \in ClientHandlers : h.ec # "aborted" /\ (open \/ h.kind \notin {"head", "body"})}
SoundReads(open) == {k \in ReadKinds : open \/ k = "connect"}
Settled          == {h \in ClientHandlers : h.kind \notin {"resolve", "connect"}}

ClientTypes ==
    /\ ClientTypeOK
    /\ started \in BOOLEAN /\ sending \in BOOLEAN /\ closing \in BOOLEAN
    /\ closeSocket \in BOOLEAN /\ closeNotified \in BOOLEAN
    /\ sockOpen \in BOOLEAN /\ aborted \in BOOLEAN

WritesSound ==
    /\ NothingOwed
    /\ closeSocket => closing
    /\ Writes <= 1
    /\ ~closeSocket =>
         /\ sending <=> (sendQueue # <<>>)
         /\ sending <=> (Writes = 1)
         /\ \A i \in DOMAIN writes : writes[i] = Head(sendQueue)
         /\ \A i \in DOMAIN ready :
              ready[i].kind = "write" => ready[i].node = Head(sendQueue)

DialSound ==
    /\ Waits <= IF dialled THEN 1 ELSE 0
    /\ ~started => sends < MaxSends
    /\ started => /\ dialled /\ ~resolving
                  /\ reads \in Seq({"head", "body"}) /\ ready \in Seq(Settled)
    /\ ~closing => /\ Waits = IF dialled THEN 1 ELSE 0
                   /\ reads \in Seq(SoundReads(sockOpen)) /\ ready \in Seq(Sound(sockOpen))

ClientInv == ClientTypes /\ WritesSound /\ DialSound

-----------------------------------------------------------------------------
(* Handlers and queues.                                                    *)

LEMMA ClientFrameLen == ASSUME NEW n \in Node PROVE FrameLen(n) \in Nat
  BY ConnectionAssumption DEF FrameLen, Node

LEMMA ClientHandlerType ==
  ASSUME NEW ec \in Outcomes
  PROVE  /\ \A n \in Node : \A k \in {"send", "write"} :
              /\ Handler(k, ec, n) \in ClientHandlers
              /\ Handler(k, ec, n).kind = k /\ Handler(k, ec, n).ec = ec
              /\ Handler(k, ec, n).node = n
         /\ \A k \in {"close", "head", "body"} \cup IF ec = "bad" THEN {} ELSE {"resolve", "connect"} :
              /\ Handler(k, ec, NoNode) \in ClientHandlers
              /\ Handler(k, ec, NoNode).kind = k /\ Handler(k, ec, NoNode).ec = ec
  BY DEF Handler, Handlers, ClientHandlers

LEMMA CloseRequestType ==
  CloseRequest \in ClientHandlers /\ CloseRequest.kind = "close" /\ CloseRequest.ec = "ok"
  BY ClientHandlerType DEF CloseRequest, Outcomes

LEMMA ClientRest ==
  ASSUME ready \in Seq(ClientHandlers), ready # <<>>
  PROVE  /\ Rest \in Seq(ClientHandlers) /\ Head(ready) \in ClientHandlers
         /\ \A K : HowMany(ready, K) = HowMany(Rest, K) + IF Head(ready).kind \in K THEN 1 ELSE 0
         /\ \A K : HowMany(Rest, K) \in Nat /\ HowMany(ready, K) \in Nat
         /\ \A T : ready \in Seq(T) => Rest \in Seq(T) /\ Head(ready) \in T
         /\ Head(ready).kind \in {"send", "write"} => Head(ready).node \in Node
         /\ Head(ready).ec \in Outcomes
<1>1. Rest \in Seq(ClientHandlers) /\ Head(ready) \in ClientHandlers
  BY DEF Rest
<1>2. \A K : HowMany(ready, K) = HowMany(Rest, K) + IF Head(ready).kind \in K THEN 1 ELSE 0
  BY TailHowMany DEF Rest
<1>3. \A K : HowMany(Rest, K) \in Nat /\ HowMany(ready, K) \in Nat
  BY <1>1, ThoseFinite
<1>4. \A T : ready \in Seq(T) => Rest \in Seq(T) /\ Head(ready) \in T
  BY DEF Rest
<1>5. \A h \in ClientHandlers : /\ h.kind \in {"send", "write"} => h.node \in Node
                                /\ h.ec \in Outcomes
  BY DEF ClientHandlers, Handlers
<1> QED BY <1>1, <1>2, <1>3, <1>4, <1>5

LEMMA CancelledIn ==
  ASSUME ClientTypes, NEW T, NEW K, reads \in Seq(K),
         \A k \in K : Handler(k, "aborted", NoNode) \in T,
         \A n \in Node : Handler("write", "aborted", n) \in T
  PROVE  Cancelled \in Seq(T)
<1> DEFINE rs == [i \in DOMAIN reads |-> Handler(reads[i], "aborted", NoNode)]
           ws == [i \in DOMAIN writes |-> Handler("write", "aborted", writes[i])]
<1>1. /\ DOMAIN reads = 1..Len(reads) /\ Len(reads) \in Nat
      /\ DOMAIN writes = 1..Len(writes) /\ Len(writes) \in Nat
      /\ \A i \in DOMAIN reads : reads[i] \in K
      /\ \A i \in DOMAIN writes : writes[i] \in Node
  BY DEF ClientTypes, ClientTypeOK
<1>2. rs \in Seq(T)
  <2>1. \A i \in DOMAIN reads : Handler(reads[i], "aborted", NoNode) \in T
    BY <1>1
  <2> QED BY <1>1, <2>1
<1>3. ws \in Seq(T)
  <2>1. \A i \in DOMAIN writes : Handler("write", "aborted", writes[i]) \in T
    BY <1>1
  <2> QED BY <1>1, <2>1
<1> HIDE DEF rs, ws
<1>4. rs \o ws \in Seq(T)
  BY <1>2, <1>3
<1> QED BY <1>4 DEF Cancelled, rs, ws

\* Closing answers every operation in flight, and nothing else.
LEMMA CancelledCounts ==
  ASSUME ClientTypes
  PROVE  /\ Cancelled \in Seq(ClientHandlers)
         /\ HowMany(Cancelled, WriteKinds) = Len(writes) /\ Len(writes) \in Nat
         /\ HowMany(Cancelled, StageKinds) = Len(reads) /\ Len(reads) \in Nat
<1> DEFINE rs == [i \in DOMAIN reads |-> Handler(reads[i], "aborted", NoNode)]
           ws == [i \in DOMAIN writes |-> Handler("write", "aborted", writes[i])]
<1>1. /\ DOMAIN reads = 1..Len(reads) /\ Len(reads) \in Nat
      /\ DOMAIN writes = 1..Len(writes) /\ Len(writes) \in Nat
      /\ \A i \in DOMAIN reads : reads[i] \in ReadKinds
      /\ \A i \in DOMAIN writes : writes[i] \in Node
  BY DEF ClientTypes, ClientTypeOK, ReadKinds
<1>2. \A i \in DOMAIN reads : rs[i] \in ClientHandlers /\ rs[i].kind = reads[i]
  <2> TAKE i \in DOMAIN reads
  <2>1. reads[i] \in {"close", "head", "body", "resolve", "connect"}
    BY <1>1 DEF ReadKinds
  <2> QED BY <2>1, ClientHandlerType DEF Outcomes
<1>3. \A i \in DOMAIN writes : ws[i] \in ClientHandlers /\ ws[i].kind = "write"
  <2> TAKE i \in DOMAIN writes
  <2>1. writes[i] \in Node
    BY <1>1
  <2> QED BY <2>1, ClientHandlerType DEF Outcomes
<1>4. /\ rs \in Seq(ClientHandlers) /\ DOMAIN rs = DOMAIN reads /\ Len(rs) = Len(reads)
      /\ ws \in Seq(ClientHandlers) /\ DOMAIN ws = DOMAIN writes /\ Len(ws) = Len(writes)
  <2>1. rs \in Seq(ClientHandlers) /\ DOMAIN rs = DOMAIN reads /\ Len(rs) = Len(reads)
    BY <1>1, <1>2
  <2>2. ws \in Seq(ClientHandlers) /\ DOMAIN ws = DOMAIN writes /\ Len(ws) = Len(writes)
    BY <1>1, <1>3
  <2> QED BY <2>1, <2>2
<1>5. /\ \A i \in DOMAIN rs : rs[i].kind \notin WriteKinds /\ rs[i].kind \in StageKinds
      /\ \A i \in DOMAIN ws : ws[i].kind \in WriteKinds /\ ws[i].kind \notin StageKinds
  BY <1>1, <1>2, <1>3, <1>4 DEF ReadKinds, WriteKinds, StageKinds
<1> HIDE DEF rs, ws
<1>6. /\ HowMany(rs, WriteKinds) = 0 /\ HowMany(rs, StageKinds) = Len(reads)
      /\ HowMany(ws, WriteKinds) = Len(writes) /\ HowMany(ws, StageKinds) = 0
  BY <1>4, <1>5, NoneOrAll
<1>7. \A K : HowMany(rs \o ws, K) = HowMany(rs, K) + HowMany(ws, K)
  BY <1>4, ConcatHowMany
<1>8. rs \o ws \in Seq(ClientHandlers)
  BY <1>4
<1>9. Cancelled = rs \o ws
  BY DEF Cancelled, rs, ws
<1>10. HowMany(rs \o ws, WriteKinds) = Len(writes)
  BY <1>1, <1>6, <1>7
<1>11. HowMany(rs \o ws, StageKinds) = Len(reads)
  BY <1>1, <1>6, <1>7
<1> QED BY <1>1, <1>8, <1>9, <1>10, <1>11

LEMMA SeqGrows ==
  ASSUME NEW A, NEW B, A \subseteq B, NEW s \in Seq(A)
  PROVE  s \in Seq(B)
  OBVIOUS

LEMMA SeqExtended ==
  ASSUME NEW A, NEW s \in Seq(A), NEW x \in A
  PROVE  Append(s, x) \in Seq(A)
  OBVIOUS

\* A step that runs or posts no handler of the kinds K.
LEMMA SameCount ==
  ASSUME ready \in Seq(ClientHandlers), NEW K,
         NEW r, \/ r = ready
                \/ ready # <<>> /\ r = Rest /\ Head(ready).kind \notin K,
         \/ ready' = r
         \/ \E h \in ClientHandlers : h.kind \notin K /\ ready' = Append(r, h)
  PROVE  HowMany(ready', K) = HowMany(ready, K) /\ HowMany(ready, K) \in Nat
<1>1. r \in Seq(ClientHandlers) /\ HowMany(r, K) = HowMany(ready, K) /\ HowMany(r, K) \in Nat
  <2>1. CASE r = ready
    BY <2>1, ThoseFinite
  <2>2. CASE ready # <<>> /\ r = Rest /\ Head(ready).kind \notin K
    BY <2>2, ClientRest
  <2> QED BY <2>1, <2>2
<1>2. \A h \in ClientHandlers : h.kind \notin K => HowMany(Append(r, h), K) = HowMany(r, K)
  <2> TAKE h \in ClientHandlers
  <2> HAVE h.kind \notin K
  <2>1. HowMany(Append(r, h), K) = HowMany(r, K) + IF h.kind \in K THEN 1 ELSE 0
    BY <1>1, AppendHowMany
  <2> QED BY <1>1, <2>1
<1> QED BY <1>1, <1>2

-----------------------------------------------------------------------------
(* What the code's functions leave behind, for any handler queue `r'.      *)

LEMMA AsyncReadIn ==
  ASSUME ClientTypes, NEW T, NEW r \in Seq(T), NEW K, reads \in Seq(K), NEW k,
         sockOpen => k \in K, ~sockOpen => Handler(k, "error", NoNode) \in T,
         AsyncRead(k, r)
  PROVE  ready' \in Seq(T) /\ reads' \in Seq(K)
<1>1. CASE sockOpen
  BY <1>1 DEF AsyncRead
<1>2. CASE ~sockOpen
  <2>1. Append(r, Handler(k, "error", NoNode)) \in Seq(T)
    BY <1>2
  <2> QED BY <1>2, <2>1 DEF AsyncRead
<1> QED BY <1>1, <1>2

\* One stage of the dial begins: in the reactor, or as a handler at once.
LEMMA AsyncReadCounts ==
  ASSUME ClientTypes, NEW r \in Seq(ClientHandlers), NEW k \in {"head", "body"},
         AsyncRead(k, r)
  PROVE  /\ Len(reads') + HowMany(ready', StageKinds) = Len(reads) + HowMany(r, StageKinds) + 1
         /\ HowMany(ready', WriteKinds) = HowMany(r, WriteKinds)
<1>1. /\ Handler(k, "error", NoNode) \in ClientHandlers
      /\ Handler(k, "error", NoNode).kind \in StageKinds
      /\ Handler(k, "error", NoNode).kind \notin WriteKinds
  BY ClientHandlerType DEF Outcomes, StageKinds, WriteKinds
<1>2. /\ reads \in Seq(ReadKinds) /\ Len(reads) \in Nat
      /\ Len(Append(reads, k)) = Len(reads) + 1
      /\ HowMany(r, StageKinds) \in Nat /\ HowMany(r, WriteKinds) \in Nat
  BY ThoseFinite DEF ClientTypes, ClientTypeOK, ReadKinds
<1>3. /\ HowMany(Append(r, Handler(k, "error", NoNode)), StageKinds) = HowMany(r, StageKinds) + 1
      /\ HowMany(Append(r, Handler(k, "error", NoNode)), WriteKinds) = HowMany(r, WriteKinds)
  <2>1. \A K : HowMany(Append(r, Handler(k, "error", NoNode)), K)
                 = HowMany(r, K) + IF Handler(k, "error", NoNode).kind \in K THEN 1 ELSE 0
    BY <1>1, AppendHowMany
  <2> QED BY <1>1, <1>2, <2>1
<1>4. CASE sockOpen
  BY <1>2, <1>4 DEF AsyncRead
<1>5. CASE ~sockOpen
  <2>1. reads' = reads /\ ready' = Append(r, Handler(k, "error", NoNode))
    BY <1>5 DEF AsyncRead
  <2>2. HowMany(ready', StageKinds) = HowMany(r, StageKinds) + 1
    BY <1>3, <2>1
  <2>3. HowMany(ready', WriteKinds) = HowMany(r, WriteKinds)
    BY <1>3, <2>1
  <2> QED BY <1>2, <2>1, <2>2, <2>3
<1> QED BY <1>4, <1>5

LEMMA SocketCloseCounts ==
  ASSUME ClientTypes, NEW r \in Seq(ClientHandlers), NEW len \in 0..MaxSendBufLen,
         SocketClose(len, r)
  PROVE  /\ closeSocket' = TRUE /\ sending' = FALSE
         /\ closeNotified' \in BOOLEAN /\ sockOpen' \in BOOLEAN
         /\ queueBufLen' \in 0..MaxSendBufLen
         /\ ready' \in Seq(ClientHandlers)
         /\ reads' \in Seq(ReadKinds) /\ writes' \in Seq(Node)
         /\ Len(writes') + HowMany(ready', WriteKinds) = Len(writes) + HowMany(r, WriteKinds)
         /\ Len(reads') + HowMany(ready', StageKinds) = Len(reads) + HowMany(r, StageKinds)
         /\ ~closeSocket => queueBufLen' = 0 /\ writes' = <<>>
         /\ closeSocket => queueBufLen' = len /\ writes' = writes
<1>1. CASE closeSocket
  BY <1>1 DEF SocketClose, ClientTypes, ClientTypeOK, ReadKinds
<1>2. CASE ~closeSocket
  <2>1. /\ closeSocket' = TRUE /\ closeNotified' = TRUE /\ sockOpen' = FALSE
        /\ ready' = r \o Cancelled /\ reads' = <<>> /\ writes' = <<>>
        /\ sending' = FALSE /\ queueBufLen' = 0
    BY <1>2 DEF SocketClose
  <2>2. 0 \in 0..MaxSendBufLen
    BY ConnectionAssumption
  <2>3. /\ reads' \in Seq(ReadKinds) /\ writes' \in Seq(Node)
        /\ Len(reads') = 0 /\ Len(writes') = 0
    BY <2>1
  <2>4. /\ r \o Cancelled \in Seq(ClientHandlers)
        /\ \A K : HowMany(r \o Cancelled, K) = HowMany(r, K) + HowMany(Cancelled, K)
        /\ \A K : HowMany(r, K) \in Nat
    BY CancelledCounts, ConcatElements, ConcatHowMany, ThoseFinite
  <2>5. /\ HowMany(ready', WriteKinds) = HowMany(r, WriteKinds) + Len(writes)
        /\ HowMany(ready', StageKinds) = HowMany(r, StageKinds) + Len(reads)
    BY <2>1, <2>4, CancelledCounts
  <2>6. /\ Len(writes') + HowMany(ready', WriteKinds) = Len(writes) + HowMany(r, WriteKinds)
        /\ Len(reads') + HowMany(ready', StageKinds) = Len(reads) + HowMany(r, StageKinds)
    BY <2>3, <2>4, <2>5, CancelledCounts
  <2> QED BY <1>2, <2>1, <2>2, <2>3, <2>4, <2>6
<1> QED BY <1>1, <1>2

\* Closing keeps the started client settled.
LEMMA SocketCloseSettled ==
  ASSUME ClientTypes, NEW r \in Seq(Settled), reads \in Seq({"head", "body"}), NEW len,
         SocketClose(len, r)
  PROVE  ready' \in Seq(Settled) /\ reads' \in Seq({"head", "body"})
<1>1. CASE closeSocket
  BY <1>1 DEF SocketClose
<1>2. CASE ~closeSocket
  <2>1. /\ \A k \in {"head", "body"} : Handler(k, "aborted", NoNode) \in Settled
        /\ \A n \in Node : Handler("write", "aborted", n) \in Settled
    BY ClientHandlerType DEF Outcomes, Settled
  <2>2. Cancelled \in Seq(Settled)
    BY <2>1, CancelledIn
  <2>3. r \o Cancelled \in Seq(Settled)
    BY <2>2
  <2>4. ready' = r \o Cancelled /\ reads' = <<>>
    BY <1>2 DEF SocketClose
  <2> QED BY <2>3, <2>4
<1> QED BY <1>1, <1>2

\* errToClose() leaves a closed client, whatever it found.
LEMMA ErrToCloseCounts ==
  ASSUME ClientTypes, WritesSound, NEW r \in Seq(ClientHandlers), ErrToClose(r)
  PROVE  /\ closeSocket' = TRUE /\ closing' = TRUE
         /\ sending' \in BOOLEAN /\ aborted' \in BOOLEAN
         /\ closeNotified' \in BOOLEAN /\ sockOpen' \in BOOLEAN
         /\ sendQueue' = <<>> /\ queueBufLen' = 0 /\ writes' = <<>>
         /\ sendQueue' \in Seq(Node) /\ queueBufLen' \in 0..MaxSendBufLen
         /\ writes' \in Seq(Node)
         /\ ready' \in Seq(ClientHandlers) /\ reads' \in Seq(ReadKinds)
         /\ Len(writes') + HowMany(ready', WriteKinds) = Len(writes) + HowMany(r, WriteKinds)
         /\ Len(reads') + HowMany(ready', StageKinds) = Len(reads) + HowMany(r, StageKinds)
<1>0. 0 \in 0..MaxSendBufLen /\ <<>> \in Seq(Node)
  BY ConnectionAssumption
<1>1. CASE closeSocket
  BY <1>0, <1>1 DEF ErrToClose, ClientTypes, ClientTypeOK, ReadKinds, WritesSound, NothingOwed, queue
<1>2. CASE ~closeSocket
  <2>1. /\ sendQueue' = <<>> /\ closing' = TRUE /\ aborted' = TRUE
        /\ SocketClose(queueBufLen, r)
    BY <1>2 DEF ErrToClose
  <2>2. queueBufLen \in 0..MaxSendBufLen
    BY DEF ClientTypes, ClientTypeOK
  <2>3. queueBufLen' = 0 /\ writes' = <<>>
    BY <1>2, <2>1, <2>2, SocketCloseCounts
  <2> QED BY <1>0, <1>2, <2>1, <2>2, <2>3, SocketCloseCounts
<1> QED BY <1>1, <1>2

LEMMA ErrToCloseSettled ==
  ASSUME ClientTypes, NEW r \in Seq(Settled), reads \in Seq({"head", "body"}), ErrToClose(r)
  PROVE  ready' \in Seq(Settled) /\ reads' \in Seq({"head", "body"})
<1>1. CASE closeSocket
  BY <1>1 DEF ErrToClose
<1>2. CASE ~closeSocket
  BY <1>2, SocketCloseSettled DEF ErrToClose
<1> QED BY <1>1, <1>2

\* doSend() begins the write of the queue's front.
LEMMA DoSendCounts ==
  ASSUME ClientTypes, NEW r \in Seq(ClientHandlers), NEW q \in Seq(Node), q # <<>>,
         DoSend(q, r)
  PROVE  /\ sending' = TRUE
         /\ ready' \in Seq(ClientHandlers) /\ writes' \in Seq(Node)
         /\ Len(writes') + HowMany(ready', WriteKinds) = Len(writes) + HowMany(r, WriteKinds) + 1
         /\ \/ writes' = Append(writes, Head(q)) /\ ready' = r
            \/ writes' = writes /\ ready' = Append(r, Handler("write", "error", Head(q)))
<1> DEFINE h == Handler("write", "error", Head(q))
<1>1. Head(q) \in Node
  OBVIOUS
<1>2. /\ h \in ClientHandlers /\ h.kind \in WriteKinds
  BY <1>1, ClientHandlerType DEF Outcomes, WriteKinds
<1>3. /\ writes \in Seq(Node) /\ Len(writes) \in Nat /\ HowMany(r, WriteKinds) \in Nat
      /\ Append(writes, Head(q)) \in Seq(Node) /\ Len(Append(writes, Head(q))) = Len(writes) + 1
  BY <1>1, ThoseFinite DEF ClientTypes, ClientTypeOK
<1>4. Append(r, h) \in Seq(ClientHandlers) /\ HowMany(Append(r, h), WriteKinds) = HowMany(r, WriteKinds) + 1
  <2>1. HowMany(Append(r, h), WriteKinds) = HowMany(r, WriteKinds) + IF h.kind \in WriteKinds THEN 1 ELSE 0
    BY <1>2, AppendHowMany
  <2> QED BY <1>2, <2>1
<1>5. sending' = TRUE /\ AsyncWrite(Head(q), r)
  BY DEF DoSend
<1>6. CASE sockOpen
  <2>1. writes' = Append(writes, Head(q)) /\ ready' = r
    BY <1>5, <1>6 DEF AsyncWrite
  <2> QED BY <1>3, <1>5, <2>1
<1>7. CASE ~sockOpen
  <2>1. writes' = writes /\ ready' = Append(r, h)
    BY <1>5, <1>7 DEF AsyncWrite
  <2> QED BY <1>3, <1>4, <1>5, <2>1
<1> QED BY <1>6, <1>7

-----------------------------------------------------------------------------
\* Every reachable state is well typed.  The start message has a number left
\* for it, because a client starts once and its other sends leave room.
LEMMA ClientTypeStep ==
  ASSUME ClientInv, [ClientNext]_clientVars
  PROVE  ClientTypes'
<1> USE DEF flags, queue, io, history, bounded, connVars, dialVars
<1>0. /\ ClientTypes /\ WritesSound /\ DialSound
      /\ ready \in Seq(ClientHandlers) /\ reads \in Seq(ReadKinds) /\ writes \in Seq(Node)
      /\ sendQueue \in Seq(Node) /\ queueBufLen \in 0..MaxSendBufLen
      /\ sends \in 0..MaxSends /\ MaxSends \in Nat
      /\ MaxSendBufLen \in Nat
  BY ConnectionAssumption DEF ClientInv, ClientTypes, ClientTypeOK, ReadKinds
<1>1. CASE Connect
  BY <1>0, <1>1 DEF Connect, ClientTypes, ClientTypeOK
<1>2. CASE SendCall /\ UNCHANGED dialVars
  <2>1. PICK m \in Msgs : ToSend(m)
    BY <1>2 DEF SendCall
  <2>2. [seq |-> sends + 1, msg |-> m] \in Node /\ sends + 1 \in 0..MaxSends
    BY <1>0, <2>1 DEF ToSend, Node
  <2>3. Handler("send", "ok", [seq |-> sends + 1, msg |-> m]) \in ClientHandlers
    BY <2>2, ClientHandlerType DEF Outcomes
  <2>4. ready' \in Seq(ClientHandlers)
    BY <1>0, <2>1, <2>3 DEF ToSend
  <2> QED BY <1>0, <1>2, <2>1, <2>2, <2>4 DEF ToSend, ClientTypes, ClientTypeOK
<1>3. CASE StopToClose /\ UNCHANGED dialVars
  <2>1. ready' \in Seq(ClientHandlers)
    BY <1>0, <1>3, CloseRequestType DEF StopToClose
  <2> QED BY <1>0, <1>3, <2>1 DEF StopToClose, ClientTypes, ClientTypeOK
<1>4. CASE RunSend /\ UNCHANGED dialVars
  <2>0. Rest \in Seq(ClientHandlers) /\ Head(ready).node \in Node
    BY <1>0, <1>4, ClientRest DEF RunSend, RefuseSend, DropSend, EnqueueSend, Running
  <2>1. CASE RefuseSend
    <3>1. ready' \in Seq(ClientHandlers)
      BY <2>0, <2>1, CloseRequestType DEF RefuseSend
    <3> QED BY <1>0, <1>4, <2>1, <3>1 DEF RefuseSend, ClientTypes, ClientTypeOK
  <2>2. CASE DropSend
    <3>1. queueBufLen' \in 0..MaxSendBufLen
      BY <1>0, <2>2 DEF DropSend, Clamped
    <3> QED BY <1>0, <1>4, <2>0, <2>2, <3>1 DEF DropSend, ClientTypes, ClientTypeOK
  <2>3. CASE EnqueueSend
    <3> DEFINE n == Head(ready).node
    <3>1. queueBufLen' \in 0..MaxSendBufLen
      <4>1. FrameLen(n) \in Nat /\ Clamped(queueBufLen) \in Nat
        BY <1>0, <2>0, ClientFrameLen DEF Clamped
      <4>2. ~(Clamped(queueBufLen) + FrameLen(n) > MaxSendBufLen)
        BY <2>3 DEF EnqueueSend, OverLimit
      <4>3. queueBufLen' = Clamped(queueBufLen) + FrameLen(n)
        BY <2>3 DEF EnqueueSend
      <4> HIDE DEF n
      <4> QED BY <1>0, <4>1, <4>2, <4>3
    <3>2. Append(sendQueue, n) \in Seq(Node) /\ Append(sendQueue, n) # <<>>
      <4>1. n \in Node /\ sendQueue \in Seq(Node)
        BY <1>0, <2>0
      <4> HIDE DEF n
      <4>2. Append(sendQueue, n) \in Seq(Node) /\ Len(sendQueue) \in Nat
        BY <4>1
      <4>3. Len(Append(sendQueue, n)) = Len(sendQueue) + 1 /\ Len(<<>>) = 0
        BY <4>1
      <4> QED BY <4>2, <4>3
    <3>3. sending' \in BOOLEAN /\ ready' \in Seq(ClientHandlers) /\ writes' \in Seq(Node)
      <4>1. CASE StartsWriting
        <5>1. DoSend(Append(sendQueue, n), Rest)
          BY <2>3, <4>1 DEF EnqueueSend
        <5> HIDE DEF n
        <5> QED BY <1>0, <2>0, <3>2, <5>1, DoSendCounts
      <4>2. CASE ~StartsWriting
        BY <1>0, <4>2, <2>0, <2>3 DEF EnqueueSend, ClientTypes
      <4> QED BY <4>1, <4>2
    <3>4. sendQueue' \in Seq(Node)
      BY <2>3, <3>2 DEF EnqueueSend
    <3> HIDE DEF n
    <3> QED BY <1>0, <1>4, <2>3, <3>1, <3>3, <3>4 DEF EnqueueSend, ClientTypes, ClientTypeOK
  <2> QED BY <1>4, <2>1, <2>2, <2>3 DEF RunSend
<1>5. CASE RunClose /\ UNCHANGED dialVars
  <2>0. Rest \in Seq(ClientHandlers)
    BY <1>0, <1>5, ClientRest DEF RunClose, RepeatClose, BeginClose, Running
  <2>1. CASE RepeatClose
    BY <1>0, <1>5, <2>0, <2>1 DEF RepeatClose, ClientTypes, ClientTypeOK
  <2>2. CASE BeginClose
    <3>1. CASE sending
      BY <1>0, <1>5, <2>0, <2>2, <3>1 DEF BeginClose, ClientTypes, ClientTypeOK
    <3>2. CASE ~sending /\ sendQueue # <<>>
      <4>1. DoSend(sendQueue, Rest)
        BY <2>2, <3>2 DEF BeginClose
      <4>2. sending' \in BOOLEAN /\ ready' \in Seq(ClientHandlers) /\ writes' \in Seq(Node)
        BY <1>0, <2>0, <3>2, <4>1, DoSendCounts
      <4> QED BY <1>0, <1>5, <2>2, <3>2, <4>2 DEF BeginClose, ClientTypes, ClientTypeOK
    <3>3. CASE ~sending /\ sendQueue = <<>>
      <4>1. SocketClose(queueBufLen, Rest)
        BY <2>2, <3>3 DEF BeginClose
      <4> QED BY <1>0, <1>5, <2>0, <2>2, <4>1, SocketCloseCounts
              DEF BeginClose, ClientTypes, ClientTypeOK, ReadKinds
    <3> QED BY <1>0, <3>1, <3>2, <3>3 DEF ClientTypes
  <2> QED BY <1>5, <2>1, <2>2 DEF RunClose
<1>6. CASE RunWrite /\ UNCHANGED dialVars
  <2>0. Rest \in Seq(ClientHandlers) /\ Head(ready).node \in Node
    BY <1>0, <1>6, ClientRest DEF RunWrite, WriteOk, WriteFailed, Running
  <2>1. CASE WriteOk
    <3> DEFINE n == Head(ready).node
               popped == sendQueue # <<>> /\ Head(sendQueue) = n
               q == IF popped THEN Tail(sendQueue) ELSE sendQueue
               len == IF popped THEN Released(queueBufLen, n) ELSE queueBufLen
    <3>1. len \in 0..MaxSendBufLen
      <4>1. FrameLen(n) \in Nat
        BY <2>0, ClientFrameLen
      <4>2. Released(queueBufLen, n) \in 0..MaxSendBufLen
        BY <1>0, <4>1 DEF Released, Clamped
      <4> QED BY <1>0, <4>2
    <3>2. q \in Seq(Node)
      BY <1>0
    <3>3. sendQueue' = q /\ UNCHANGED <<started, closing, history, bounded>>
      BY <2>1 DEF WriteOk
    <3>4. \/ /\ q # <<>> /\ DoSend(q, Rest) /\ queueBufLen' = len
             /\ UNCHANGED <<closeSocket, closeNotified, sockOpen, reads>>
          \/ SocketClose(len, Rest)
          \/ /\ sending' = FALSE /\ queueBufLen' = len /\ ready' = Rest
             /\ UNCHANGED <<closeSocket, closeNotified, sockOpen, reads, writes>>
      BY <2>1 DEF WriteOk, ContinueClose
    <3> HIDE DEF q, len
    <3>5. CASE /\ q # <<>> /\ DoSend(q, Rest) /\ queueBufLen' = len
               /\ UNCHANGED <<closeSocket, closeNotified, sockOpen, reads>>
      <4>1. sending' \in BOOLEAN /\ ready' \in Seq(ClientHandlers) /\ writes' \in Seq(Node)
        BY <1>0, <2>0, <3>2, <3>5, DoSendCounts
      <4> QED BY <1>0, <1>6, <3>1, <3>2, <3>3, <3>5, <4>1 DEF ClientTypes, ClientTypeOK
    <3>6. CASE SocketClose(len, Rest)
      BY <1>0, <1>6, <2>0, <3>1, <3>2, <3>3, <3>6, SocketCloseCounts
      DEF ClientTypes, ClientTypeOK, ReadKinds
    <3>7. CASE /\ sending' = FALSE /\ queueBufLen' = len /\ ready' = Rest
               /\ UNCHANGED <<closeSocket, closeNotified, sockOpen, reads, writes>>
      BY <1>0, <1>6, <2>0, <3>1, <3>2, <3>3, <3>7 DEF ClientTypes, ClientTypeOK
    <3> QED BY <3>4, <3>5, <3>6, <3>7
  <2>2. CASE WriteFailed
    <3>1. ErrToClose(Rest) /\ UNCHANGED <<started, accepted, wire, bounded>>
      BY <2>2 DEF WriteFailed
    <3>2. /\ closeSocket' \in BOOLEAN /\ closing' \in BOOLEAN
          /\ sending' \in BOOLEAN /\ aborted' \in BOOLEAN
          /\ closeNotified' \in BOOLEAN /\ sockOpen' \in BOOLEAN
          /\ sendQueue' \in Seq(Node) /\ queueBufLen' \in 0..MaxSendBufLen
          /\ ready' \in Seq(ClientHandlers) /\ reads' \in Seq(ReadKinds) /\ writes' \in Seq(Node)
      BY <1>0, <2>0, <3>1, ErrToCloseCounts
    <3> QED BY <1>0, <1>6, <3>1, <3>2 DEF ClientTypes, ClientTypeOK, ReadKinds
  <2> QED BY <1>6, <2>1, <2>2 DEF RunWrite
<1>7. CASE (RunHead \/ RunBody) /\ UNCHANGED dialVars
  <2>0. Rest \in Seq(ClientHandlers)
    BY <1>0, <1>7, ClientRest
    DEF RunHead, HeadCancelled, HeadFailed, HeadOk, RunBody, BodyFailed, Deliver,
        DeliverThrows, Running
  <2>1. CASE HeadCancelled
    BY <1>0, <1>7, <2>0, <2>1 DEF HeadCancelled, ClientTypes, ClientTypeOK
  <2>2. CASE HeadFailed \/ BodyFailed \/ DeliverThrows
    <3>1. ErrToClose(Rest) /\ UNCHANGED <<started, accepted, wire, bounded>>
      BY <2>2 DEF HeadFailed, BodyFailed, DeliverThrows
    <3>2. /\ closeSocket' \in BOOLEAN /\ closing' \in BOOLEAN
          /\ sending' \in BOOLEAN /\ aborted' \in BOOLEAN
          /\ closeNotified' \in BOOLEAN /\ sockOpen' \in BOOLEAN
          /\ sendQueue' \in Seq(Node) /\ queueBufLen' \in 0..MaxSendBufLen
          /\ ready' \in Seq(ClientHandlers) /\ reads' \in Seq(ReadKinds) /\ writes' \in Seq(Node)
      BY <1>0, <2>0, <3>1, ErrToCloseCounts
    <3> QED BY <1>0, <1>7, <3>1, <3>2 DEF ClientTypes, ClientTypeOK, ReadKinds
  <2>3. CASE HeadOk \/ Deliver
    <3>1. /\ \/ AsyncRead("body", Rest)
             \/ AsyncRead("head", Rest)
             \/ ready' = Rest /\ reads' = reads
             \/ ready' = Append(Rest, CloseRequest) /\ reads' = reads
          /\ UNCHANGED <<flags, queue, sockOpen, writes, history, bounded>>
      BY <2>3 DEF HeadOk, Deliver
    <3>2. /\ "body" \in ReadKinds /\ "head" \in ReadKinds
          /\ Handler("body", "error", NoNode) \in ClientHandlers
          /\ Handler("head", "error", NoNode) \in ClientHandlers
      BY ClientHandlerType DEF Outcomes, ReadKinds
    <3>3. ready' \in Seq(ClientHandlers) /\ reads' \in Seq(ReadKinds)
      <4>1. CASE AsyncRead("body", Rest) \/ AsyncRead("head", Rest)
        BY <1>0, <2>0, <3>2, <4>1, AsyncReadIn
      <4>2. Append(Rest, CloseRequest) \in Seq(ClientHandlers)
        BY <2>0, CloseRequestType
      <4> QED BY <1>0, <2>0, <3>1, <4>1, <4>2
    <3> QED BY <1>0, <1>7, <3>1, <3>3 DEF ClientTypes, ClientTypeOK, ReadKinds
  <2> QED BY <1>7, <2>1, <2>2, <2>3 DEF RunHead, RunBody
<1>8. CASE ClientNetwork /\ UNCHANGED dialVars
  <2>1. CASE WriteCompletes \/ WriteBreaks
    <3>1. Head(writes) \in Node /\ Tail(writes) \in Seq(Node) /\ writes' = Tail(writes)
      BY <1>0, <2>1 DEF WriteCompletes, WriteBreaks
    <3>2. ready' \in Seq(ClientHandlers)
      <4>1. \A ec \in {"ok", "error"} : Handler("write", ec, Head(writes)) \in ClientHandlers
        BY <3>1, ClientHandlerType DEF Outcomes
      <4>2. \E ec \in {"ok", "error"} :
              ready' = Append(ready, Handler("write", ec, Head(writes)))
        BY <2>1 DEF WriteCompletes, WriteBreaks
      <4> QED BY <1>0, <4>1, <4>2
    <3>3. UNCHANGED <<flags, queue, sockOpen, reads, aborted, bounded>>
      BY <2>1 DEF WriteCompletes, WriteBreaks
    <3> QED BY <1>0, <1>8, <3>1, <3>2, <3>3 DEF ClientTypes, ClientTypeOK
  <2>2. ASSUME NEW ec \in {"ok", "bad", "error"}, ReadCompletes(ec) PROVE ClientTypes'
    <3>1. Head(reads) \in {"head", "body"} /\ Tail(reads) \in Seq(ReadKinds)
      <4>1. ~("connect" \in Range(reads))
        BY <1>8 DEF ClientNetwork, Connecting
      <4>2. Head(reads) = reads[1] /\ 1 \in DOMAIN reads
        BY <1>0, <2>2 DEF ReadCompletes
      <4>3. Head(reads) \in Range(reads)
        BY <4>2 DEF Range
      <4>4. Head(reads) \in ReadKinds /\ Tail(reads) \in Seq(ReadKinds)
        BY <1>0, <2>2 DEF ReadCompletes
      <4> QED BY <4>1, <4>3, <4>4 DEF ReadKinds
    <3>2. ready' \in Seq(ClientHandlers)
      <4>1. Handler(Head(reads), ec, NoNode) \in ClientHandlers
        BY <3>1, ClientHandlerType DEF Outcomes
      <4> QED BY <1>0, <2>2, <4>1 DEF ReadCompletes
    <3> QED BY <1>0, <1>8, <2>2, <3>1, <3>2 DEF ReadCompletes, ClientTypes, ClientTypeOK, ReadKinds
  <2> QED BY <1>8, <2>1, <2>2 DEF ClientNetwork, Network
<1>9. CASE ResolveFailed \/ ConnectFailed
  <2>0. Rest \in Seq(ClientHandlers) /\ Head(ready) \in ClientHandlers
    BY <1>0, <1>9, ClientRest DEF ResolveFailed, ConnectFailed, Running
  <2>1. \A h \in ClientHandlers :
          h.kind \in {"resolve", "connect"} /\ h.ec # "ok" => h.ec \in {"error", "aborted"}
    BY DEF ClientHandlers, Handlers, Outcomes
  <2>2. PICK ec \in {"error", "aborted"} :
          GiveUp(ec) /\ UNCHANGED <<bounded, dialled, resolving>>
    BY <1>9, <2>0, <2>1 DEF ResolveFailed, ConnectFailed, ConnectOutcome, Running
  <2>3. told' \in {"nothing", "error", "aborted"}
    BY <1>0, <2>2 DEF GiveUp, TalkErrorToWork, ClientTypes, ClientTypeOK
  <2>4. ErrToClose(Rest) /\ started' = started
    BY <2>2 DEF GiveUp
  <2>5. /\ closeSocket' \in BOOLEAN /\ closing' \in BOOLEAN
        /\ sending' \in BOOLEAN /\ aborted' \in BOOLEAN
        /\ closeNotified' \in BOOLEAN /\ sockOpen' \in BOOLEAN
        /\ sendQueue' \in Seq(Node) /\ queueBufLen' \in 0..MaxSendBufLen
        /\ ready' \in Seq(ClientHandlers) /\ reads' \in Seq(ReadKinds) /\ writes' \in Seq(Node)
    BY <1>0, <2>0, <2>4, ErrToCloseCounts
  <2> QED BY <1>0, <2>2, <2>3, <2>4, <2>5 DEF ClientTypes, ClientTypeOK, ReadKinds
<1>10. CASE Resolved
  <2>1. Rest \in Seq(ClientHandlers) /\ reads' \in Seq(ReadKinds)
    BY <1>0, <1>10, ClientRest DEF Resolved, Running, ReadKinds
  <2> QED BY <1>0, <1>10, <2>1 DEF Resolved, ClientTypes, ClientTypeOK, ReadKinds
<1>11. CASE Connected
  <2> DEFINE n == [seq |-> sends + 1, msg |-> startMsg]
             h == Handler("send", "ok", n)
  <2>0. Rest \in Seq(ClientHandlers) /\ ready # <<>> /\ Head(ready).kind = "connect"
    BY <1>0, <1>11, ClientRest DEF Connected, Running
  <2>1. ~started
    <3>1. started => Head(ready) \in Settled
      BY <1>0, <2>0 DEF DialSound
    <3> QED BY <2>0, <3>1 DEF Settled
  <2>2. n \in Node /\ sends + 1 \in 0..MaxSends
    BY <1>0, <2>1, ClientAssumption DEF DialSound, Node
  <2>3. h \in ClientHandlers
    BY <2>2, ClientHandlerType DEF Outcomes
  <2>4. Append(Rest, h) \in Seq(ClientHandlers) /\ AsyncRead("head", Append(Rest, h))
    BY <1>11, <2>0, <2>3 DEF Connected, StartClient
  <2>5. "head" \in ReadKinds /\ Handler("head", "error", NoNode) \in ClientHandlers
    BY ClientHandlerType DEF Outcomes, ReadKinds
  <2>6. ready' \in Seq(ClientHandlers) /\ reads' \in Seq(ReadKinds)
    BY <1>0, <2>4, <2>5, AsyncReadIn
  <2> QED BY <1>0, <1>11, <2>2, <2>6 DEF Connected, ClientTypes, ClientTypeOK, ReadKinds
<1>12. ASSUME NEW ec \in {"ok", "error"}, ResolverAnswers(ec) \/ ConnectAnswers(ec)
       PROVE  ClientTypes'
  <2>1. /\ Handler("resolve", ec, NoNode) \in ClientHandlers
        /\ Handler("connect", ec, NoNode) \in ClientHandlers
    BY ClientHandlerType DEF Outcomes
  <2>2. ready' \in Seq(ClientHandlers)
    <3>1. \E k \in {"resolve", "connect"} : ready' = Append(ready, Handler(k, ec, NoNode))
      BY <1>12 DEF ResolverAnswers, ConnectAnswers
    <3> QED BY <1>0, <2>1, <3>1
  <2>3. reads' \in Seq(ReadKinds)
    <3>1. Connecting => reads # <<>>
      BY DEF Connecting, Range
    <3>2. reads # <<>> => Tail(reads) \in Seq(ReadKinds)
      BY <1>0
    <3> QED BY <1>0, <1>12, <3>1, <3>2 DEF ResolverAnswers, ConnectAnswers
  <2>4. UNCHANGED <<flags, queue, sockOpen, writes, history, bounded, dialled, told>>
    BY <1>12 DEF ResolverAnswers, ConnectAnswers
  <2>5. resolving' \in BOOLEAN
    BY <1>0, <1>12 DEF ResolverAnswers, ConnectAnswers, ClientTypes, ClientTypeOK
  <2> QED BY <1>0, <2>2, <2>3, <2>4, <2>5 DEF ClientTypes, ClientTypeOK, ReadKinds
<1>13. CASE UNCHANGED clientVars
  BY <1>0, <1>13 DEF clientVars, ClientTypes, ClientTypeOK
<1> QED
  BY <1>1, <1>2, <1>3, <1>4, <1>5, <1>6, <1>7, <1>8, <1>9, <1>10, <1>11, <1>12, <1>13
  DEF ClientNext, ConnectionStep, RunDial

-----------------------------------------------------------------------------
(* At most one write.                                                      *)

LEMMA NoneWrites ==
  ASSUME NEW r \in Seq(ClientHandlers), HowMany(r, WriteKinds) = 0
  PROVE  \A i \in DOMAIN r : r[i].kind # "write"
  BY CountedWaiting DEF Waiting, WriteKinds

\* A step that neither runs nor posts the completion of a write.
LEMMA WritesKept ==
  ASSUME ClientInv,
         NEW r, r = ready \/ (ready # <<>> /\ r = Rest /\ Head(ready).kind \notin WriteKinds),
         \/ ready' = r
         \/ \E h \in ClientHandlers : h.kind \notin WriteKinds /\ ready' = Append(r, h),
         UNCHANGED <<sending, closeSocket, sendQueue, writes>>, closing => closing',
         closeSocket => queueBufLen' = queueBufLen
  PROVE  WritesSound'
<1>0. ready \in Seq(ClientHandlers)
  BY DEF ClientInv, ClientTypes, ClientTypeOK
<1>1. HowMany(ready', WriteKinds) = HowMany(ready, WriteKinds)
  BY <1>0, SameCount
<1>2. Writes' = Writes
  BY <1>1 DEF Writes
<1>3. ASSUME \A i \in DOMAIN ready : ready[i].kind = "write" => ready[i].node = Head(sendQueue)
      PROVE  \A i \in DOMAIN ready' : ready'[i].kind = "write" => ready'[i].node = Head(sendQueue)
  <2> DEFINE T == {h \in ClientHandlers : h.kind = "write" => h.node = Head(sendQueue)}
  <2>1. ready \in Seq(T)
    BY <1>0, <1>3
  <2>2. r \in Seq(T)
    BY <1>0, <2>1, ClientRest
  <2>3. \A h \in ClientHandlers : h.kind \notin WriteKinds => h \in T
    BY DEF WriteKinds
  <2>4. \A h \in T : Append(r, h) \in Seq(T)
    BY <2>2
  <2>5. ready' \in Seq(T)
    BY <2>2, <2>3, <2>4
  <2>6. \A i \in DOMAIN ready' : ready'[i] \in T
    BY <2>5
  <2> QED BY <2>6
<1> QED BY <1>2, <1>3 DEF ClientInv, WritesSound, NothingOwed

\* A handler that closes the socket with an empty queue.
LEMMA WritesClosed ==
  ASSUME ClientInv, ready # <<>>, NEW len \in 0..MaxSendBufLen, SocketClose(len, Rest),
         closing' = TRUE, sendQueue' = <<>>, closeSocket => len = queueBufLen
  PROVE  WritesSound'
<1>0. /\ ClientTypes /\ WritesSound /\ ready \in Seq(ClientHandlers)
      /\ Writes \in Nat /\ Writes <= 1 /\ Len(writes) \in Nat
  <2>1. ready \in Seq(ClientHandlers) /\ Len(writes) \in Nat
    BY DEF ClientInv, ClientTypes, ClientTypeOK
  <2>2. HowMany(ready, WriteKinds) \in Nat
    BY <2>1, ThoseFinite
  <2> QED BY <2>1, <2>2 DEF ClientInv, WritesSound, Writes
<1>1. /\ Rest \in Seq(ClientHandlers)
      /\ HowMany(Rest, WriteKinds) \in Nat
      /\ HowMany(Rest, WriteKinds) <= HowMany(ready, WriteKinds)
      /\ HowMany(ready, WriteKinds) \in Nat
  BY <1>0, ClientRest
<1>2. /\ closeSocket' = TRUE
      /\ Len(writes') + HowMany(ready', WriteKinds) = Len(writes) + HowMany(Rest, WriteKinds)
      /\ ~closeSocket => queueBufLen' = 0 /\ writes' = <<>>
      /\ closeSocket => queueBufLen' = len /\ writes' = writes
  BY <1>0, <1>1, SocketCloseCounts
<1>3. Writes' <= 1
  <2>1. Len(writes) + HowMany(Rest, WriteKinds) <= 1
    BY <1>0, <1>1 DEF Writes
  <2> QED BY <1>2, <2>1 DEF Writes
<1>4. queueBufLen' = 0 /\ writes' = <<>>
  BY <1>0, <1>2 DEF WritesSound, NothingOwed
<1> QED BY <1>2, <1>3, <1>4 DEF WritesSound, NothingOwed

LEMMA WritesErrToClose ==
  ASSUME ClientInv, ready # <<>>, ErrToClose(Rest)
  PROVE  WritesSound'
<1>0. /\ ClientTypes /\ WritesSound /\ ready \in Seq(ClientHandlers)
      /\ Writes <= 1 /\ Len(writes) \in Nat
  BY DEF ClientInv, ClientTypes, ClientTypeOK, WritesSound
<1>1. /\ Rest \in Seq(ClientHandlers)
      /\ HowMany(Rest, WriteKinds) \in Nat
      /\ HowMany(Rest, WriteKinds) <= HowMany(ready, WriteKinds)
      /\ HowMany(ready, WriteKinds) \in Nat
  BY <1>0, ClientRest
<1>2. /\ closeSocket' = TRUE /\ closing' = TRUE
      /\ sendQueue' = <<>> /\ queueBufLen' = 0 /\ writes' = <<>>
      /\ Len(writes') + HowMany(ready', WriteKinds) = Len(writes) + HowMany(Rest, WriteKinds)
  BY <1>0, <1>1, ErrToCloseCounts
<1>3. Len(writes) + HowMany(Rest, WriteKinds) <= 1
  BY <1>0, <1>1 DEF Writes
<1>4. Writes' <= 1
  BY <1>2, <1>3 DEF Writes
<1> QED BY <1>2, <1>4 DEF WritesSound, NothingOwed

\* doSend() when no other write is outstanding.
LEMMA WritesBegun ==
  ASSUME ClientTypes, NEW r \in Seq(ClientHandlers), NEW q \in Seq(Node), q # <<>>,
         DoSend(q, r), Len(writes) = 0, HowMany(r, WriteKinds) = 0,
         closeSocket' = FALSE, sendQueue' = q
  PROVE  WritesSound'
<1>1. /\ sending' = TRUE
      /\ ready' \in Seq(ClientHandlers) /\ writes' \in Seq(Node)
      /\ Len(writes') + HowMany(ready', WriteKinds) = Len(writes) + HowMany(r, WriteKinds) + 1
      /\ \/ writes' = Append(writes, Head(q)) /\ ready' = r
         \/ writes' = writes /\ ready' = Append(r, Handler("write", "error", Head(q)))
  BY DoSendCounts
<1>2. Writes' = 1
  BY <1>1 DEF Writes
<1>3. writes = <<>> /\ \A i \in DOMAIN r : r[i].kind # "write"
  BY NoneWrites DEF ClientTypes, ClientTypeOK
<1>4. Head(q) \in Node
  OBVIOUS
<1>5. /\ Handler("write", "error", Head(q)) \in ClientHandlers
      /\ Handler("write", "error", Head(q)).node = Head(q)
  BY <1>4, ClientHandlerType DEF Outcomes
<1>6. \A i \in DOMAIN writes' : writes'[i] = Head(q)
  BY <1>1, <1>3
<1>7. \A i \in DOMAIN ready' : ready'[i].kind = "write" => ready'[i].node = Head(q)
  <2>1. CASE ready' = r
    BY <1>3, <2>1
  <2>2. CASE ready' = Append(r, Handler("write", "error", Head(q)))
    BY <1>3, <1>5, <2>2, AppendElements
  <2> QED BY <1>1, <2>1, <2>2
<1> QED BY <1>1, <1>2, <1>6, <1>7 DEF WritesSound, NothingOwed

LEMMA EnqueueKeepsWrites ==
  ASSUME ClientInv, EnqueueSend
  PROVE  WritesSound'
<1> DEFINE n == Head(ready).node
<1>0. /\ ClientTypes /\ WritesSound /\ ready \in Seq(ClientHandlers) /\ ready # <<>>
      /\ Head(ready).kind = "send" /\ ~closing /\ ~closeSocket
      /\ sendQueue \in Seq(Node) /\ writes \in Seq(Node) /\ Len(writes) \in Nat
      /\ sending \in BOOLEAN
  BY DEF ClientInv, ClientTypes, ClientTypeOK, WritesSound, EnqueueSend, Running
<1>1. /\ Rest \in Seq(ClientHandlers) /\ n \in Node
      /\ HowMany(Rest, WriteKinds) = HowMany(ready, WriteKinds)
      /\ HowMany(Rest, WriteKinds) \in Nat
  <2>1. /\ HowMany(ready, WriteKinds)
             = HowMany(Rest, WriteKinds) + IF Head(ready).kind \in WriteKinds THEN 1 ELSE 0
        /\ HowMany(Rest, WriteKinds) \in Nat
        /\ Rest \in Seq(ClientHandlers) /\ n \in Node
    BY <1>0, ClientRest
  <2>2. Head(ready).kind \notin WriteKinds
    BY <1>0 DEF WriteKinds
  <2> QED BY <2>1, <2>2
<1>2. /\ sendQueue' = Append(sendQueue, n)
      /\ UNCHANGED closeSocket
      /\ IF StartsWriting THEN DoSend(Append(sendQueue, n), Rest)
                          ELSE ready' = Rest /\ UNCHANGED <<sending, writes>>
  BY DEF EnqueueSend
<1> HIDE DEF n
<1>3. /\ Append(sendQueue, n) \in Seq(Node) /\ Append(sendQueue, n) # <<>>
      /\ sendQueue # <<>> => Head(Append(sendQueue, n)) = Head(sendQueue)
  <2>1. Append(sendQueue, n) \in Seq(Node) /\ Len(sendQueue) \in Nat
    BY <1>0, <1>1
  <2>2. Len(Append(sendQueue, n)) = Len(sendQueue) + 1 /\ Len(<<>>) = 0
    BY <1>0, <1>1
  <2>3. sendQueue # <<>> => Head(Append(sendQueue, n)) = Head(sendQueue)
    BY <1>0, <1>1
  <2> QED BY <2>1, <2>2, <2>3
<1>4. CASE sending
  <2>1. /\ sendQueue # <<>> /\ Writes = 1
        /\ \A i \in DOMAIN writes : writes[i] = Head(sendQueue)
        /\ \A i \in DOMAIN ready : ready[i].kind = "write" => ready[i].node = Head(sendQueue)
    BY <1>0, <1>4 DEF WritesSound
  <2>2. ready' = Rest /\ UNCHANGED <<sending, writes>>
    BY <1>2, <1>4 DEF StartsWriting
  <2>3. Writes' = Writes
    BY <1>1, <2>2 DEF Writes
  <2>4. \A i \in DOMAIN Rest : Rest[i].kind = "write" => Rest[i].node = Head(sendQueue)
    BY <1>0, <2>1, TailElements DEF Rest
  <2>5. sendQueue' # <<>> /\ Head(sendQueue') = Head(sendQueue) /\ closeSocket' = FALSE
    BY <1>0, <1>2, <1>3, <2>1 DEF ClientTypes
  <2> QED BY <1>4, <2>1, <2>2, <2>3, <2>4, <2>5 DEF WritesSound, NothingOwed
<1>5. CASE ~sending
  <2>1. Writes # 1 /\ Writes <= 1
    BY <1>0, <1>5 DEF WritesSound
  <2>2. Len(writes) = 0 /\ HowMany(Rest, WriteKinds) = 0
    BY <1>0, <1>1, <2>1 DEF Writes
  <2>3. DoSend(Append(sendQueue, n), Rest) /\ closeSocket' = FALSE
    BY <1>0, <1>2, <1>5 DEF StartsWriting, ClientTypes
  <2> QED BY <1>0, <1>1, <1>2, <1>3, <2>2, <2>3, WritesBegun
<1> QED BY <1>4, <1>5

LEMMA WriteOkKeepsWrites ==
  ASSUME ClientInv, WriteOk
  PROVE  WritesSound'
<1> DEFINE n == Head(ready).node
           popped == sendQueue # <<>> /\ Head(sendQueue) = n
           q == IF popped THEN Tail(sendQueue) ELSE sendQueue
           len == IF popped THEN Released(queueBufLen, n) ELSE queueBufLen
<1>0. /\ ClientTypes /\ WritesSound /\ ready \in Seq(ClientHandlers) /\ ready # <<>>
      /\ Head(ready).kind = "write"
      /\ sendQueue \in Seq(Node) /\ writes \in Seq(Node) /\ Len(writes) \in Nat
      /\ queueBufLen \in 0..MaxSendBufLen /\ MaxSendBufLen \in Nat
  BY ConnectionAssumption DEF ClientInv, ClientTypes, ClientTypeOK, WriteOk, Running
<1>1. /\ Rest \in Seq(ClientHandlers) /\ n \in Node
      /\ HowMany(ready, WriteKinds) = HowMany(Rest, WriteKinds) + 1
      /\ HowMany(Rest, WriteKinds) \in Nat
  <2>1. /\ HowMany(ready, WriteKinds)
             = HowMany(Rest, WriteKinds) + IF Head(ready).kind \in WriteKinds THEN 1 ELSE 0
        /\ HowMany(Rest, WriteKinds) \in Nat
        /\ Rest \in Seq(ClientHandlers) /\ n \in Node
    BY <1>0, ClientRest
  <2>2. Head(ready).kind \in WriteKinds
    BY <1>0 DEF WriteKinds
  <2> QED BY <2>1, <2>2
<1>2. /\ Len(writes) = 0 /\ HowMany(Rest, WriteKinds) = 0 /\ Writes = 1
  <2>1. Len(writes) + (HowMany(Rest, WriteKinds) + 1) <= 1
    BY <1>0, <1>1 DEF WritesSound, Writes
  <2>2. Len(writes) = 0 /\ HowMany(Rest, WriteKinds) = 0
    BY <1>0, <1>1, <2>1
  <2> QED BY <1>1, <2>2 DEF Writes
<1>3. ~closeSocket => popped
  <2>1. ~closeSocket => sendQueue # <<>>
    BY <1>0, <1>2 DEF WritesSound
  <2>2. 1 \in DOMAIN ready /\ ready[1] = Head(ready)
    BY <1>0, TailElements
  <2>3. ~closeSocket => Head(ready).node = Head(sendQueue)
    BY <1>0, <2>2 DEF WritesSound
  <2> QED BY <2>1, <2>3
<1>4. len \in 0..MaxSendBufLen /\ q \in Seq(Node)
  <2>1. FrameLen(n) \in Nat
    BY <1>1, ClientFrameLen
  <2>2. Released(queueBufLen, n) \in 0..MaxSendBufLen
    BY <1>0, <2>1 DEF Released, Clamped
  <2> QED BY <1>0, <2>2
<1>5. closeSocket => q = <<>> /\ len = queueBufLen /\ closing
  BY <1>0 DEF WritesSound, NothingOwed
<1>6. /\ sendQueue' = q /\ closing' = closing
      /\ \/ /\ q # <<>> /\ DoSend(q, Rest) /\ closeSocket' = closeSocket
         \/ q = <<>> /\ closing /\ SocketClose(len, Rest)
         \/ /\ q = <<>> /\ ~closing /\ sending' = FALSE /\ ready' = Rest
            /\ UNCHANGED <<closeSocket, writes>>
  BY DEF WriteOk, ContinueClose
<1> HIDE DEF q, len
<1>7. CASE q # <<>> /\ DoSend(q, Rest) /\ closeSocket' = closeSocket
  <2>1. closeSocket' = FALSE
    BY <1>0, <1>5, <1>7 DEF ClientTypes
  <2> QED BY <1>0, <1>1, <1>2, <1>4, <1>6, <1>7, <2>1, WritesBegun
<1>8. CASE q = <<>> /\ closing /\ SocketClose(len, Rest)
  <2>1. closing' = TRUE
    BY <1>0, <1>6, <1>8 DEF ClientTypes
  <2> QED BY <1>0, <1>4, <1>5, <1>6, <1>8, <2>1, WritesClosed
<1>9. CASE /\ q = <<>> /\ ~closing /\ sending' = FALSE /\ ready' = Rest
           /\ UNCHANGED <<closeSocket, writes>>
  <2>1. Writes' = 0
    BY <1>2, <1>9 DEF Writes
  <2>2. closeSocket' = FALSE
    BY <1>0, <1>9 DEF WritesSound, ClientTypes
  <2>3. writes = <<>> /\ \A i \in DOMAIN Rest : Rest[i].kind # "write"
    BY <1>0, <1>1, <1>2, NoneWrites
  <2> QED BY <1>6, <1>9, <2>1, <2>2, <2>3 DEF WritesSound, NothingOwed
<1> QED BY <1>6, <1>7, <1>8, <1>9

\* The write in flight is answered: its completion waits in its place.
LEMMA AnsweredKeepsWrites ==
  ASSUME ClientInv, WriteCompletes \/ WriteBreaks
  PROVE  WritesSound'
<1>0. /\ ClientTypes /\ WritesSound /\ ready \in Seq(ClientHandlers)
      /\ writes \in Seq(Node) /\ Len(writes) \in Nat /\ writes # <<>>
      /\ HowMany(ready, WriteKinds) \in Nat
  BY ThoseFinite DEF ClientInv, ClientTypes, ClientTypeOK, WriteCompletes, WriteBreaks
<1>1. PICK ec \in {"ok", "error"} :
        /\ ready' = Append(ready, Handler("write", ec, Head(writes)))
        /\ writes' = Tail(writes) /\ UNCHANGED <<flags, queue>>
  BY DEF WriteCompletes, WriteBreaks
<1> DEFINE h == Handler("write", ec, Head(writes))
<1>2. h \in ClientHandlers /\ h.kind \in WriteKinds /\ h.node = Head(writes)
  <2>1. Head(writes) \in Node
    BY <1>0
  <2> QED BY <2>1, ClientHandlerType DEF Outcomes, WriteKinds
<1> HIDE DEF h
<1>3. Len(writes) = 1 /\ HowMany(ready, WriteKinds) = 0 /\ ~closeSocket
  <2>1. Len(writes) # 0 /\ Len(writes) + HowMany(ready, WriteKinds) <= 1
    BY <1>0 DEF WritesSound, Writes
  <2>2. Len(writes) = 1 /\ HowMany(ready, WriteKinds) = 0
    <3>1. \A a, b \in Nat : a # 0 /\ a + b <= 1 => a = 1 /\ b = 0
      OBVIOUS
    <3> QED BY <1>0, <2>1, <3>1
  <2>3. ~closeSocket
    BY <1>0 DEF WritesSound, NothingOwed
  <2> QED BY <2>2, <2>3
<1>4. writes' = <<>> /\ Len(writes') = 0 /\ Head(writes) = writes[1] /\ 1 \in DOMAIN writes
  BY <1>0, <1>1, <1>3
<1>5. Head(writes) = Head(sendQueue)
  BY <1>0, <1>3, <1>4 DEF WritesSound
<1>6. HowMany(ready', WriteKinds) = 1
  <2>1. HowMany(Append(ready, h), WriteKinds)
          = HowMany(ready, WriteKinds) + IF h.kind \in WriteKinds THEN 1 ELSE 0
    BY <1>0, <1>2, AppendHowMany
  <2> QED BY <1>1, <1>2, <1>3, <2>1 DEF h
<1>7. Writes' = 1 /\ Writes = 1
  BY <1>3, <1>4, <1>6 DEF Writes
<1>8. \A i \in DOMAIN ready' : ready'[i].kind = "write" => ready'[i].node = Head(sendQueue)
  <2>1. \A i \in DOMAIN ready : ready[i].kind # "write"
    BY <1>0, <1>3, NoneWrites
  <2>2. ready' = Append(ready, h)
    BY <1>1 DEF h
  <2> QED BY <1>0, <1>2, <1>5, <2>1, <2>2, AppendElements
<1> QED BY <1>0, <1>1, <1>3, <1>4, <1>7, <1>8 DEF WritesSound, NothingOwed, flags, queue

LEMMA WritesStep ==
  ASSUME ClientInv, [ClientNext]_clientVars
  PROVE  WritesSound'
<1> USE DEF flags, queue, io, history, bounded, connVars, dialVars
<1>0. /\ ClientTypes /\ WritesSound /\ ready \in Seq(ClientHandlers)
      /\ sendQueue \in Seq(Node) /\ queueBufLen \in 0..MaxSendBufLen
      /\ closeSocket => closing
      /\ CloseRequest \in ClientHandlers /\ CloseRequest.kind \notin WriteKinds
  BY CloseRequestType DEF ClientInv, ClientTypes, ClientTypeOK, WritesSound, WriteKinds
<1>1. CASE Connect
  BY <1>1, WritesKept DEF Connect
<1>2. CASE SendCall
  <2>1. PICK m \in Msgs : ToSend(m)
    BY <1>2 DEF SendCall
  <2>2. [seq |-> sends + 1, msg |-> m] \in Node
    BY <1>0, <2>1, ConnectionAssumption DEF ToSend, Node, ClientTypes, ClientTypeOK
  <2>3. /\ Handler("send", "ok", [seq |-> sends + 1, msg |-> m]) \in ClientHandlers
        /\ Handler("send", "ok", [seq |-> sends + 1, msg |-> m]).kind \notin WriteKinds
    BY <2>2, ClientHandlerType DEF Outcomes, WriteKinds
  <2>4. /\ ready' = Append(ready, Handler("send", "ok", [seq |-> sends + 1, msg |-> m]))
        /\ UNCHANGED <<flags, queue, writes>>
    BY <2>1 DEF ToSend
  <2> QED BY <2>3, <2>4, WritesKept
<1>3. CASE StopToClose
  <2>1. ready' = Append(ready, CloseRequest) /\ UNCHANGED <<flags, queue, writes>>
    BY <1>3 DEF StopToClose
  <2> QED BY <1>0, <2>1, WritesKept
<1>4. CASE RunSend
  <2>1. ready # <<>> /\ Head(ready).kind \notin WriteKinds
    BY <1>4 DEF RunSend, RefuseSend, DropSend, EnqueueSend, Running, WriteKinds
  <2>2. CASE RefuseSend
    <3>1. ready' = Append(Rest, CloseRequest) /\ UNCHANGED <<flags, queue, writes>>
      BY <2>2 DEF RefuseSend
    <3> QED BY <1>0, <2>1, <3>1, WritesKept
  <2>3. CASE DropSend
    <3>1. ready' = Rest /\ UNCHANGED <<flags, sendQueue, writes>> /\ ~closeSocket
      BY <1>0, <2>3 DEF DropSend
    <3> QED BY <2>1, <3>1, WritesKept
  <2> QED BY <1>4, <2>2, <2>3, EnqueueKeepsWrites DEF RunSend
<1>5. CASE RunClose
  <2>1. ready # <<>> /\ Head(ready).kind \notin WriteKinds
    BY <1>5 DEF RunClose, RepeatClose, BeginClose, Running, WriteKinds
  <2>2. CASE RepeatClose
    <3>1. ready' = Rest /\ UNCHANGED <<flags, queue, writes>>
      BY <2>2 DEF RepeatClose
    <3> QED BY <2>1, <3>1, WritesKept
  <2>3. CASE BeginClose
    <3>0. ~closing /\ ~closeSocket /\ closing' = TRUE /\ sendQueue' = sendQueue
      BY <1>0, <2>3 DEF BeginClose
    <3>1. CASE sending
      <4>1. ready' = Rest /\ UNCHANGED <<sending, closeSocket, queueBufLen, writes>>
        BY <2>3, <3>1 DEF BeginClose
      <4> QED BY <2>1, <3>0, <4>1, WritesKept
    <3>2. CASE ~sending
      <4>1. sendQueue = <<>>
        BY <1>0, <3>0, <3>2 DEF WritesSound
      <4>2. SocketClose(queueBufLen, Rest)
        BY <2>3, <3>2, <4>1 DEF BeginClose
      <4> QED BY <1>0, <2>1, <3>0, <4>1, <4>2, WritesClosed
    <3> QED BY <3>1, <3>2
  <2> QED BY <1>5, <2>2, <2>3 DEF RunClose
<1>6. CASE RunWrite
  <2>1. CASE WriteFailed
    <3>1. ready # <<>> /\ ErrToClose(Rest)
      BY <2>1 DEF WriteFailed, Running
    <3> QED BY <3>1, WritesErrToClose
  <2> QED BY <1>6, <2>1, WriteOkKeepsWrites DEF RunWrite
<1>7. CASE RunHead \/ RunBody
  <2>1. ready # <<>> /\ Head(ready).kind \notin WriteKinds
    BY <1>7 DEF RunHead, HeadCancelled, HeadFailed, HeadOk, RunBody, BodyFailed, Deliver,
                DeliverThrows, Running, WriteKinds
  <2>2. CASE HeadFailed \/ BodyFailed \/ DeliverThrows
    <3>1. ErrToClose(Rest)
      BY <2>2 DEF HeadFailed, BodyFailed, DeliverThrows
    <3> QED BY <2>1, <3>1, WritesErrToClose
  <2>3. CASE HeadCancelled \/ HeadOk \/ Deliver
    <3>1. /\ \A k \in {"head", "body"} :
               /\ Handler(k, "error", NoNode) \in ClientHandlers
               /\ Handler(k, "error", NoNode).kind \notin WriteKinds
      BY ClientHandlerType DEF Outcomes, WriteKinds
    <3>2. /\ \/ AsyncRead("body", Rest)
             \/ AsyncRead("head", Rest)
             \/ ready' = Rest
             \/ ready' = Append(Rest, CloseRequest)
          /\ UNCHANGED <<flags, queue, writes>>
      BY <2>3 DEF HeadCancelled, HeadOk, Deliver
    <3>3. \/ ready' = Rest
          \/ ready' = Append(Rest, CloseRequest)
          \/ \E k \in {"head", "body"} : ready' = Append(Rest, Handler(k, "error", NoNode))
      BY <3>2 DEF AsyncRead
    <3>4. \/ ready' = Rest
          \/ \E h \in ClientHandlers : h.kind \notin WriteKinds /\ ready' = Append(Rest, h)
      BY <1>0, <3>1, <3>3
    <3> QED BY <2>1, <3>2, <3>4, WritesKept
  <2> QED BY <1>7, <2>2, <2>3 DEF RunHead, RunBody
<1>8. CASE ClientNetwork
  <2>1. ASSUME NEW ec \in {"ok", "bad", "error"}, ReadCompletes(ec) PROVE WritesSound'
    <3>1. Head(reads) \in {"head", "body"}
      <4>1. reads \in Seq({"head", "body", "connect"}) /\ reads # <<>>
        BY <1>0, <2>1 DEF ReadCompletes, ClientTypes, ClientTypeOK
      <4>2. Head(reads) = reads[1] /\ 1 \in DOMAIN reads
        BY <4>1
      <4>3. Head(reads) \in Range(reads)
        BY <4>2 DEF Range
      <4> QED BY <1>8, <4>1, <4>3 DEF ClientNetwork, Connecting
    <3>2. /\ Handler(Head(reads), ec, NoNode) \in ClientHandlers
          /\ Handler(Head(reads), ec, NoNode).kind \notin WriteKinds
      BY <3>1, ClientHandlerType DEF Outcomes, WriteKinds
    <3>3. /\ ready' = Append(ready, Handler(Head(reads), ec, NoNode))
          /\ UNCHANGED <<flags, queue, writes>>
      BY <2>1 DEF ReadCompletes
    <3> QED BY <3>2, <3>3, WritesKept
  <2> QED BY <1>8, <2>1, AnsweredKeepsWrites DEF ClientNetwork, Network
<1>9. CASE ResolveFailed \/ ConnectFailed
  <2>1. ready # <<>> /\ ErrToClose(Rest)
    BY <1>9 DEF ResolveFailed, ConnectFailed, Running, GiveUp
  <2> QED BY <2>1, WritesErrToClose
<1>10. CASE Resolved
  <2>1. ready # <<>> /\ Head(ready).kind \notin WriteKinds
    BY <1>10 DEF Resolved, Running, WriteKinds
  <2>2. ready' = Rest /\ UNCHANGED <<flags, queue, writes>>
    BY <1>10 DEF Resolved
  <2> QED BY <2>1, <2>2, WritesKept
<1>11. CASE Connected
  <2> DEFINE n == [seq |-> sends + 1, msg |-> startMsg]
             h == Handler("send", "ok", n)
  <2>1. /\ ready # <<>> /\ Head(ready).kind = "connect" /\ Head(ready).kind \notin WriteKinds
        /\ sockOpen
    BY <1>11 DEF Connected, Running, WriteKinds, ConnectOutcome
  <2>2. ready' = Append(Rest, h) /\ UNCHANGED <<sending, closing, closeSocket, queue, writes>>
    BY <1>11, <2>1 DEF Connected, StartClient, AsyncRead
  <2>3. ~started
    <3>1. started => Head(ready) \in Settled
      BY <1>0, <2>1 DEF ClientInv, DialSound
    <3> QED BY <2>1, <3>1 DEF Settled
  <2>4. n \in Node
    BY <1>0, <2>3, ClientAssumption, ConnectionAssumption
    DEF ClientInv, DialSound, Node, ClientTypes, ClientTypeOK
  <2>5. h \in ClientHandlers /\ h.kind \notin WriteKinds
    BY <2>4, ClientHandlerType DEF Outcomes, WriteKinds
  <2> HIDE DEF h
  <2> QED BY <2>1, <2>2, <2>5, WritesKept
<1>12. ASSUME NEW ec \in {"ok", "error"}, ResolverAnswers(ec) \/ ConnectAnswers(ec)
       PROVE  WritesSound'
  <2>1. \A k \in {"resolve", "connect"} :
          /\ Handler(k, ec, NoNode) \in ClientHandlers
          /\ Handler(k, ec, NoNode).kind \notin WriteKinds
    BY ClientHandlerType DEF Outcomes, WriteKinds
  <2>2. /\ \E k \in {"resolve", "connect"} : ready' = Append(ready, Handler(k, ec, NoNode))
        /\ UNCHANGED <<flags, queue, writes>>
    BY <1>12 DEF ResolverAnswers, ConnectAnswers
  <2> QED BY <2>1, <2>2, WritesKept
<1>13. CASE UNCHANGED clientVars
  BY <1>13, WritesKept DEF clientVars
<1> QED
  BY <1>1, <1>2, <1>3, <1>4, <1>5, <1>6, <1>7, <1>8, <1>9, <1>10, <1>11, <1>12, <1>13
  DEF ClientNext, ConnectionStep, RunDial

-----------------------------------------------------------------------------
(* Exactly one stage of the dial.                                          *)

\* What the invariant says of the counts, and of the handler that runs.
LEMMA DialFacts ==
  ASSUME ClientInv
  PROVE  /\ ready \in Seq(ClientHandlers) /\ reads \in Seq(ReadKinds) /\ Len(reads) \in Nat
         /\ HowMany(ready, StageKinds) \in Nat /\ Waits \in Nat
         /\ dialled \in BOOLEAN /\ resolving \in BOOLEAN /\ started \in BOOLEAN
         /\ closing \in BOOLEAN /\ sockOpen \in BOOLEAN
         /\ sends \in 0..MaxSends /\ MaxSends \in Nat
         /\ ready # <<>> =>
              /\ Rest \in Seq(ClientHandlers) /\ HowMany(Rest, StageKinds) \in Nat
              /\ HowMany(ready, StageKinds) = HowMany(Rest, StageKinds)
                                              + IF Head(ready).kind \in StageKinds THEN 1 ELSE 0
              /\ started => Rest \in Seq(Settled) /\ Head(ready) \in Settled
              /\ ~closing => Rest \in Seq(Sound(sockOpen)) /\ Head(ready) \in Sound(sockOpen)
<1>1. /\ ready \in Seq(ClientHandlers) /\ reads \in Seq(ReadKinds) /\ Len(reads) \in Nat
      /\ dialled \in BOOLEAN /\ resolving \in BOOLEAN /\ started \in BOOLEAN
      /\ closing \in BOOLEAN /\ sockOpen \in BOOLEAN
      /\ sends \in 0..MaxSends /\ MaxSends \in Nat
  BY ConnectionAssumption DEF ClientInv, ClientTypes, ClientTypeOK, ReadKinds
<1>2. HowMany(ready, StageKinds) \in Nat
  BY <1>1, ThoseFinite
<1>3. Waits \in Nat
  BY <1>1, <1>2 DEF Waits
<1>4. /\ started => ready \in Seq(Settled)
      /\ ~closing => ready \in Seq(Sound(sockOpen))
  BY DEF ClientInv, DialSound
<1>5. ASSUME ready # <<>>
      PROVE  /\ Rest \in Seq(ClientHandlers) /\ HowMany(Rest, StageKinds) \in Nat
             /\ HowMany(ready, StageKinds) = HowMany(Rest, StageKinds)
                                             + IF Head(ready).kind \in StageKinds THEN 1 ELSE 0
             /\ started => Rest \in Seq(Settled) /\ Head(ready) \in Settled
             /\ ~closing => Rest \in Seq(Sound(sockOpen)) /\ Head(ready) \in Sound(sockOpen)
  BY <1>1, <1>4, <1>5, ClientRest
<1> QED BY <1>1, <1>2, <1>3, <1>5

\* A step that has nothing to do with the dial.
LEMMA DialKept ==
  ASSUME ClientInv,
         NEW r, r = ready \/ (ready # <<>> /\ r = Rest /\ Head(ready).kind \notin StageKinds),
         \/ ready' = r
         \/ \E h \in ClientHandlers : /\ h.kind \in {"send", "write", "close"} /\ h.ec # "aborted"
                                      /\ ready' = Append(r, h),
         UNCHANGED <<started, sockOpen, reads, dialled, resolving>>,
         closing => closing', ~started => sends' < MaxSends
  PROVE  DialSound'
<1>1. HowMany(ready', StageKinds) = HowMany(ready, StageKinds)
  <2>1. \/ ready' = r
        \/ \E h \in ClientHandlers : h.kind \notin StageKinds /\ ready' = Append(r, h)
    BY DEF StageKinds
  <2> QED BY <2>1, DialFacts, SameCount
<1>2. Waits' = Waits
  BY <1>1 DEF Waits
<1>3. \A T :
        /\ ready \in Seq(T)
        /\ \A h \in ClientHandlers :
              h.kind \in {"send", "write", "close"} /\ h.ec # "aborted" => h \in T
        => ready' \in Seq(T)
  <2> TAKE T
  <2> HAVE /\ ready \in Seq(T)
           /\ \A h \in ClientHandlers :
                 h.kind \in {"send", "write", "close"} /\ h.ec # "aborted" => h \in T
  <2>1. r \in Seq(T)
    BY DialFacts, ClientRest
  <2>2. \A h \in T : Append(r, h) \in Seq(T)
    BY <2>1
  <2> QED BY <2>1, <2>2
<1>4. \A h \in ClientHandlers :
        h.kind \in {"send", "write", "close"} /\ h.ec # "aborted" => h \in Settled /\ h \in Sound(sockOpen)
  BY DEF Settled, Sound
<1>5. ready \in Seq(Settled) => ready' \in Seq(Settled)
  BY <1>3, <1>4
<1>6. ready \in Seq(Sound(sockOpen)) => ready' \in Seq(Sound(sockOpen))
  BY <1>3, <1>4
<1>7. DialSound
  BY DEF ClientInv
<1>8. Sound(sockOpen') = Sound(sockOpen) /\ SoundReads(sockOpen') = SoundReads(sockOpen)
  OBVIOUS
<1>9. /\ Waits' <= IF dialled' THEN 1 ELSE 0
      /\ ~started' => sends' < MaxSends
      /\ started' => /\ dialled' /\ ~resolving'
                     /\ reads' \in Seq({"head", "body"}) /\ ready' \in Seq(Settled)
  BY <1>2, <1>5, <1>7 DEF DialSound
<1>10. ~closing' => /\ Waits' = IF dialled' THEN 1 ELSE 0
                    /\ reads' \in Seq(SoundReads(sockOpen')) /\ ready' \in Seq(Sound(sockOpen'))
  BY <1>2, <1>6, <1>7, <1>8 DEF DialSound
<1> QED BY <1>9, <1>10 DEF DialSound

\* A handler that leaves a closing client: what was in flight waits as
\* cancelled, and no stage is begun.
LEMMA DialClosed ==
  ASSUME ClientInv, ready # <<>>, UNCHANGED <<started, sends, dialled, resolving>>,
         closing' = TRUE, reads' \in Seq(ReadKinds), ready' \in Seq(ClientHandlers),
         Len(reads') + HowMany(ready', StageKinds) = Len(reads) + HowMany(Rest, StageKinds),
         started => reads' \in Seq({"head", "body"}) /\ ready' \in Seq(Settled)
  PROVE  DialSound'
<1>1. /\ HowMany(Rest, StageKinds) <= HowMany(ready, StageKinds)
      /\ HowMany(Rest, StageKinds) \in Nat /\ HowMany(ready, StageKinds) \in Nat
      /\ Len(reads) \in Nat
  BY DialFacts
<1>2. Len(reads) + HowMany(Rest, StageKinds) <= Len(reads) + HowMany(ready, StageKinds)
  BY <1>1
<1> DEFINE b == IF resolving THEN 1 ELSE 0
<1>3. b \in Nat /\ b' = b
  OBVIOUS
<1>4. Waits = b + Len(reads) + HowMany(ready, StageKinds)
  BY DEF Waits
<1>5. Waits' = b + Len(reads') + HowMany(ready', StageKinds)
  BY DEF Waits
<1> HIDE DEF b
<1>6. Len(reads') + HowMany(ready', StageKinds) <= Len(reads) + HowMany(ready, StageKinds)
  BY <1>2
<1>7. b + (Len(reads) + HowMany(ready, StageKinds)) <= IF dialled THEN 1 ELSE 0
  <2>1. Waits <= IF dialled THEN 1 ELSE 0
    BY DEF ClientInv, DialSound
  <2> QED BY <1>1, <1>3, <1>4, <2>1
<1>8. b + (Len(reads) + HowMany(Rest, StageKinds)) <= IF dialled THEN 1 ELSE 0
  BY <1>1, <1>3, <1>7
<1>9. b + Len(reads') + HowMany(ready', StageKinds) = b + (Len(reads') + HowMany(ready', StageKinds))
  <2>1. Len(reads') \in Nat
    OBVIOUS
  <2>2. HowMany(ready', StageKinds) \in Nat
    BY ThoseFinite
  <2> QED BY <1>3, <2>1, <2>2
<1> QED BY <1>3, <1>5, <1>8, <1>9 DEF ClientInv, DialSound

LEMMA DialSocketClose ==
  ASSUME ClientInv, ready # <<>>, NEW len \in 0..MaxSendBufLen, SocketClose(len, Rest),
         closing' = TRUE, UNCHANGED <<started, sends, dialled, resolving>>
  PROVE  DialSound'
<1>1. /\ Len(reads') + HowMany(ready', StageKinds) = Len(reads) + HowMany(Rest, StageKinds)
      /\ reads' \in Seq(ReadKinds) /\ ready' \in Seq(ClientHandlers)
  BY DialFacts, SocketCloseCounts DEF ClientInv
<1>2. started => reads' \in Seq({"head", "body"}) /\ ready' \in Seq(Settled)
  BY DialFacts, SocketCloseSettled DEF ClientInv, DialSound
<1> QED BY <1>1, <1>2, DialClosed

LEMMA DialErrToClose ==
  ASSUME ClientInv, ready # <<>>, ErrToClose(Rest),
         UNCHANGED <<started, sends, dialled, resolving>>
  PROVE  DialSound'
<1>1. /\ Len(reads') + HowMany(ready', StageKinds) = Len(reads) + HowMany(Rest, StageKinds)
      /\ closing' = TRUE
      /\ reads' \in Seq(ReadKinds) /\ ready' \in Seq(ClientHandlers)
  BY DialFacts, ErrToCloseCounts DEF ClientInv
<1>2. started => reads' \in Seq({"head", "body"}) /\ ready' \in Seq(Settled)
  BY DialFacts, ErrToCloseSettled DEF ClientInv, DialSound
<1> QED BY <1>1, <1>2, DialClosed

\* Connect() is called once, and the resolver is its first stage.
LEMMA DialBegins ==
  ASSUME ClientInv, Connect
  PROVE  DialSound'
<1>1. /\ ~dialled /\ dialled' = TRUE /\ resolving' = TRUE
      /\ reads' = reads /\ ready' = ready /\ started' = started /\ closing' = closing
      /\ sockOpen' = sockOpen /\ sends' = sends
  BY DEF Connect, connVars, flags, io, bounded
<1>2. Waits <= 0 /\ ~started
  BY <1>1 DEF ClientInv, DialSound
<1>3. ~resolving /\ Len(reads) = 0 /\ HowMany(ready, StageKinds) = 0
  BY <1>2, DialFacts DEF Waits
<1>4. Waits' = 1
  BY <1>1, <1>3 DEF Waits
<1>5. ~closing => reads \in Seq(SoundReads(sockOpen)) /\ ready \in Seq(Sound(sockOpen))
  BY DEF ClientInv, DialSound
<1>6. Sound(sockOpen') = Sound(sockOpen) /\ SoundReads(sockOpen') = SoundReads(sockOpen)
  BY <1>1
<1>7. ~started => sends < MaxSends
  BY DEF ClientInv, DialSound
<1> QED BY <1>1, <1>2, <1>4, <1>5, <1>6, <1>7 DEF DialSound

\* A handler of the dial or of the reading ends, on a closing client, and no
\* other begins.
LEMMA DialEnded ==
  ASSUME ClientInv, ready # <<>>, closing,
         ready' = Rest \/ ready' = Append(Rest, CloseRequest),
         UNCHANGED <<started, closing, sends, dialled, resolving, reads>>
  PROVE  DialSound'
<1>1. CloseRequest \in ClientHandlers /\ CloseRequest.kind \notin StageKinds
      /\ CloseRequest \in Settled
  BY CloseRequestType DEF StageKinds, Settled
<1>2. /\ ready' \in Seq(ClientHandlers) /\ reads' \in Seq(ReadKinds)
      /\ HowMany(ready', StageKinds) = HowMany(Rest, StageKinds)
  <2>1. HowMany(Append(Rest, CloseRequest), StageKinds)
          = HowMany(Rest, StageKinds) + IF CloseRequest.kind \in StageKinds THEN 1 ELSE 0
    BY <1>1, DialFacts, AppendHowMany
  <2>2. HowMany(Append(Rest, CloseRequest), StageKinds) = HowMany(Rest, StageKinds)
    BY <1>1, <2>1, DialFacts
  <2>3. Append(Rest, CloseRequest) \in Seq(ClientHandlers)
    BY <1>1, DialFacts, SeqExtended
  <2> QED BY <2>2, <2>3, DialFacts
<1>3. started => reads' \in Seq({"head", "body"}) /\ ready' \in Seq(Settled)
  <2>1. started => reads \in Seq({"head", "body"}) /\ Rest \in Seq(Settled)
    BY DialFacts DEF ClientInv, DialSound
  <2>2. started => Append(Rest, CloseRequest) \in Seq(Settled)
    BY <1>1, <2>1, SeqExtended
  <2> QED BY <2>1, <2>2
<1>4. closing' = TRUE /\ Len(reads') + HowMany(ready', StageKinds) = Len(reads) + HowMany(Rest, StageKinds)
  BY <1>2, DialFacts
<1> QED BY <1>2, <1>3, <1>4, DialClosed

\* One stage is followed by the next, which the reactor has.
LEMMA DialGoesOn ==
  ASSUME ClientInv, ready # <<>>, Head(ready).kind \in StageKinds,
         NEW k \in ReadKinds, reads' = Append(reads, k), ready' = Rest,
         UNCHANGED <<started, closing, sends, dialled, resolving>>,
         sockOpen' = TRUE, started => k # "connect"
  PROVE  DialSound'
<1>1. /\ HowMany(ready, StageKinds) = HowMany(Rest, StageKinds) + 1
      /\ HowMany(Rest, StageKinds) \in Nat /\ Len(reads) \in Nat
      /\ reads \in Seq(ReadKinds)
  BY DialFacts
<1>2. Len(reads') = Len(reads) + 1
  BY <1>1
<1> DEFINE b == IF resolving THEN 1 ELSE 0
<1>3. b \in Nat /\ b' = b /\ ready' = Rest
  OBVIOUS
<1>4. Waits = b + Len(reads) + HowMany(ready, StageKinds)
  BY DEF Waits
<1>5. Waits' = b + Len(reads') + HowMany(Rest, StageKinds)
  BY DEF Waits
<1> HIDE DEF b
<1>6. Waits' = Waits
  BY <1>1, <1>2, <1>3, <1>4, <1>5
<1>7. started => reads' \in Seq({"head", "body"}) /\ ready' \in Seq(Settled)
  <2>1. started => reads \in Seq({"head", "body"}) /\ k \in {"head", "body"}
    BY DEF ClientInv, DialSound, ReadKinds
  <2> QED BY <2>1, DialFacts
<1>8. ~closing => reads' \in Seq(SoundReads(TRUE)) /\ ready' \in Seq(Sound(TRUE))
  <2>1. SoundReads(sockOpen) \subseteq SoundReads(TRUE) /\ k \in SoundReads(TRUE)
    BY DEF SoundReads
  <2>2. Sound(sockOpen) \subseteq Sound(TRUE)
    BY DEF Sound
  <2>3. ASSUME ~closing PROVE reads' \in Seq(SoundReads(TRUE))
    <3>1. reads \in Seq(SoundReads(sockOpen))
      BY <2>3 DEF ClientInv, DialSound
    <3>2. reads \in Seq(SoundReads(TRUE))
      BY <2>1, <3>1, SeqGrows
    <3> QED BY <2>1, <3>2, SeqExtended
  <2>4. ASSUME ~closing PROVE ready' \in Seq(Sound(TRUE))
    <3>1. Rest \in Seq(Sound(sockOpen))
      BY <2>4, DialFacts
    <3>2. Rest \in Seq(Sound(TRUE))
      BY <2>2, <3>1, SeqGrows
    <3> QED BY <3>2
  <2> QED BY <2>3, <2>4
<1>9. DialSound
  BY DEF ClientInv
<1>10. SoundReads(sockOpen') = SoundReads(TRUE) /\ Sound(sockOpen') = Sound(TRUE)
  OBVIOUS
<1> QED BY <1>6, <1>7, <1>8, <1>9, <1>10 DEF DialSound

LEMMA DialReads ==
  ASSUME ClientInv, HeadCancelled \/ HeadOk \/ Deliver, UNCHANGED dialVars
  PROVE  DialSound'
<1> USE DEF flags, queue, history, bounded, dialVars
<1>0. ready # <<>> /\ Head(ready).kind \in {"head", "body"} /\ Head(ready).kind \in StageKinds
  BY DEF HeadCancelled, HeadOk, Deliver, Running, StageKinds
<1>1. ~closing => Head(ready).ec # "aborted" /\ sockOpen
  BY <1>0, DialFacts DEF Sound
<1>2. UNCHANGED <<started, closing, sends, dialled, resolving, sockOpen>>
  BY DEF HeadCancelled, HeadOk, Deliver
<1>3. CASE closing
  <2>1. /\ ready' = Rest \/ ready' = Append(Rest, CloseRequest)
        /\ reads' = reads
    BY <1>3 DEF HeadCancelled, HeadOk, Deliver, HeadRefused
  <2> QED BY <1>0, <1>2, <1>3, <2>1, DialEnded
<1>4. CASE ~closing
  <2>1. PICK k \in {"head", "body"} : AsyncRead(k, Rest)
    BY <1>1, <1>4 DEF HeadCancelled, HeadOk, Deliver, HeadRefused
  <2>2. reads' = Append(reads, k) /\ ready' = Rest /\ sockOpen' = TRUE /\ k \in ReadKinds
    BY <1>1, <1>2, <1>4, <2>1, DialFacts DEF AsyncRead, ReadKinds
  <2> QED BY <1>0, <1>2, <2>1, <2>2, DialGoesOn
<1> QED BY <1>3, <1>4

LEMMA DialResolved ==
  ASSUME ClientInv, Resolved
  PROVE  DialSound'
<1>1. ready # <<>> /\ Head(ready).kind = "resolve" /\ Head(ready).kind \in StageKinds
  BY DEF Resolved, Running, StageKinds
<1>2. /\ reads' = Append(reads, "connect") /\ ready' = Rest /\ sockOpen' = TRUE
      /\ UNCHANGED <<started, closing, sends, dialled, resolving>> /\ "connect" \in ReadKinds
  BY DEF Resolved, flags, bounded, dialVars, ReadKinds
<1>3. ~started
  BY <1>1, DialFacts DEF Settled
<1> QED BY <1>1, <1>2, <1>3, DialGoesOn

\* The connect is answered and the reading begins: of all that waits, only
\* the first header is left of the dial.
LEMMA DialConnected ==
  ASSUME ClientInv, Connected
  PROVE  DialSound' /\ ~started
<1> DEFINE h == Handler("send", "ok", [seq |-> sends + 1, msg |-> startMsg])
<1>1. ready # <<>> /\ Head(ready).kind = "connect" /\ Head(ready).kind \in StageKinds /\ sockOpen
  BY DEF Connected, Running, StageKinds, ConnectOutcome
<1>2. /\ ready' = Append(Rest, h) /\ reads' = Append(reads, "head")
      /\ started' = TRUE /\ UNCHANGED <<closing, sockOpen, dialled, resolving>>
  BY <1>1 DEF Connected, StartClient, AsyncRead, dialVars
<1>3. ~started
  BY <1>1, DialFacts DEF Settled
<1>4. h \in ClientHandlers /\ h.kind = "send" /\ h.ec = "ok"
  <2>1. [seq |-> sends + 1, msg |-> startMsg] \in Node
    BY <1>3, DialFacts, ClientAssumption DEF ClientInv, DialSound, Node
  <2> QED BY <2>1, ClientHandlerType DEF Outcomes
<1> HIDE DEF h
<1>5. /\ HowMany(ready, StageKinds) = HowMany(Rest, StageKinds) + 1
      /\ HowMany(Rest, StageKinds) \in Nat /\ Len(reads) \in Nat
      /\ reads \in Seq(ReadKinds) /\ Rest \in Seq(ClientHandlers)
      /\ resolving \in BOOLEAN /\ dialled \in BOOLEAN
  BY <1>1, DialFacts
<1>6. Waits <= IF dialled THEN 1 ELSE 0
  BY DEF ClientInv, DialSound
<1>7. dialled /\ ~resolving /\ Len(reads) = 0 /\ HowMany(Rest, StageKinds) = 0
  BY <1>5, <1>6 DEF Waits
<1>8. reads' = <<"head">>
  BY <1>2, <1>5, <1>7
<1>9. HowMany(ready', StageKinds) = 0
  <2>1. HowMany(Append(Rest, h), StageKinds)
          = HowMany(Rest, StageKinds) + IF h.kind \in StageKinds THEN 1 ELSE 0
    BY <1>4, <1>5, AppendHowMany
  <2>2. h.kind \notin StageKinds
    BY <1>4 DEF StageKinds
  <2> QED BY <1>2, <1>7, <2>1, <2>2
<1>10. Waits' = 1
  BY <1>2, <1>7, <1>8, <1>9 DEF Waits
<1>11. ready' \in Seq(Settled)
  <2>1. \A i \in DOMAIN Rest : Rest[i].kind \notin StageKinds
    BY <1>5, <1>7, CountedWaiting DEF Waiting
  <2>2. \A i \in DOMAIN Rest : Rest[i] \in ClientHandlers
    BY <1>5
  <2>3. \A i \in DOMAIN Rest : Rest[i] \in Settled
    BY <2>1, <2>2 DEF Settled, StageKinds
  <2>4. Rest \in Seq(Settled)
    BY <1>5, <2>3
  <2>5. h \in Settled
    BY <1>4 DEF Settled
  <2> QED BY <1>2, <2>4, <2>5
<1>12. ~closing => ready' \in Seq(Sound(sockOpen))
  <2>1. h \in Sound(sockOpen)
    BY <1>4 DEF Sound
  <2>2. ASSUME ~closing PROVE Append(Rest, h) \in Seq(Sound(sockOpen))
    <3>1. Rest \in Seq(Sound(sockOpen))
      BY <1>1, <2>2, DialFacts
    <3> QED BY <2>1, <3>1, SeqExtended
  <2> QED BY <1>2, <2>2
<1>13. reads' \in Seq(SoundReads(sockOpen)) /\ reads' \in Seq({"head", "body"})
  <2>1. "head" \in SoundReads(sockOpen)
    BY <1>1 DEF SoundReads, ReadKinds
  <2> QED BY <1>8, <2>1
<1>14. SoundReads(sockOpen') = SoundReads(sockOpen) /\ Sound(sockOpen') = Sound(sockOpen)
  BY <1>2
<1> QED BY <1>2, <1>3, <1>7, <1>10, <1>11, <1>12, <1>13, <1>14 DEF DialSound

\* The resolver, the connect or the read is answered: its handler waits in
\* its place.
LEMMA DialAnswered ==
  ASSUME ClientInv, NEW h \in ClientHandlers, h.kind \in StageKinds, h.ec # "aborted",
         ready' = Append(ready, h), UNCHANGED <<started, closing, sockOpen, sends, dialled>>,
         \/ resolving /\ ~resolving' /\ reads' = reads /\ h.kind = "resolve"
         \/ /\ reads # <<>> /\ h.kind = Head(reads) /\ reads' = Tail(reads)
            /\ resolving' = resolving
  PROVE  DialSound'
<1>1. /\ HowMany(ready, StageKinds) \in Nat /\ Len(reads) \in Nat
      /\ ready \in Seq(ClientHandlers) /\ reads \in Seq(ReadKinds) /\ resolving \in BOOLEAN
  BY DialFacts
<1>2. HowMany(ready', StageKinds) = HowMany(ready, StageKinds) + 1
  <2>1. HowMany(Append(ready, h), StageKinds)
          = HowMany(ready, StageKinds) + IF h.kind \in StageKinds THEN 1 ELSE 0
    BY <1>1, AppendHowMany
  <2> QED BY <2>1
<1>3. Waits' = Waits
  <2>1. CASE resolving /\ ~resolving' /\ reads' = reads
    BY <1>1, <1>2, <2>1 DEF Waits
  <2>2. CASE reads # <<>> /\ reads' = Tail(reads) /\ resolving' = resolving
    <3>1. Len(reads') = Len(reads) - 1
      BY <1>1, <2>2
    <3> DEFINE b == IF resolving THEN 1 ELSE 0
    <3>2. b \in Nat /\ b' = b
      BY <2>2
    <3>3. /\ Waits = b + Len(reads) + HowMany(ready, StageKinds)
          /\ Waits' = b' + Len(reads') + HowMany(ready', StageKinds)
      BY DEF Waits
    <3> HIDE DEF b
    <3> QED BY <1>1, <1>2, <3>1, <3>2, <3>3
  <2> QED BY <2>1, <2>2
<1>4. DialSound
  BY DEF ClientInv
<1>5. ASSUME started
      PROVE  /\ ~resolving' /\ reads' \in Seq({"head", "body"}) /\ ready' \in Seq(Settled)
  <2>1. reads # <<>> /\ h.kind = Head(reads) /\ reads' = Tail(reads) /\ resolving' = resolving
    BY <1>4, <1>5 DEF DialSound
  <2>2. reads \in Seq({"head", "body"}) /\ ready \in Seq(Settled) /\ ~resolving
    BY <1>4, <1>5 DEF DialSound
  <2>3. Head(reads) \in {"head", "body"} /\ Tail(reads) \in Seq({"head", "body"})
    BY <2>1, <2>2
  <2>4. h \in Settled
    BY <2>1, <2>3 DEF Settled
  <2> QED BY <2>1, <2>2, <2>3, <2>4
<1>6. ASSUME ~closing
      PROVE  reads' \in Seq(SoundReads(sockOpen)) /\ ready' \in Seq(Sound(sockOpen))
  <2>1. reads \in Seq(SoundReads(sockOpen)) /\ ready \in Seq(Sound(sockOpen))
    BY <1>4, <1>6 DEF DialSound
  <2>2. reads # <<>> => Head(reads) \in SoundReads(sockOpen) /\ Tail(reads) \in Seq(SoundReads(sockOpen))
    BY <2>1
  <2>3. h \in Sound(sockOpen)
    BY <2>2 DEF Sound, SoundReads
  <2>4. Append(ready, h) \in Seq(Sound(sockOpen))
    BY <2>1, <2>3, SeqExtended
  <2> QED BY <2>1, <2>2, <2>4
<1>7. SoundReads(sockOpen') = SoundReads(sockOpen) /\ Sound(sockOpen') = Sound(sockOpen)
  OBVIOUS
<1> QED BY <1>3, <1>4, <1>5, <1>6, <1>7 DEF DialSound

LEMMA DialStep ==
  ASSUME ClientInv, [ClientNext]_clientVars
  PROVE  DialSound'
<1> USE DEF flags, queue, io, history, bounded, connVars, dialVars
<1>0. /\ ready \in Seq(ClientHandlers) /\ queueBufLen \in 0..MaxSendBufLen
      /\ ~started => sends < MaxSends
      /\ CloseRequest \in ClientHandlers /\ CloseRequest.kind = "close"
      /\ CloseRequest.ec # "aborted"
  BY CloseRequestType DEF ClientInv, ClientTypes, ClientTypeOK, DialSound
<1>1. CASE Connect
  BY <1>1, DialBegins
<1>2. CASE SendCall /\ UNCHANGED dialVars
  <2>1. PICK m \in Msgs : ToSend(m)
    BY <1>2 DEF SendCall
  <2> DEFINE h == Handler("send", "ok", [seq |-> sends + 1, msg |-> m])
  <2>2. [seq |-> sends + 1, msg |-> m] \in Node
    BY <2>1, DialFacts DEF ToSend, Node
  <2>3. h \in ClientHandlers /\ h.kind = "send" /\ h.ec = "ok"
    BY <2>2, ClientHandlerType DEF Outcomes
  <2>4. /\ ready' = Append(ready, h) /\ sends' = sends + 1
        /\ UNCHANGED <<started, closing, sockOpen, reads, dialled, resolving>>
    BY <1>2, <2>1 DEF ToSend
  <2> HIDE DEF h
  <2>5. ~started => sends' < MaxSends
    BY <1>2, <2>4 DEF SendCall
  <2> QED BY <2>3, <2>4, <2>5, DialKept
<1>3. CASE StopToClose /\ UNCHANGED dialVars
  <2>1. /\ ready' = Append(ready, CloseRequest)
        /\ UNCHANGED <<started, closing, sends, sockOpen, reads, dialled, resolving>>
    BY <1>3 DEF StopToClose
  <2> QED BY <1>0, <2>1, DialKept
<1>4. CASE RunSend /\ UNCHANGED dialVars
  <2>1. ready # <<>> /\ Head(ready).kind = "send" /\ Head(ready).kind \notin StageKinds
    BY <1>4 DEF RunSend, RefuseSend, DropSend, EnqueueSend, Running, StageKinds
  <2>2. UNCHANGED <<started, closing, sends, sockOpen, reads, dialled, resolving>>
    BY <1>4 DEF RunSend, RefuseSend, DropSend, EnqueueSend
  <2>3. CASE RefuseSend \/ DropSend
    <3>1. ready' = Rest \/ ready' = Append(Rest, CloseRequest)
      BY <2>3 DEF RefuseSend, DropSend
    <3> QED BY <1>0, <2>1, <2>2, <3>1, DialKept
  <2>4. CASE EnqueueSend
    <3> DEFINE n == Head(ready).node
               q == Append(sendQueue, n)
    <3>1. /\ Rest \in Seq(ClientHandlers) /\ n \in Node /\ sendQueue \in Seq(Node)
      BY <1>0, <2>1, ClientRest DEF ClientInv, ClientTypes, ClientTypeOK
    <3>2. ready' = Rest \/ DoSend(q, Rest)
      BY <2>4 DEF EnqueueSend
    <3> HIDE DEF n
    <3>3. q \in Seq(Node) /\ q # <<>> /\ Head(q) \in Node
      <4>1. q \in Seq(Node) /\ Len(sendQueue) \in Nat
        BY <3>1
      <4>2. Len(q) = Len(sendQueue) + 1 /\ Len(<<>>) = 0
        BY <3>1
      <4>3. q # <<>>
        BY <4>1, <4>2
      <4> HIDE DEF q
      <4> QED BY <4>1, <4>3
    <3> HIDE DEF q
    <3> DEFINE h == Handler("write", "error", Head(q))
    <3>4. h \in ClientHandlers /\ h.kind = "write" /\ h.ec = "error"
      BY <3>3, ClientHandlerType DEF Outcomes
    <3>5. ready' = Rest \/ ready' = Append(Rest, h)
      BY <3>1, <3>2, <3>3, DoSendCounts DEF ClientInv
    <3> HIDE DEF h
    <3> QED BY <1>0, <2>1, <2>2, <3>4, <3>5, DialKept
  <2> QED BY <1>4, <2>3, <2>4 DEF RunSend
<1>5. CASE RunClose /\ UNCHANGED dialVars
  <2>1. ready # <<>> /\ Head(ready).kind \notin StageKinds
    BY <1>5 DEF RunClose, RepeatClose, BeginClose, Running, StageKinds
  <2>2. UNCHANGED <<started, sends, dialled, resolving>>
    BY <1>5 DEF RunClose, RepeatClose, BeginClose
  <2>3. CASE RepeatClose
    <3>1. ready' = Rest /\ UNCHANGED <<closing, sockOpen, reads>>
      BY <2>3 DEF RepeatClose
    <3> QED BY <1>0, <2>1, <2>2, <3>1, DialKept
  <2>4. CASE BeginClose
    <3>1. closing' = TRUE
      BY <2>4 DEF BeginClose
    <3>2. CASE sending
      <4>1. ready' = Rest /\ UNCHANGED <<sockOpen, reads>>
        BY <2>4, <3>2 DEF BeginClose
      <4> QED BY <1>0, <2>1, <2>2, <3>1, <4>1, DialKept
    <3>3. CASE ~sending
      <4>1. sendQueue = <<>>
        BY <2>4, <3>3 DEF BeginClose, ClientInv, WritesSound
      <4>2. SocketClose(queueBufLen, Rest)
        BY <2>4, <3>3, <4>1 DEF BeginClose
      <4> QED BY <1>0, <2>1, <2>2, <3>1, <4>2, DialSocketClose
    <3> QED BY <3>2, <3>3
  <2> QED BY <1>5, <2>3, <2>4 DEF RunClose
<1>6. CASE RunWrite /\ UNCHANGED dialVars
  <2>1. ready # <<>> /\ Head(ready).kind = "write" /\ Head(ready).kind \notin StageKinds
    BY <1>6 DEF RunWrite, WriteOk, WriteFailed, Running, StageKinds
  <2>2. UNCHANGED <<started, sends, dialled, resolving>>
    BY <1>6 DEF RunWrite, WriteOk, WriteFailed
  <2>3. CASE WriteFailed
    BY <2>1, <2>2, <2>3, DialErrToClose DEF WriteFailed
  <2>4. CASE WriteOk
    <3> DEFINE n == Head(ready).node
               popped == sendQueue # <<>> /\ Head(sendQueue) = n
               q == IF popped THEN Tail(sendQueue) ELSE sendQueue
               len == IF popped THEN Released(queueBufLen, n) ELSE queueBufLen
    <3>1. /\ Rest \in Seq(ClientHandlers) /\ n \in Node /\ sendQueue \in Seq(Node)
          /\ MaxSendBufLen \in Nat
      BY <1>0, <2>1, ClientRest, ConnectionAssumption DEF ClientInv, ClientTypes, ClientTypeOK
    <3>2. /\ closing' = closing
          /\ \/ q # <<>> /\ DoSend(q, Rest) /\ UNCHANGED <<sockOpen, reads>>
             \/ closing /\ SocketClose(len, Rest)
             \/ ready' = Rest /\ UNCHANGED <<sockOpen, reads>>
      BY <2>4 DEF WriteOk, ContinueClose
    <3>3. q \in Seq(Node)
      BY <3>1
    <3>4. len \in 0..MaxSendBufLen
      <4>1. FrameLen(n) \in Nat
        BY <3>1, ClientFrameLen
      <4>2. Released(queueBufLen, n) \in 0..MaxSendBufLen
        BY <1>0, <3>1, <4>1 DEF Released, Clamped
      <4> QED BY <1>0, <4>2
    <3> HIDE DEF q, len
    <3>5. CASE q # <<>> /\ DoSend(q, Rest) /\ UNCHANGED <<sockOpen, reads>>
      <4> DEFINE h == Handler("write", "error", Head(q))
      <4>1. Head(q) \in Node
        BY <3>3, <3>5
      <4>2. h \in ClientHandlers /\ h.kind = "write" /\ h.ec = "error"
        BY <4>1, ClientHandlerType DEF Outcomes
      <4>3. ready' = Rest \/ ready' = Append(Rest, h)
        BY <3>1, <3>3, <3>5, DoSendCounts DEF ClientInv
      <4> HIDE DEF h
      <4> QED BY <1>0, <2>1, <2>2, <3>2, <3>5, <4>2, <4>3, DialKept
    <3>6. CASE closing /\ SocketClose(len, Rest)
      <4>1. closing' = TRUE
        BY <3>2, <3>6, DialFacts
      <4> QED BY <2>1, <2>2, <3>4, <3>6, <4>1, DialSocketClose
    <3>7. CASE ready' = Rest /\ UNCHANGED <<sockOpen, reads>>
      BY <1>0, <2>1, <2>2, <3>2, <3>7, DialKept
    <3> QED BY <3>2, <3>5, <3>6, <3>7
  <2> QED BY <1>6, <2>3, <2>4 DEF RunWrite
<1>7. CASE (RunHead \/ RunBody) /\ UNCHANGED dialVars
  <2>1. CASE HeadFailed \/ BodyFailed \/ DeliverThrows
    <3>1. ready # <<>> /\ ErrToClose(Rest) /\ UNCHANGED <<started, sends, dialled, resolving>>
      BY <1>7, <2>1 DEF HeadFailed, BodyFailed, DeliverThrows, Running
    <3> QED BY <3>1, DialErrToClose
  <2>2. CASE HeadCancelled \/ HeadOk \/ Deliver
    BY <1>7, <2>2, DialReads
  <2> QED BY <1>7, <2>1, <2>2 DEF RunHead, RunBody
<1>8. CASE ClientNetwork /\ UNCHANGED dialVars
  <2>1. CASE WriteCompletes \/ WriteBreaks
    <3>1. PICK ec \in {"ok", "error"} : ready' = Append(ready, Handler("write", ec, Head(writes)))
      BY <2>1 DEF WriteCompletes, WriteBreaks
    <3>2. UNCHANGED <<started, closing, sends, sockOpen, reads, dialled, resolving>>
      BY <1>8, <2>1 DEF WriteCompletes, WriteBreaks
    <3> DEFINE h == Handler("write", ec, Head(writes))
    <3>3. h \in ClientHandlers /\ h.kind = "write" /\ h.ec = ec
      <4>1. Head(writes) \in Node
        BY <2>1 DEF WriteCompletes, WriteBreaks, ClientInv, ClientTypes, ClientTypeOK
      <4> QED BY <4>1, ClientHandlerType DEF Outcomes
    <3>4. ready' = Append(ready, h)
      BY <3>1
    <3> HIDE DEF h
    <3> QED BY <1>0, <3>2, <3>3, <3>4, DialKept
  <2>2. ASSUME NEW ec \in {"ok", "bad", "error"}, ReadCompletes(ec) PROVE DialSound'
    <3>0. reads # <<>> /\ reads \in Seq(ReadKinds)
      BY <2>2, DialFacts DEF ReadCompletes
    <3>1. Head(reads) \in {"head", "body"}
      <4>1. Head(reads) = reads[1] /\ 1 \in DOMAIN reads /\ Head(reads) \in ReadKinds
        BY <3>0
      <4>2. Head(reads) \in Range(reads)
        BY <4>1 DEF Range
      <4> QED BY <1>8, <4>1, <4>2 DEF ClientNetwork, Connecting, ReadKinds
    <3> DEFINE h == Handler(Head(reads), ec, NoNode)
    <3>2. h \in ClientHandlers /\ h.kind = Head(reads) /\ h.ec # "aborted"
      BY <3>1, ClientHandlerType DEF Outcomes
    <3>3. /\ ready' = Append(ready, h) /\ reads' = Tail(reads)
          /\ UNCHANGED <<started, closing, sockOpen, sends, dialled, resolving>>
      BY <1>8, <2>2 DEF ReadCompletes
    <3>4. h.kind \in StageKinds
      BY <3>1, <3>2 DEF StageKinds
    <3> HIDE DEF h
    <3> QED BY <3>0, <3>2, <3>3, <3>4, DialAnswered
  <2> QED BY <1>8, <2>1, <2>2 DEF ClientNetwork, Network
<1>9. CASE ResolveFailed \/ ConnectFailed
  <2>1. ready # <<>> /\ ErrToClose(Rest) /\ UNCHANGED <<started, sends, dialled, resolving>>
    BY <1>9 DEF ResolveFailed, ConnectFailed, Running, GiveUp
  <2> QED BY <2>1, DialErrToClose
<1>10. CASE Resolved \/ Connected
  BY <1>10, DialResolved, DialConnected
<1>11. ASSUME NEW ec \in {"ok", "error"}, ResolverAnswers(ec) PROVE DialSound'
  <2> DEFINE h == Handler("resolve", ec, NoNode)
  <2>1. h \in ClientHandlers /\ h.kind = "resolve" /\ h.kind \in StageKinds /\ h.ec # "aborted"
    BY ClientHandlerType DEF Outcomes, StageKinds
  <2>2. /\ ready' = Append(ready, h) /\ resolving /\ ~resolving' /\ reads' = reads
        /\ UNCHANGED <<started, closing, sockOpen, sends, dialled>>
    BY <1>11 DEF ResolverAnswers
  <2> HIDE DEF h
  <2> QED BY <2>1, <2>2, DialAnswered
<1>12. ASSUME NEW ec \in {"ok", "error"}, ConnectAnswers(ec) PROVE DialSound'
  <2> DEFINE h == Handler("connect", ec, NoNode)
  <2>1. h \in ClientHandlers /\ h.kind = "connect" /\ h.kind \in StageKinds /\ h.ec # "aborted"
    BY ClientHandlerType DEF Outcomes, StageKinds
  <2>2. /\ ready' = Append(ready, h) /\ reads' = Tail(reads)
        /\ UNCHANGED <<started, closing, sockOpen, sends, dialled, resolving>>
    BY <1>12 DEF ConnectAnswers
  <2>3. reads # <<>> /\ Head(reads) = "connect"
    <3>1. PICK i \in DOMAIN reads : reads[i] = "connect"
      BY <1>12 DEF ConnectAnswers, Connecting, Range
    <3>2. Len(reads) \in Nat /\ DOMAIN reads = 1..Len(reads) /\ Len(reads) <= 1
      <4>1. /\ Len(reads) \in Nat /\ HowMany(ready, StageKinds) \in Nat
            /\ reads \in Seq(ReadKinds) /\ Waits <= 1
        BY DialFacts DEF ClientInv, DialSound
      <4>2. Len(reads) <= 1
        BY <4>1 DEF Waits
      <4> QED BY <4>1, <4>2
    <3>3. i = 1 /\ reads # <<>>
      BY <3>1, <3>2
    <3> QED BY <3>1, <3>3
  <2> HIDE DEF h
  <2> QED BY <2>1, <2>2, <2>3, DialAnswered
<1>13. CASE UNCHANGED clientVars
  BY <1>0, <1>13, DialKept DEF clientVars
<1> QED
  BY <1>1, <1>2, <1>3, <1>4, <1>5, <1>6, <1>7, <1>8, <1>9, <1>10, <1>11, <1>12, <1>13
  DEF ClientNext, ConnectionStep, RunDial

LEMMA ClientInitially == ClientInit => ClientInv
<1> SUFFICES ASSUME ClientInit PROVE ClientInv
  OBVIOUS
<1>1. /\ 0 \in 0..MaxSendBufLen /\ 0 \in 0..MaxSends /\ 0 < MaxSends
  BY ConnectionAssumption, ClientAssumption
<1>2. \A T : <<>> \in Seq(T)
  OBVIOUS
<1>3. /\ ready = <<>> /\ reads = <<>> /\ writes = <<>> /\ sendQueue = <<>>
      /\ started = FALSE /\ sending = FALSE /\ closing = FALSE /\ closeSocket = FALSE
      /\ closeNotified = FALSE /\ sockOpen = FALSE /\ aborted = FALSE
      /\ queueBufLen = 0 /\ sends = 0
      /\ dialled = FALSE /\ resolving = FALSE /\ told = "nothing"
  BY DEF ClientInit, ConnInit
<1>4. ClientTypes
  BY <1>1, <1>2, <1>3 DEF ClientTypes, ClientTypeOK
<1>5. HowMany(ready, WriteKinds) = 0 /\ HowMany(ready, StageKinds) = 0 /\ Len(<<>>) = 0
  <2>1. <<>> \in Seq(ClientHandlers) /\ \A i \in DOMAIN <<>> : FALSE
    OBVIOUS
  <2> QED BY <1>3, <2>1, NoneOrAll
<1>6. Writes = 0 /\ Waits = 0
  BY <1>3, <1>5 DEF Writes, Waits
<1>7. WritesSound
  BY <1>3, <1>6 DEF WritesSound, NothingOwed
<1>8. DialSound
  BY <1>1, <1>2, <1>3, <1>6 DEF DialSound
<1> QED BY <1>4, <1>7, <1>8 DEF ClientInv

-----------------------------------------------------------------------------
(* The theorems.                                                           *)

\* In every reachable state the types hold, at most one write and at most one
\* stage of the dial are outstanding.
THEOREM ClientInvariance == ClientSpec => []ClientInv
<1>1. ClientInv /\ [ClientNext]_clientVars => ClientInv'
  BY ClientTypeStep, WritesStep, DialStep DEF ClientInv
<1> QED BY <1>1, ClientInitially, PTL DEF ClientSpec

\* The variables of a client always hold values the code could hold; its
\* start message always finds a number.
THEOREM ClientTypeCorrect == ClientSpec => []ClientTypeOK
<1>1. ClientInv => ClientTypeOK
  BY DEF ClientInv, ClientTypes
<1> QED BY <1>1, ClientInvariance, PTL

\* A closed client owes nothing, even when async_connect opens its socket
\* again after the close.
THEOREM ClientOwesNothing == ClientSpec => []NothingOwed
<1>1. ClientInv => NothingOwed
  BY DEF ClientInv, WritesSound
<1> QED BY <1>1, ClientInvariance, PTL

LEMMA OneWriterState ==
  ASSUME ClientInv
  PROVE  SingleWriter
<1>1. /\ ready \in Seq(ClientHandlers) /\ writes \in Seq(Node) /\ Len(writes) \in Nat
      /\ HowMany(ready, WriteKinds) \in Nat /\ WritesSound
  BY ThoseFinite DEF ClientInv, ClientTypes, ClientTypeOK
<1>2. Len(writes) + HowMany(ready, WriteKinds) <= 1
  BY <1>1 DEF WritesSound, Writes
<1>3. /\ Len(writes) <= 1 /\ HowMany(ready, WriteKinds) <= 1
      /\ Len(writes) # 0 => HowMany(ready, WriteKinds) = 0
      /\ Writes = 1 <=> Len(writes) # 0 \/ HowMany(ready, WriteKinds) # 0
  <2>1. \A a, b \in Nat : a + b <= 1 => /\ a <= 1 /\ b <= 1 /\ (a # 0 => b = 0)
                                        /\ (a + b = 1 <=> a # 0 \/ b # 0)
    OBVIOUS
  <2> QED BY <1>1, <1>2, <2>1 DEF Writes
<1>4. Len(writes) = 0 <=> writes = <<>>
  BY <1>1
<1>5. /\ HowMany(ready, {"write"}) = 0 <=> ~Waiting(ready, {"write"})
      /\ AtMostOne(ready, {"write"})
  BY <1>1, <1>3, CountedWaiting DEF WriteKinds
<1>6. Exclusive(writes, {"write"})
  BY <1>3, <1>4, <1>5 DEF Exclusive, WriteKinds
<1>7. Writes = 1 <=> Outstanding(writes, {"write"})
  BY <1>3, <1>4, <1>5 DEF Outstanding, WriteKinds
<1> QED BY <1>1, <1>6, <1>7 DEF SingleWriter, WritesSound

\* Sends before, during and after the dial never make two writes overlap and
\* never leave a queued message without one.
THEOREM ClientOneWriter == ClientSpec => []SingleWriter
<1>1. ClientInv => SingleWriter
  BY OneWriterState
<1> QED BY <1>1, ClientInvariance, PTL

\* Tagging the members of a finite set keeps their number.
LEMMA Tagged ==
  ASSUME NEW S, IsFiniteSet(S), NEW t
  PROVE  IsFiniteSet({<<t, i>> : i \in S}) /\ Cardinality({<<t, i>> : i \in S}) = Cardinality(S)
<1> DEFINE C == {<<t, i>> : i \in S}
           f == [i \in S |-> <<t, i>>]
<1>1. f \in Bijection(S, C)
  BY DEF Bijection, Injection, Surjection, IsInjective
<1>2. ExistsBijection(S, C)
  BY <1>1 DEF ExistsBijection
<1> HIDE DEF C
<1>3. IsFiniteSet(C) /\ Cardinality(C) = Cardinality(S)
  BY <1>2, FS_Bijection
<1> QED BY <1>3 DEF C

\* A client that was told to connect waits for exactly one of the resolver,
\* the connect and a read, until it begins to close.
THEOREM WaitsForOne == ClientSpec => []OneStage
<1>1. ASSUME ClientInv PROVE OneStage
  <2>1. SUFFICES ASSUME dialled, ~closing PROVE Cardinality(Stages) = 1
    BY DEF OneStage
  <2> DEFINE S0 == {j \in {0} : resolving}
             S2 == Those(ready, StageKinds)
             A  == {<<"resolver", i>> : i \in S0}
             B  == {<<"reactor", i>> : i \in DOMAIN reads}
             C  == {<<"handler", i>> : i \in S2}
  <2>2. /\ ready \in Seq(ClientHandlers) /\ reads \in Seq(ReadKinds)
        /\ Len(reads) \in Nat /\ HowMany(ready, StageKinds) \in Nat
        /\ Waits = 1 /\ resolving \in BOOLEAN
    BY <1>1, <2>1, DialFacts DEF ClientInv, DialSound
  <2>3. IsFiniteSet(S0) /\ Cardinality(S0) = IF resolving THEN 1 ELSE 0
    <3>1. CASE resolving
      <4>1. S0 = {0}
        BY <3>1
      <4> HIDE DEF S0
      <4> QED BY <3>1, <4>1, FS_Singleton
    <3>2. CASE ~resolving
      <4>1. S0 = {}
        BY <3>2
      <4> HIDE DEF S0
      <4> QED BY <3>2, <4>1, FS_EmptySet
    <3> QED BY <3>1, <3>2
  <2>4. IsFiniteSet(DOMAIN reads) /\ Cardinality(DOMAIN reads) = Len(reads)
    <3>1. DOMAIN reads = 1..Len(reads) /\ Len(reads) \in Int /\ 1 \in Int
      BY <2>2
    <3>2. Cardinality(1..Len(reads)) = IF 1 > Len(reads) THEN 0 ELSE Len(reads) - 1 + 1
      BY <3>1, FS_Interval
    <3>3. IsFiniteSet(1..Len(reads))
      BY <3>1, FS_Interval
    <3>4. Cardinality(1..Len(reads)) = Len(reads)
      BY <2>2, <3>2
    <3> QED BY <3>1, <3>3, <3>4
  <2>5. IsFiniteSet(S2) /\ Cardinality(S2) = HowMany(ready, StageKinds)
    BY <2>2, ThoseFinite
  <2>6. Stages = (A \cup B) \cup C
    BY DEF Stages, Those, StageKinds
  <2>7. A \cap B = {} /\ (A \cup B) \cap C = {}
    OBVIOUS
  <2> HIDE DEF S0, S2
  <2>8. /\ IsFiniteSet(A) /\ Cardinality(A) = Cardinality(S0)
        /\ IsFiniteSet(B) /\ Cardinality(B) = Cardinality(DOMAIN reads)
        /\ IsFiniteSet(C) /\ Cardinality(C) = Cardinality(S2)
    BY <2>3, <2>4, <2>5, Tagged
  <2> HIDE DEF A, B, C
  <2>9. IsFiniteSet(A \cup B)
        /\ Cardinality(A \cup B) = Cardinality(A) + Cardinality(B) - Cardinality(A \cap B)
    BY <2>8, FS_Union
  <2>10. Cardinality((A \cup B) \cup C)
           = Cardinality(A \cup B) + Cardinality(C) - Cardinality((A \cup B) \cap C)
    BY <2>8, <2>9, FS_Union
  <2>11. Cardinality(A \cap B) = 0 /\ Cardinality((A \cup B) \cap C) = 0
    BY <2>7, FS_EmptySet
  <2>12. Cardinality(Stages)
           = (IF resolving THEN 1 ELSE 0) + Len(reads) + HowMany(ready, StageKinds)
    <3> DEFINE b == IF resolving THEN 1 ELSE 0
    <3>1. b \in Nat /\ Cardinality(A) = b
      BY <2>3, <2>8
    <3> HIDE DEF b
    <3>2. /\ Cardinality(B) = Len(reads) /\ Cardinality(C) = HowMany(ready, StageKinds)
      BY <2>4, <2>5, <2>8
    <3>3. Cardinality(A \cup B) = b + Len(reads)
      BY <2>2, <2>9, <2>11, <3>1, <3>2
    <3>4. Cardinality(Stages) = b + Len(reads) + HowMany(ready, StageKinds)
      BY <2>2, <2>6, <2>10, <2>11, <3>1, <3>2, <3>3
    <3> QED BY <3>4 DEF b
  <2> QED BY <2>2, <2>12 DEF Waits
<1> QED BY <1>1, ClientInvariance, PTL


-----------------------------------------------------------------------------
(* A client implements the abstract channel too, from its dial on and even *)
(* when async_connect opens a socket that was closed.                      *)

\* Until the client is closed every frame accepted is on the wire or queued,
\* whatever the dial does.
ClientConveyed == Conveyed /\ wire \in Seq(Node)

LEMMA ClientIsCoherent == ClientInv /\ ClientConveyed => Coherent
<1> SUFFICES ASSUME ClientInv, ClientConveyed PROVE Coherent
  OBVIOUS
<1>1. ClientHandlers \subseteq AnyHandlers
  BY DEF ClientHandlers, Handlers, AnyHandlers
<1>2. ready \in Seq(ClientHandlers)
  BY DEF ClientInv, ClientTypes, ClientTypeOK
<1>3. ready \in Seq(AnyHandlers)
  BY <1>1, <1>2
<1>4. /\ sendQueue \in Seq(Node) /\ writes \in Seq(Node)
      /\ reads \in Seq({"head", "body", "connect"}) /\ sends \in 0..MaxSends
  BY DEF ClientInv, ClientTypes, ClientTypeOK
<1>5. SingleWriter
  BY OneWriterState
<1>6. closeSocket => closing /\ sendQueue = <<>> /\ writes = <<>>
  BY DEF ClientInv, WritesSound, NothingOwed
<1> QED BY <1>3, <1>4, <1>5, <1>6 DEF Coherent, ClientConveyed

\* What a step puts on the wire is a frame.
LEMMA WireHoldsFrames ==
  ASSUME Coherent, [ConnNext]_connVars
  PROVE  wire' \in Seq(Node)
<1>1. wire \in Seq(Node) /\ writes \in Seq(Node)
  BY DEF Coherent
<1>2. CASE wire' = wire
  BY <1>1, <1>2
<1>3. CASE WriteCompletes
  BY <1>1, <1>3 DEF WriteCompletes
<1>4. wire' = wire \/ WriteCompletes
  <2> USE DEF history
  <2>1. ASSUME NEW m \in Msgs, ToSend(m) PROVE wire' = wire
    BY <2>1 DEF ToSend
  <2>2. CASE StopToClose
    BY <2>2 DEF StopToClose
  <2>3. CASE Start
    BY <2>3 DEF Start
  <2>4. CASE RunSend
    BY <2>4 DEF RunSend, RefuseSend, DropSend, EnqueueSend
  <2>5. CASE RunClose
    BY <2>5 DEF RunClose, RepeatClose, BeginClose
  <2>6. CASE RunWrite
    BY <2>6 DEF RunWrite, WriteOk, WriteFailed
  <2>7. CASE RunHead
    BY <2>7 DEF RunHead, HeadCancelled, HeadFailed, HeadOk
  <2>8. CASE RunBody
    BY <2>8 DEF RunBody, BodyFailed, Deliver, DeliverThrows
  <2>9. ASSUME NEW ec \in {"ok", "bad", "error"}, ReadCompletes(ec) PROVE wire' = wire
    BY <2>9 DEF ReadCompletes
  <2>10. CASE WriteBreaks
    BY <2>10 DEF WriteBreaks
  <2>11. CASE UNCHANGED connVars
    BY <2>11 DEF connVars
  <2> QED
    BY <2>1, <2>2, <2>3, <2>4, <2>5, <2>6, <2>7, <2>8, <2>9, <2>10, <2>11
    DEF ConnNext, Network
<1> QED BY <1>2, <1>3, <1>4

\* A step of the dial that neither closes nor is seen by the channel.
LEMMA DialIsQuiet ==
  ASSUME Coherent, Conveyed,
         UNCHANGED <<accepted, wire, closing, closeSocket, aborted, sendQueue>>,
         Handed(ready') <=> Handed(ready)
  PROVE  Conveyed' /\ [Channel!Next]_Channel!chanVars
  BY Unmoved, Stutters

LEMMA ConnectedSimulates ==
  ASSUME Coherent, Conveyed, Connected, sends < MaxSends
  PROVE  Conveyed' /\ [Channel!Next]_Channel!chanVars
<1> DEFINE h == Handler("send", "ok", [seq |-> sends + 1, msg |-> startMsg])
           e == Handler("head", "error", NoNode)
           r == Append(Rest, h)
<1>1. /\ ready # <<>> /\ Head(ready).kind = "connect"
      /\ UNCHANGED <<accepted, wire, closing, closeSocket, aborted, sendQueue>>
      /\ ready' = r \/ ready' = Append(r, e)
  BY DEF Connected, StartClient, AsyncRead, Running, history, queue
<1>2. [seq |-> sends + 1, msg |-> startMsg] \in Node
  BY ClientAssumption, ConnectionAssumption DEF Coherent, Node
<1>3. h \in AnyHandlers /\ ~IsHanded(h) /\ e \in AnyHandlers /\ ~IsHanded(e)
  BY <1>2, AnyHandler DEF Outcomes
<1>4. ready \in Seq(AnyHandlers) /\ Rest \in Seq(AnyHandlers)
  BY <1>1, RunsFirst DEF Coherent
<1> HIDE DEF h, e
<1>5. r \in Seq(AnyHandlers)
  BY <1>3, <1>4
<1>6. Handed(Rest) <=> Handed(ready)
  BY <1>1, <1>4, HandedTail DEF IsHanded, Rest
<1>7. Handed(r) <=> Handed(Rest)
  BY <1>3, <1>4, HandedAppend
<1> HIDE DEF r
<1>8. Handed(ready') <=> Handed(r)
  BY <1>1, <1>3, <1>5, QuietReady
<1> QED BY <1>1, <1>6, <1>7, <1>8, DialIsQuiet

LEMMA ClientSimulationStep ==
  ASSUME ClientInv, ClientConveyed, [ClientNext]_clientVars
  PROVE  ClientConveyed' /\ [Channel!Next]_Channel!chanVars
<1>1. Coherent /\ Conveyed /\ wire \in Seq(Node)
  BY ClientIsCoherent DEF ClientConveyed
<1>2. ready \in Seq(AnyHandlers)
  BY <1>1 DEF Coherent
<1> USE DEF history, flags, queue
<1>3. CASE [ConnNext]_connVars
  BY <1>1, <1>3, SimulationStep, WireHoldsFrames DEF ClientConveyed
<1>4. ConnectionStep => ConnNext
  BY DEF ConnectionStep, SendCall, ClientNetwork, ConnNext
<1>5. Connect => UNCHANGED connVars
  BY DEF Connect
<1>6. CASE ResolveFailed \/ ConnectFailed
  <2>1. ready # <<>> /\ ErrToClose(Rest) /\ UNCHANGED <<accepted, wire>>
    BY <1>6 DEF ResolveFailed, ConnectFailed, GiveUp, Running
  <2> QED BY <1>1, <2>1, ErrToCloseSimulates DEF ClientConveyed
<1>7. CASE Resolved
  <2>1. /\ ready # <<>> /\ ~IsHanded(Head(ready)) /\ ready' = Rest
        /\ UNCHANGED <<accepted, wire, closing, closeSocket, aborted, sendQueue>>
    BY <1>7 DEF Resolved, Running, IsHanded
  <2>2. Handed(ready') <=> Handed(ready)
    BY <1>2, <2>1, HandedTail DEF Rest
  <2> QED BY <1>1, <2>1, <2>2, DialIsQuiet DEF ClientConveyed
<1>8. CASE Connected
  <2>1. wire' = wire
    BY <1>8 DEF Connected
  <2>2. ready # <<>> /\ Head(ready).kind = "connect"
    BY <1>8 DEF Connected, Running
  <2>3. started => ready \in Seq(Settled)
    BY DEF ClientInv, DialSound
  <2>4. \A h \in Settled : h.kind # "connect"
    BY DEF Settled
  <2>5. ready \in Seq(Settled) => Head(ready) \in Settled
    BY <2>2
  <2>6. sends < MaxSends
    BY <2>2, <2>3, <2>4, <2>5 DEF ClientInv, DialSound
  <2> QED BY <1>1, <1>8, <2>1, <2>6, ConnectedSimulates DEF ClientConveyed
<1>9. ASSUME NEW ec \in {"ok", "error"}, ResolverAnswers(ec) \/ ConnectAnswers(ec)
      PROVE  ClientConveyed' /\ [Channel!Next]_Channel!chanVars
  <2>1. PICK k \in {"resolve", "connect"} : ready' = Append(ready, Handler(k, ec, NoNode))
    BY <1>9 DEF ResolverAnswers, ConnectAnswers
  <2>2. Handler(k, ec, NoNode) \in AnyHandlers /\ ~IsHanded(Handler(k, ec, NoNode))
    BY AnyHandler DEF Outcomes
  <2>3. Handed(ready') <=> Handed(ready)
    BY <1>2, <2>1, <2>2, QuietReady
  <2>4. UNCHANGED <<accepted, wire, closing, closeSocket, aborted, sendQueue>>
    BY <1>9 DEF ResolverAnswers, ConnectAnswers
  <2> QED BY <1>1, <2>3, <2>4, DialIsQuiet DEF ClientConveyed
<1>10. CASE UNCHANGED clientVars
  BY <1>3, <1>10 DEF clientVars
<1> QED
  BY <1>3, <1>4, <1>5, <1>6, <1>7, <1>8, <1>9, <1>10 DEF ClientNext, RunDial

LEMMA ClientInitConveys == ClientInit => ClientConveyed /\ Channel!Init
<1>1. <<>> \in Seq(Node)
  OBVIOUS
<1>2. <<>> \o <<>> = <<>>
  BY <1>1, ConcatEmptySeq
<1> QED BY <1>1, <1>2
        DEF ClientInit, ConnInit, ClientConveyed, Conveyed, Handed, Channel!Init, Phase

\* A Client keeps the promise of GracefulChannel whatever its dial does: frames
\* in order, at most once, everything accepted before a graceful close, nothing
\* after it began, although its socket may be opened again behind the close.
THEOREM ClientIsChannel == ClientSpec => ChannelSafe
<1>1. ClientInit => ClientConveyed /\ Channel!Init
  BY ClientInitConveys
<1>2. ClientInv /\ ClientConveyed /\ [ClientNext]_clientVars
         => ClientConveyed' /\ [Channel!Next]_Channel!chanVars
  BY ClientSimulationStep
<1> QED BY <1>1, <1>2, ClientInvariance, PTL DEF ClientSpec, ChannelSafe, Channel!SafeSpec


\* A client's stop() that meets no error closes it only when everything it
\* accepted, its start message first, was handed to the server in order.
THEOREM ClientCloseLosesNothing == ClientSpec => []NothingLost
  BY ClientIsChannel, ChannelLosesNothing

\* The client counts its backlog right as well: its start message and what is
\* sent while it dials are queued and dropped by the same code.
THEOREM ClientBacklogIsCounted == ClientSpec => []QueueAccounting
<1>1. ClientInit => Counted
  BY TotalSteps DEF ClientInit, ConnInit, Counted
<1>2. ASSUME ClientInv, ClientConveyed, Counted, [ClientNext]_clientVars PROVE Counted'
  <2>1. Coherent
    BY <1>2, ClientIsCoherent
  <2>2. CASE [ConnNext]_connVars
    BY <1>2, <2>1, <2>2, CountStep
  <2>3. ConnectionStep => ConnNext
    BY DEF ConnectionStep, SendCall, ClientNetwork, ConnNext
  <2>4. ASSUME ErrToClose(Rest) PROVE Counted'
    BY <1>2, <2>1, <2>4, ErrorKeepsCount
  <2>5. ASSUME UNCHANGED queue PROVE Counted'
    BY <1>2, <2>5 DEF queue, Counted
  <2>6. CASE RunDial
    BY <2>4, <2>5, <2>6
    DEF RunDial, ResolveFailed, ConnectFailed, GiveUp, Resolved, Connected, queue
  <2>7. CASE Connect \/ \E ec \in {"ok", "error"} : ResolverAnswers(ec) \/ ConnectAnswers(ec)
    BY <2>5, <2>7 DEF Connect, ResolverAnswers, ConnectAnswers, connVars
  <2>8. CASE UNCHANGED clientVars
    BY <2>5, <2>8 DEF clientVars, connVars
  <2> QED BY <1>2, <2>2, <2>3, <2>6, <2>7, <2>8 DEF ClientNext
<1>3. ClientInit => ClientConveyed
  BY ClientInitConveys
<1>4. ClientInv /\ ClientConveyed /\ [ClientNext]_clientVars => ClientConveyed'
  BY ClientSimulationStep
<1>5. Counted => QueueAccounting
  BY DEF Counted, Total, QueueAccounting
<1> QED BY <1>1, <1>2, <1>3, <1>4, <1>5, ClientInvariance, PTL DEF ClientSpec

===========================================================================
