----------------------------- MODULE HttpProofs -----------------------------
(***************************************************************************)
(* What holds of an HTTP connection whatever the timeouts and however many *)
(* requests, answers and closes there are.                                 *)
(***************************************************************************)
EXTENDS HttpSession, DataProofs

-----------------------------------------------------------------------------
(* Types.                                                                  *)

\* Who may answer request n: as in Exchange.tla.
MayAnswer(n) == {Server, Named(n)} \cup {Unnamed(m) : m \in 1..n}

LEMMA AuthorsType ==
  ASSUME NEW n \in Nat
  PROVE  /\ MayAnswer(n) \subseteq Authors
         /\ Server \in MayAnswer(n) /\ Named(n) \in MayAnswer(n)
         /\ \A m \in 1..n : Unnamed(m) \in MayAnswer(n)
         /\ Server \in Authors
<1>1. Server \in Authors /\ Named(n) \in Authors
  BY DEF Authors, Server, Named
<1>2. \A m \in 1..n : Unnamed(m) \in Authors
  BY DEF Authors, Unnamed
<1> QED BY <1>1, <1>2 DEF MayAnswer

LEMMA HandlerType ==
  ASSUME NEW ec \in Outcomes
  PROVE  /\ \A k \in Kinds : Handler(k, ec) \in Handlers
         /\ \A keep \in BOOLEAN : Answered(keep, ec) \in Handlers
         /\ \A s \in Nat : \A by \in Authors : Replay(s, by) \in Handlers
<1>1. Server \in Authors
  BY AuthorsType
<1> QED BY <1>1 DEF Handler, Answered, Replay, Handlers, Kinds, Outcomes

LEMMA HandlerFields ==
  ASSUME NEW ec, NEW k, NEW keep, NEW s, NEW f
  PROVE  /\ Handler(k, ec).kind = k /\ Handler(k, ec).ec = ec
         /\ Answered(keep, ec).kind = "answer" /\ Answered(keep, ec).ec = ec
         /\ Answered(keep, ec).keep = keep
         /\ Replay(s, f).kind = "replay" /\ Replay(s, f).seq = s /\ Replay(s, f).by = f
  BY DEF Handler, Answered, Replay

LEMMA RestType ==
  ASSUME HttpTypeOK, ready # <<>>
  PROVE  /\ Rest \in Seq(Handlers) /\ Head(ready) \in Handlers
         /\ Head(ready).by \in Authors /\ Head(ready).seq \in Nat
<1>1. ready \in Seq(Handlers)
  BY DEF HttpTypeOK
<1>2. Rest \in Seq(Handlers) /\ Head(ready) \in Handlers
  BY <1>1 DEF Rest
<1>3. \A h \in Handlers : h.by \in Authors /\ h.seq \in Nat
  BY DEF Handlers
<1> QED BY <1>2, <1>3

LEMMA PostType ==
  ASSUME NEW r \in Seq(Handlers), NEW k \in Kinds
  PROVE  Append(r, Handler(k, "ok")) \in Seq(Handlers)
<1>1. Handler(k, "ok") \in Handlers
  BY HandlerType DEF Outcomes
<1> QED BY <1>1

LEMMA CloseSessionType ==
  ASSUME NEW r \in Seq(Handlers), CloseSession(r)
  PROVE  stop' = TRUE /\ ready' \in Seq(Handlers)
<1>1. "close" \in Kinds
  BY DEF Kinds
<1> QED BY <1>1, PostType DEF CloseSession

\* What closing the socket appends to the handlers.
CancelledReads     == [i \in DOMAIN reads |-> Handler(reads[i], "operation_aborted")]
CancelledContinues == [i \in 1..continues |-> Handler("continue", "operation_aborted")]
CancelledWrites    == [i \in DOMAIN writes |-> Answered(writes[i], "operation_aborted")]

LEMMA CancelledType ==
  ASSUME HttpTypeOK
  PROVE  /\ CancelledReads \in Seq(Handlers) /\ Len(CancelledReads) = Len(reads)
         /\ CancelledContinues \in Seq(Handlers) /\ Len(CancelledContinues) = continues
         /\ CancelledWrites \in Seq(Handlers) /\ Len(CancelledWrites) = Len(writes)
<1>1. /\ DOMAIN reads = 1..Len(reads) /\ Len(reads) \in Nat
      /\ DOMAIN writes = 1..Len(writes) /\ Len(writes) \in Nat /\ continues \in Nat
      /\ \A i \in DOMAIN reads : reads[i] \in {"header", "body"}
      /\ \A i \in DOMAIN writes : writes[i] \in BOOLEAN
  BY DEF HttpTypeOK
<1>2. "operation_aborted" \in Outcomes /\ "continue" \in Kinds /\ {"header", "body"} \subseteq Kinds
  BY DEF Outcomes, Kinds
<1>3. /\ \A i \in DOMAIN reads : Handler(reads[i], "operation_aborted") \in Handlers
      /\ Handler("continue", "operation_aborted") \in Handlers
      /\ \A i \in DOMAIN writes : Answered(writes[i], "operation_aborted") \in Handlers
  BY <1>1, <1>2, HandlerType
<1>4. CancelledReads \in Seq(Handlers) /\ Len(CancelledReads) = Len(reads)
  BY <1>1, <1>3 DEF CancelledReads
<1>5. CancelledContinues \in Seq(Handlers) /\ Len(CancelledContinues) = continues
  BY <1>1, <1>3 DEF CancelledContinues
<1>6. CancelledWrites \in Seq(Handlers) /\ Len(CancelledWrites) = Len(writes)
  BY <1>1, <1>3 DEF CancelledWrites
<1> QED BY <1>4, <1>5, <1>6

LEMMA SocketCloseType ==
  ASSUME HttpTypeOK, NEW r \in Seq(Handlers), SocketClose(r)
  PROVE  /\ sockOpen' = FALSE /\ reads' = <<>> /\ continues' = 0 /\ writes' = <<>>
         /\ ready' = r \o CancelledReads \o CancelledContinues \o CancelledWrites
         /\ ready' \in Seq(Handlers)
<1>1. ready' = r \o CancelledReads \o CancelledContinues \o CancelledWrites
  BY DEF SocketClose, CancelledReads, CancelledContinues, CancelledWrites
<1>2. r \o CancelledReads \in Seq(Handlers)
  BY CancelledType
<1>3. r \o CancelledReads \o CancelledContinues \in Seq(Handlers)
  BY <1>2, CancelledType
<1>4. r \o CancelledReads \o CancelledContinues \o CancelledWrites \in Seq(Handlers)
  BY <1>3, CancelledType
<1> QED BY <1>1, <1>4 DEF SocketClose

LEMMA HttpReplayType ==
  ASSUME HttpTypeOK, NEW by \in Authors, HttpReplay(by)
  PROVE  \E keep \in BOOLEAN :
            /\ replied' = TRUE
            /\ keep = (keepAlive' /\ parsed' = "all" /\ ~closeAfterReply')
            /\ writes' = Append(writes, keep) /\ writes' \in Seq(BOOLEAN)
            /\ answers' = Append(answers, [by |-> by, keep |-> keep])
            /\ answers' \in Seq([by : Authors, keep : BOOLEAN])
<1> DEFINE keep == keepAlive' /\ parsed' = "all" /\ ~closeAfterReply'
<1>1. /\ replied' = TRUE /\ writes' = Append(writes, keep)
      /\ answers' = Append(answers, [by |-> by, keep |-> keep])
  BY DEF HttpReplay
<1>2. keep \in BOOLEAN
  OBVIOUS
<1>3. keep = (keepAlive' /\ parsed' = "all" /\ ~closeAfterReply')
  OBVIOUS
<1> HIDE DEF keep
<1>4. [by |-> by, keep |-> keep] \in [by : Authors, keep : BOOLEAN]
  BY <1>2
<1>5. writes \in Seq(BOOLEAN) /\ answers \in Seq([by : Authors, keep : BOOLEAN])
  BY DEF HttpTypeOK
<1>6. Append(writes, keep) \in Seq(BOOLEAN)
  BY <1>2, <1>5
<1>7. Append(answers, [by |-> by, keep |-> keep]) \in Seq([by : Authors, keep : BOOLEAN])
  BY <1>4, <1>5
<1> QED BY <1>1, <1>2, <1>3, <1>6, <1>7

\* One response more, or none: either way the types hold.
LEMMA MayReplyType ==
  ASSUME HttpTypeOK, NoReplay \/ \E by \in Authors : HttpReplay(by)
  PROVE  /\ replied' \in BOOLEAN /\ writes' \in Seq(BOOLEAN)
         /\ answers' \in Seq([by : Authors, keep : BOOLEAN])
<1>1. CASE NoReplay
  BY <1>1 DEF NoReplay, HttpTypeOK
<1>2. CASE \E by \in Authors : HttpReplay(by)
  BY <1>2, HttpReplayType
<1> QED BY <1>1, <1>2

LEMMA HandleToWorkType ==
  ASSUME HttpTypeOK, HandleToWork
  PROVE  /\ parsed' = "all" /\ busy' = TRUE /\ busyFor' = 0
         /\ asked' \in 0..reqSeq
         /\ NoReplay \/ \E by \in MayAnswer(reqSeq) : Answerable /\ HttpReplay(by)
         /\ replied' \in BOOLEAN /\ writes' \in Seq(BOOLEAN)
         /\ answers' \in Seq([by : Authors, keep : BOOLEAN])
<1>1. asked' \in {reqSeq, asked}
  BY DEF HandleToWork
<1>2. asked' \in 0..reqSeq
  BY <1>1 DEF HttpTypeOK
<1>4. {Server, Named(reqSeq)} \subseteq MayAnswer(reqSeq) /\ MayAnswer(reqSeq) \subseteq Authors
  BY AuthorsType DEF HttpTypeOK
<1>3. NoReplay \/ \E by \in MayAnswer(reqSeq) : Answerable /\ HttpReplay(by)
  BY <1>4 DEF HandleToWork
<1> QED BY <1>2, <1>3, <1>4, MayReplyType DEF HandleToWork

\* A call of httpAsyncReplay posts an answer its number allows.
LEMMA AsyncReplayPosts ==
  ASSUME HttpTypeOK, AsyncReplay
  PROVE  \E n \in Nat : \E by \in MayAnswer(n) : ready' = Append(ready, Replay(n, by))
<1>1. PICK s \in 1..asked : \/ ready' = Append(ready, Replay(s, Named(s)))
                          \/ ready' = Append(ready, Replay(reqSeq, Unnamed(s)))
  BY DEF AsyncReplay
<1>2. s \in Nat /\ reqSeq \in Nat /\ s \in 1..reqSeq
  BY DEF HttpTypeOK
<1>3. Named(s) \in MayAnswer(s) /\ Unnamed(s) \in MayAnswer(reqSeq)
  BY <1>2, AuthorsType
<1> QED BY <1>1, <1>2, <1>3

LEMMA TypeInit == Init => HttpTypeOK
<1> SUFFICES ASSUME Init PROVE HttpTypeOK
  OBVIOUS
<1>1. /\ 0 \in 0..httpSessionTimeOut + 1 /\ 0 \in 0..httpTimeOut + 1 /\ 0 \in 0..1
      /\ 0 \in 0..MaxReplies /\ 0 \in 0..MaxCloses
  BY HttpAssumption
<1>2. /\ <<>> \in Seq(Handlers) /\ <<"header">> \in Seq({"header", "body"})
      /\ <<>> \in Seq(BOOLEAN) /\ <<>> \in Seq([by : Authors, keep : BOOLEAN])
  OBVIOUS
<1>3. /\ ready \in Seq(Handlers) /\ reads \in Seq({"header", "body"})
      /\ writes \in Seq(BOOLEAN) /\ answers \in Seq([by : Authors, keep : BOOLEAN])
  BY <1>2 DEF Init
<1>4. /\ busyFor \in 0..httpSessionTimeOut + 1 /\ idle \in 0..httpTimeOut + 1
      /\ replies \in 0..MaxReplies /\ closes \in 0..MaxCloses
      /\ asked \in 0..reqSeq
  BY <1>1 DEF Init
<1>5. reqSeq \in Nat \ {0} /\ parsed \in {"none", "head", "all"} /\ continues \in Nat
  BY DEF Init
<1>6. delivered \in Nat /\ {stop, closing, sockOpen, keepAlive} \subseteq BOOLEAN
  BY DEF Init
<1>7. {replied, closeAfterReply, busy, listed} \subseteq BOOLEAN
  BY DEF Init
<1>8. sockOpen
  BY DEF Init
<1> QED BY <1>3, <1>4, <1>5, <1>6, <1>7, <1>8 DEF HttpTypeOK

LEMMA OlderType ==
  ASSUME NEW limit \in Nat, NEW age \in 0..limit + 1
  PROVE  Older(age, limit) \in 0..limit + 1
  BY DEF Older

\* The types in parts: the ranges, and that nothing is in flight on a closed socket.
Types ==
    /\ ready \in Seq(Handlers)
    /\ reads \in Seq({"header", "body"}) /\ continues \in Nat /\ writes \in Seq(BOOLEAN)
    /\ stop \in BOOLEAN /\ closing \in BOOLEAN /\ sockOpen \in BOOLEAN
    /\ reqSeq \in Nat \ {0} /\ keepAlive \in BOOLEAN /\ parsed \in {"none", "head", "all"}
    /\ replied \in BOOLEAN /\ closeAfterReply \in BOOLEAN
    /\ busy \in BOOLEAN /\ busyFor \in 0..httpSessionTimeOut + 1
    /\ idle \in 0..httpTimeOut + 1
    /\ listed \in BOOLEAN
    /\ asked \in 0..reqSeq
    /\ answers \in Seq([by : Authors, keep : BOOLEAN]) /\ delivered \in Nat
    /\ replies \in 0..MaxReplies /\ closes \in 0..MaxCloses
Idle == ~sockOpen => reads = <<>> /\ continues = 0 /\ writes = <<>>

LEMMA TypesStep == HttpTypeOK /\ [Next]_httpVars => Types'
<1> SUFFICES ASSUME HttpTypeOK, [Next]_httpVars PROVE Types'
  OBVIOUS
<1> USE DEF flags, request, ages, inFlight, history, bounds
<1>0. /\ ready \in Seq(Handlers) /\ reads \in Seq({"header", "body"}) /\ continues \in Nat
      /\ 0 \in 0..httpTimeOut + 1 /\ 0 \in 0..httpSessionTimeOut + 1
      /\ Append(reads, "header") \in Seq({"header", "body"})
      /\ Append(reads, "body") \in Seq({"header", "body"})
  BY HttpAssumption DEF HttpTypeOK
<1>kinds. {"close", "err", "sweep", "header", "body", "continue"} \subseteq Kinds
  BY DEF Kinds
<1>1. CASE RunReadIgnored
  BY <1>1, RestType DEF RunReadIgnored, HttpTypeOK, Types
<1>2. CASE RunReadEnded \/ RunReadFailed
  <2>0. Rest \in Seq(Handlers)
    BY <1>2, RestType DEF RunReadEnded, RunReadFailed, ReadHandler
  <2>1. ready' \in Seq(Handlers) /\ stop' \in BOOLEAN
    BY <1>2, <1>kinds, <2>0, PostType, CloseSessionType DEF RunReadEnded, RunReadFailed, HttpTypeOK
  <2> QED BY <1>2, <2>1 DEF RunReadEnded, RunReadFailed, HttpTypeOK, Types
<1>3. CASE RunHeader
  <2>0. ready' \in Seq(Handlers) /\ idle' = 0
    BY <1>3, RestType DEF RunHeader, ReadHandler
  <2>1. PICK q \in Requests : /\ keepAlive' = q.keep
                              /\ Whole \/ WantsContinue \/ HasBody
    BY <1>3 DEF RunHeader
  <2>2. keepAlive' \in BOOLEAN
    BY <2>1 DEF Requests
  <2>3. CASE Whole
    BY <1>0, <1>3, <2>0, <2>2, <2>3, HandleToWorkType DEF RunHeader, Whole, HttpTypeOK, Types
  <2>4. CASE WantsContinue
    BY <1>0, <1>3, <2>0, <2>2, <2>4 DEF RunHeader, WantsContinue, NoReplay, HttpTypeOK, Types
  <2>5. CASE HasBody
    BY <1>0, <1>3, <2>0, <2>2, <2>5 DEF RunHeader, HasBody, ReadBody, NoReplay, HttpTypeOK, Types
  <2> QED BY <2>1, <2>3, <2>4, <2>5
<1>4. CASE RunBody
  <2>0. ready' \in Seq(Handlers)
    BY <1>4, RestType DEF RunBody, ReadHandler
  <2> QED BY <1>0, <1>4, <2>0, HandleToWorkType DEF RunBody, HttpTypeOK, Types
<1>5. CASE RunBodyTooLarge
  <2>0. ready' \in Seq(Handlers)
    BY <1>5, RestType DEF RunBodyTooLarge, ReadHandler
  <2>1. NoReplay \/ \E by \in Authors : HttpReplay(by)
    BY <1>5, AuthorsType DEF RunBodyTooLarge
  <2>2. idle' \in 0..httpTimeOut + 1
    BY <1>0, <1>5 DEF RunBodyTooLarge, HttpTypeOK
  <2> QED BY <1>5, <2>0, <2>1, <2>2, MayReplyType DEF RunBodyTooLarge, HttpTypeOK, Types
<1>6. CASE RunContinue
  <2>0. ready' \in Seq(Handlers)
    BY <1>6, RestType DEF RunContinue, Posted
  <2>1. reads' \in Seq({"header", "body"}) /\ idle' \in 0..httpTimeOut + 1
    BY <1>0, <1>6 DEF RunContinue, ReadBody, HttpTypeOK
  <2> QED BY <1>6, <2>0, <2>1 DEF RunContinue, HttpTypeOK, Types
<1>7. CASE RunAnswer
  <2>0. Rest \in Seq(Handlers)
    BY <1>7, RestType DEF RunAnswer, Posted
  <2>1. ready' \in Seq(Handlers) /\ stop' \in BOOLEAN
    BY <1>7, <1>kinds, <2>0, PostType, CloseSessionType DEF RunAnswer, HttpTypeOK
  <2>2. CASE UNCHANGED <<reads, request>>
    BY <1>0, <1>7, <2>1, <2>2 DEF RunAnswer, HttpTypeOK, Types
  <2>3. CASE Start
    <3>1. reqSeq + 1 \in Nat \ {0} /\ asked \in 0..reqSeq + 1
      BY DEF HttpTypeOK
    <3> QED BY <1>0, <1>7, <2>1, <2>3, <3>1 DEF RunAnswer, Start, HttpTypeOK, Types
  <2> QED BY <1>7, <2>2, <2>3 DEF RunAnswer
<1>8. CASE RunReplay
  <2>0. ready' \in Seq(Handlers) /\ Head(ready).by \in Authors
    BY <1>8, RestType DEF RunReplay, Posted
  <2>1. NoReplay \/ \E by \in Authors : HttpReplay(by)
    BY <1>8, <2>0 DEF RunReplay
  <2>2. idle' \in 0..httpTimeOut + 1
    BY <1>0, <1>8 DEF RunReplay, HttpTypeOK
  <2> QED BY <1>8, <2>0, <2>1, <2>2, MayReplyType DEF RunReplay, HttpTypeOK, Types
<1>9. CASE RunSweep
  <2>0. Rest \in Seq(Handlers)
    BY <1>9, RestType DEF RunSweep, Posted
  <2>1. NoReplay \/ \E by \in Authors : HttpReplay(by)
    BY <1>9, AuthorsType DEF RunSweep, Refuse
  <2>2. /\ ready' \in Seq(Handlers) /\ stop' \in BOOLEAN /\ closeAfterReply' \in BOOLEAN
        /\ idle' \in 0..httpTimeOut + 1
    BY <1>0, <1>9, <2>0, CloseSessionType DEF RunSweep, Refuse, Marked, HttpTypeOK
  <2>3. listed' \in BOOLEAN
    BY <1>9 DEF RunSweep
  <2> QED BY <1>9, <2>1, <2>2, <2>3, MayReplyType DEF RunSweep, HttpTypeOK, Types
<1>10. CASE RunClose
  <2>0. Rest \in Seq(Handlers)
    BY <1>10, RestType DEF RunClose, Posted
  <2>1. CASE closing
    BY <1>10, <2>0, <2>1 DEF RunClose, HttpTypeOK, Types
  <2>2. CASE ~closing
    <3>1. SocketClose(Rest)
      BY <1>10, <2>2 DEF RunClose
    <3>2. reads' \in Seq({"header", "body"}) /\ continues' \in Nat /\ writes' \in Seq(BOOLEAN)
      <4>1. reads' = <<>> /\ continues' = 0 /\ writes' = <<>>
        BY <3>1 DEF SocketClose
      <4> QED BY <4>1
    <3> QED BY <1>10, <2>0, <3>1, <3>2, SocketCloseType DEF RunClose, HttpTypeOK, Types
  <2> QED BY <2>1, <2>2
<1>11. CASE RunErr
  <2>0. Rest \in Seq(Handlers)
    BY <1>11, RestType DEF RunErr, Posted
  <2>9. closing' \in BOOLEAN
    BY <1>11 DEF RunErr
  <2>1. CASE ~sockOpen
    BY <1>11, <2>0, <2>1, <2>9 DEF RunErr, HttpTypeOK, Types
  <2>2. CASE sockOpen
    <3>1. SocketClose(Rest)
      BY <1>11, <2>2 DEF RunErr
    <3>2. reads' \in Seq({"header", "body"}) /\ continues' \in Nat /\ writes' \in Seq(BOOLEAN)
      <4>1. reads' = <<>> /\ continues' = 0 /\ writes' = <<>>
        BY <3>1 DEF SocketClose
      <4> QED BY <4>1
    <3> QED BY <1>11, <2>0, <2>9, <3>1, <3>2, SocketCloseType DEF RunErr, HttpTypeOK, Types
  <2> QED BY <2>1, <2>2
<1>12. CASE AsyncReplay
  <2>1. ready' \in Seq(Handlers)
    <3>1. PICK n \in Nat : \E by \in MayAnswer(n) : ready' = Append(ready, Replay(n, by))
      BY <1>12, AsyncReplayPosts
    <3>2. PICK by \in MayAnswer(n) : ready' = Append(ready, Replay(n, by))
      BY <3>1
    <3>3. by \in Authors
      BY <3>2, AuthorsType
    <3>4. Replay(n, by) \in Handlers
      BY <3>3, HandlerType DEF Outcomes
    <3> QED BY <1>0, <3>2, <3>4
  <2>2. replies' \in 0..MaxReplies
    BY <1>12, HttpAssumption DEF AsyncReplay, HttpTypeOK
  <2> QED BY <1>12, <2>1, <2>2 DEF AsyncReplay, HttpTypeOK, Types
<1>13. CASE AskClose
  <2>1. ready' \in Seq(Handlers) /\ stop' \in BOOLEAN /\ listed' \in BOOLEAN
    BY <1>0, <1>13, CloseSessionType DEF AskClose, HttpTypeOK
  <2>2. closes' \in 0..MaxCloses
    BY <1>13, HttpAssumption DEF AskClose, HttpTypeOK
  <2> QED BY <1>13, <2>1, <2>2 DEF AskClose, HttpTypeOK, Types
<1>14. CASE MonitorPosts
  BY <1>0, <1>14, <1>kinds, PostType DEF MonitorPosts, HttpTypeOK, Types
<1>15. CASE ReadCompletes
  <2>1. Head(reads) \in {"header", "body"} /\ Tail(reads) \in Seq({"header", "body"})
    BY <1>0, <1>15 DEF ReadCompletes
  <2>2. PICK ec \in ReadOutcomes : ready' = Append(ready, Handler(Head(reads), ec))
    BY <1>15 DEF ReadCompletes
  <2>3. ec \in Outcomes
    BY DEF ReadOutcomes, Outcomes
  <2>4. Handler(Head(reads), ec) \in Handlers
    BY <1>kinds, <2>1, <2>3, HandlerType
  <2>5. ready' \in Seq(Handlers)
    BY <1>0, <2>2, <2>4
  <2> QED BY <1>15, <2>1, <2>5 DEF ReadCompletes, HttpTypeOK, Types
<1>16. CASE ContinueCompletes
  <2>1. ready' \in Seq(Handlers)
    BY <1>0, <1>kinds, <1>16, HandlerType DEF ContinueCompletes, Outcomes
  <2>2. continues' \in Nat
    BY <1>0, <1>16 DEF ContinueCompletes
  <2> QED BY <1>16, <2>1, <2>2 DEF ContinueCompletes, HttpTypeOK, Types
<1>17. CASE AnswerCompletes
  <2>1. Head(writes) \in BOOLEAN /\ Tail(writes) \in Seq(BOOLEAN) /\ delivered + 1 \in Nat
    BY <1>17 DEF AnswerCompletes, HttpTypeOK
  <2>2. PICK ec \in {"ok", "error"} :
           /\ ready' = Append(ready, Answered(Head(writes), ec))
           /\ delivered' \in {delivered + 1, delivered}
    BY <1>17 DEF AnswerCompletes
  <2>3. ec \in Outcomes
    BY DEF Outcomes
  <2>4. Answered(Head(writes), ec) \in Handlers
    BY <2>1, <2>3, HandlerType
  <2>5. ready' \in Seq(Handlers)
    BY <1>0, <2>2, <2>4
  <2> QED BY <1>17, <2>1, <2>2, <2>5 DEF AnswerCompletes, HttpTypeOK, Types
<1>18. CASE Tick
  <2>1. idle' \in 0..httpTimeOut + 1
    BY <1>18, HttpAssumption, OlderType DEF Tick, HttpTypeOK
  <2>2. busyFor' \in 0..httpSessionTimeOut + 1
    BY <1>0, <1>18, HttpAssumption, OlderType DEF Tick, HttpTypeOK
  <2> QED BY <1>18, <2>1, <2>2 DEF Tick, HttpTypeOK, Types
<1>19. CASE UNCHANGED httpVars
  BY <1>19 DEF httpVars, HttpTypeOK, Types
<1> QED
  BY <1>1, <1>2, <1>3, <1>4, <1>5, <1>6, <1>7, <1>8, <1>9, <1>10, <1>11, <1>12, <1>13,
     <1>14, <1>15, <1>16, <1>17, <1>18, <1>19
  DEF Next, RunHandler, RunRead

LEMMA NoGrowth ==
  ASSUME HttpTypeOK,
         reads' = reads \/ reads' = <<>> \/ (reads # <<>> /\ reads' = Tail(reads)),
         writes' = writes \/ writes' = <<>> \/ (writes # <<>> /\ writes' = Tail(writes)),
         continues' = continues \/ continues' = 0 \/ (continues > 0 /\ continues' = continues - 1)
  PROVE  /\ ~(Len(reads') > Len(reads)) /\ ~(Len(writes') > Len(writes))
         /\ continues' <= continues
<1>1. reads \in Seq({"header", "body"}) /\ writes \in Seq(BOOLEAN) /\ continues \in Nat
  BY DEF HttpTypeOK
<1>2. ~(Len(reads') > Len(reads))
  BY <1>1
<1>3. ~(Len(writes') > Len(writes))
  BY <1>1
<1>4. continues' <= continues
  BY <1>1
<1> QED BY <1>2, <1>3, <1>4

\* No step of a session whose close began starts an operation.
LEMMA NoStart ==
  HttpTypeOK /\ [Next]_httpVars
    => [IsClosed => /\ ~(Len(reads') > Len(reads)) /\ ~(Len(writes') > Len(writes))
                    /\ continues' <= continues]_httpVars
<1> SUFFICES ASSUME HttpTypeOK, Next, IsClosed
             PROVE  /\ ~(Len(reads') > Len(reads)) /\ ~(Len(writes') > Len(writes))
                    /\ continues' <= continues
  BY DEF httpVars
<1> USE DEF flags, request, ages, inFlight, history, bounds
<1>1. CASE RunRead
  BY <1>1, NoGrowth
  DEF RunRead, RunReadIgnored, RunReadEnded, RunReadFailed, RunHeader, RunBody, RunBodyTooLarge,
      ReadHandler, Answerable, NoReplay
<1>2. CASE RunContinue
  BY <1>2, NoGrowth DEF RunContinue, GoesOn
<1>3. CASE RunAnswer
  BY <1>3, NoGrowth DEF RunAnswer
<1>4. CASE RunReplay
  BY <1>4, NoGrowth DEF RunReplay, Wanted, Answerable, NoReplay
<1>5. CASE RunSweep
  BY <1>5, NoGrowth DEF RunSweep, Refuse, Answerable, NoReplay
<1>6. CASE RunClose \/ RunErr
  BY <1>6, NoGrowth DEF RunClose, RunErr, SocketClose
<1>7. CASE AsyncReplay \/ AskClose \/ MonitorPosts \/ Tick
  BY <1>7, NoGrowth DEF AsyncReplay, AskClose, MonitorPosts, Tick
<1>8. CASE ReadCompletes \/ ContinueCompletes \/ AnswerCompletes
  BY <1>8, NoGrowth DEF ReadCompletes, ContinueCompletes, AnswerCompletes
<1> QED BY <1>1, <1>2, <1>3, <1>4, <1>5, <1>6, <1>7, <1>8 DEF Next, RunHandler

\* What closes the socket aborts everything in flight, and nothing starts on it.
LEMMA IdleStep == HttpTypeOK /\ [Next]_httpVars => Idle'
<1> SUFFICES ASSUME HttpTypeOK, [Next]_httpVars, ~sockOpen'
             PROVE  reads' = <<>> /\ continues' = 0 /\ writes' = <<>>
  BY DEF Idle
<1> USE DEF flags, request, ages, inFlight, history, bounds
<1>1. CASE sockOpen
  <2>1. RunClose \/ RunErr
    BY <1>1
    DEF Next, RunHandler, RunRead, RunReadIgnored, RunReadEnded, RunReadFailed, RunHeader, RunBody,
        RunBodyTooLarge, RunContinue, RunAnswer, RunReplay, RunSweep, AsyncReplay, AskClose,
        MonitorPosts, ReadCompletes, ContinueCompletes, AnswerCompletes, Tick, httpVars
  <2> QED BY <1>1, <2>1 DEF RunClose, RunErr, SocketClose
<1>2. CASE ~sockOpen
  <2>1. IsClosed /\ Len(reads) = 0 /\ continues = 0 /\ Len(writes) = 0
    BY <1>2 DEF IsClosed, HttpTypeOK
  <2>2. /\ reads' \in Seq({"header", "body"}) /\ continues' \in Nat /\ writes' \in Seq(BOOLEAN)
    BY TypesStep DEF Types
  <2>3. \/ UNCHANGED httpVars
        \/ /\ ~(Len(reads') > Len(reads)) /\ ~(Len(writes') > Len(writes))
           /\ continues' <= continues
    BY <2>1, NoStart
  <2>4. CASE UNCHANGED httpVars
    BY <1>2, <2>4 DEF httpVars, HttpTypeOK
  <2>5. CASE /\ ~(Len(reads') > Len(reads)) /\ ~(Len(writes') > Len(writes))
             /\ continues' <= continues
    <3>1. Len(reads') = 0 /\ Len(writes') = 0 /\ continues' = 0
      BY <2>1, <2>2, <2>5
    <3> QED BY <2>2, <3>1
  <2> QED BY <2>3, <2>4, <2>5
<1> QED BY <1>1, <1>2

\* Every reachable state is well typed.
LEMMA TypeStep == HttpTypeOK /\ [Next]_httpVars => HttpTypeOK'
<1>1. Types /\ Idle => HttpTypeOK
  BY DEF Types, Idle, HttpTypeOK
<1>2. (Types /\ Idle => HttpTypeOK)'
  BY <1>1, PTL
<1> QED BY <1>2, TypesStep, IdleStep

THEOREM TypeCorrect == HttpSpec => []HttpTypeOK
  BY TypeInit, TypeStep, PTL DEF HttpSpec

-----------------------------------------------------------------------------
(* The inductive invariant.  OneResponse and OneInput need what a response  *)
(* in flight says of the request: it keeps the connection only if the       *)
(* request was read whole, so that the next one finds nothing being read.   *)

Inputs == Len(reads) + continues

\* What is still being read when a response is under way is not read on.
Refusing ==
    Outstanding(Inputs, InputKinds) /\ writes # <<>> => closeAfterReply /\ ~Head(writes)

\* A request is answered once, and the one before it was delivered.
Counted ==
    /\ Len(answers) = (IF replied THEN reqSeq ELSE reqSeq - 1)
    /\ delivered \in {reqSeq - 1, reqSeq} /\ (delivered = reqSeq => replied)
    /\ writes # <<>> => /\ delivered = reqSeq - 1
                        /\ Head(writes) = answers[reqSeq].keep
                        /\ Head(writes) => parsed = "all"

\* What a handler was posted with is true of the request at hand.
Told(h) ==
    /\ h.kind = "replay" => h.by \in MayAnswer(h.seq)
    /\ h.kind = "answer" /\ h.ec = "ok" => delivered = reqSeq /\ h.keep = answers[reqSeq].keep
    /\ h.kind = "answer" /\ h.keep => parsed = "all"
AllTold == \A i \in DOMAIN ready : Told(ready[i])

HttpStructure == OneResponse /\ OneInput /\ Refusing /\ Counted /\ AllTold
HttpInv == HttpTypeOK /\ HttpStructure

Classes == {{"answer"}, InputKinds}

\* A handler that completes no operation.
Quiet(h) == /\ h \in Handlers /\ h.kind \in {"close", "err", "sweep", "replay"}
            /\ h.kind = "replay" => h.by \in MayAnswer(h.seq)

LEMMA QuietHandlers ==
  /\ \A k \in {"close", "err", "sweep"} : Quiet(Handler(k, "ok"))
  /\ \A s \in Nat : \A by \in MayAnswer(s) : Quiet(Replay(s, by))
<1>1. \A k \in {"close", "err", "sweep"} : k \in Kinds
  BY DEF Kinds
<1>2. "ok" \in Outcomes
  BY DEF Outcomes
<1>3. \A k \in {"close", "err", "sweep"} : Quiet(Handler(k, "ok"))
  <2> TAKE k \in {"close", "err", "sweep"}
  <2>1. Handler(k, "ok") \in Handlers
    BY <1>1, <1>2, HandlerType
  <2>2. Handler(k, "ok").kind = k
    BY HandlerFields
  <2> QED BY <2>1, <2>2 DEF Quiet
<1>4. \A s \in Nat : \A by \in MayAnswer(s) : Quiet(Replay(s, by))
  <2> TAKE s \in Nat
  <2> TAKE by \in MayAnswer(s)
  <2>0. by \in Authors
    BY AuthorsType
  <2>1. Replay(s, by) \in Handlers
    BY <1>2, <2>0, HandlerType
  <2>2. Replay(s, by).kind = "replay" /\ Replay(s, by).by = by /\ Replay(s, by).seq = s
    BY HandlerFields
  <2> QED BY <2>1, <2>2 DEF Quiet
<1> QED BY <1>3, <1>4

\* Every handler of the new queue was in the old one, or is quiet.
OldOrQuiet == \A i \in DOMAIN ready' : \/ \E j \in DOMAIN ready : ready'[i] = ready[j]
                                       \/ Quiet(ready'[i])

LEMMA Numbers ==
  ASSUME HttpTypeOK
  PROVE  /\ Len(reads) \in Nat /\ continues \in Nat /\ Len(writes) \in Nat
         /\ Inputs \in Nat
         /\ writes = <<>> <=> Len(writes) = 0
         /\ reads = <<>> <=> Len(reads) = 0
         /\ reqSeq \in Nat \ {0} /\ Len(answers) \in Nat /\ delivered \in Nat
  BY DEF HttpTypeOK, Inputs

\* What is left of the queue when its head is taken.
LEMMA RestFacts ==
  ASSUME HttpInv, ready # <<>>
  PROVE  /\ 1 \in DOMAIN ready /\ ready[1] = Head(ready) /\ Told(Head(ready))
         /\ \A i \in DOMAIN Rest : \E j \in DOMAIN ready : Rest[i] = ready[j]
         /\ \A K \in Classes : /\ AtMostOne(Rest, K)
                               /\ Waiting(Rest, K) => Waiting(ready, K)
                               /\ Head(ready).kind \in K =>
                                     ~Waiting(Rest, K) /\ Waiting(ready, K)
         /\ Head(ready).kind = "answer" => writes = <<>> /\ replied
         /\ Head(ready).kind \in InputKinds =>
              /\ reads = <<>> /\ continues = 0 /\ Inputs = 0
              /\ ~busy /\ parsed # "all"
<1>1. ready \in Seq(Handlers)
  BY DEF HttpInv, HttpTypeOK
<1>2. \A K \in Classes : AtMostOne(ready, K)
  BY DEF Classes, HttpInv, HttpStructure, OneResponse, OneInput, Exclusive
<1>3. 1 \in DOMAIN ready /\ ready[1] = Head(ready)
  BY <1>1
<1>4. \A i \in DOMAIN Rest : \E j \in DOMAIN ready : Rest[i] = ready[j]
  BY <1>1, TailElements DEF Rest
<1>5. ASSUME NEW K \in Classes
      PROVE  /\ AtMostOne(Rest, K)
             /\ Waiting(Rest, K) => Waiting(ready, K)
             /\ Head(ready).kind \in K => ~Waiting(Rest, K) /\ Waiting(ready, K)
  <2>1. /\ AtMostOne(Rest, K)
        /\ Head(ready).kind \in K => ~Waiting(Rest, K)
        /\ Head(ready).kind \notin K => (Waiting(Rest, K) <=> Waiting(ready, K))
    BY <1>1, <1>2, RunKinds DEF Rest
  <2>2. Head(ready).kind \in K => Waiting(ready, K)
    BY <1>3 DEF Waiting
  <2> QED BY <2>1, <2>2
<1>6. ASSUME Head(ready).kind = "answer" PROVE writes = <<>> /\ replied
  <2>1. Waiting(ready, {"answer"})
    BY <1>5, <1>6 DEF Classes
  <2>2. ~(Len(writes) > 0) /\ replied
    BY <2>1 DEF HttpInv, HttpStructure, OneResponse, Exclusive, Outstanding
  <2> QED BY <2>2, Numbers DEF HttpInv
<1>7. ASSUME Head(ready).kind \in InputKinds
      PROVE  /\ reads = <<>> /\ continues = 0 /\ Inputs = 0
             /\ ~busy /\ parsed # "all"
  <2>1. Waiting(ready, InputKinds)
    BY <1>5, <1>7 DEF Classes
  <2>2. ~(Inputs > 0) /\ ~busy /\ parsed # "all"
    BY <2>1 DEF HttpInv, HttpStructure, OneInput, Exclusive, Outstanding, Inputs
  <2> QED BY <2>2, Numbers DEF HttpInv, Inputs
<1>8. Told(Head(ready))
  BY <1>3 DEF HttpInv, HttpStructure, AllTold
<1> QED BY <1>3, <1>4, <1>5, <1>6, <1>7, <1>8

\* The queue after a handler ran, or a thread posted: `r' is what it found.
LEMMA QuietReady ==
  ASSUME HttpInv, NEW r, r = ready \/ (ready # <<>> /\ r = Rest),
         ready' = r \/ \E h : Quiet(h) /\ ready' = Append(r, h)
  PROVE  /\ OldOrQuiet
         /\ \A K \in Classes : /\ AtMostOne(ready', K)
                               /\ Waiting(ready', K) <=> Waiting(r, K)
                               /\ Waiting(ready', K) => Waiting(ready, K)
<1>1. r \in Seq(Handlers)
  BY RestType DEF HttpInv, HttpTypeOK
<1>2. \A i \in DOMAIN r : \E j \in DOMAIN ready : r[i] = ready[j]
  BY RestFacts
<1>3. \A K \in Classes : AtMostOne(r, K) /\ (Waiting(r, K) => Waiting(ready, K))
  BY RestFacts DEF Classes, HttpInv, HttpStructure, OneResponse, OneInput, Exclusive
<1>4. CASE ready' = r
  BY <1>2, <1>3, <1>4 DEF OldOrQuiet
<1>5. ASSUME NEW h, Quiet(h), ready' = Append(r, h)
      PROVE  /\ OldOrQuiet
             /\ \A K \in Classes : /\ AtMostOne(ready', K)
                                   /\ Waiting(ready', K) <=> Waiting(r, K)
  <2>1. h \in Handlers
    BY <1>5 DEF Quiet
  <2>2. \A K \in Classes : h.kind \notin K
    BY <1>5 DEF Quiet, Classes, InputKinds
  <2>3. \A K \in Classes : AtMostOne(ready', K) /\ (Waiting(ready', K) <=> Waiting(r, K))
    BY <1>1, <1>3, <1>5, <2>1, <2>2, PostKinds
  <2>4. OldOrQuiet
    BY <1>1, <1>2, <1>5, <2>1, AppendElements DEF OldOrQuiet
  <2> QED BY <2>3, <2>4
<1> QED BY <1>3, <1>4, <1>5

\* A step that starts and completes no operation.
LEMMA FrameStructure ==
  ASSUME HttpInv, OldOrQuiet,
         \A K \in Classes : AtMostOne(ready', K) /\ (Waiting(ready', K) => Waiting(ready, K)),
         UNCHANGED <<reads, continues, writes, reqSeq, parsed, replied, answers, delivered>>,
         busy' => busy, closeAfterReply => closeAfterReply'
  PROVE  HttpStructure'
<1>1. OneResponse'
  BY DEF Classes, HttpInv, HttpStructure, OneResponse, Exclusive, Outstanding
<1>2. OneInput'
  BY DEF Classes, HttpInv, HttpStructure, OneInput, Exclusive, Outstanding
<1>3. Refusing'
  BY DEF Classes, HttpInv, HttpStructure, Refusing, Outstanding, Inputs
<1>4. Counted'
  BY DEF HttpInv, HttpStructure, Counted
<1>5. AllTold'
  <2> SUFFICES ASSUME NEW i \in DOMAIN ready' PROVE Told(ready[i])'
    BY DEF AllTold
  <2>1. CASE Quiet(ready'[i])
    BY <2>1 DEF Quiet, Told
  <2>2. ASSUME NEW j \in DOMAIN ready, ready'[i] = ready[j] PROVE Told(ready[i])'
    BY <2>2 DEF HttpInv, HttpStructure, AllTold, Told
  <2> QED BY <2>1, <2>2 DEF OldOrQuiet
<1> QED BY <1>1, <1>2, <1>3, <1>4, <1>5 DEF HttpStructure

\* The same, when all a handler or a thread does to the queue is to post.
LEMMA QuietStructure ==
  ASSUME HttpInv, NEW r, r = ready \/ (ready # <<>> /\ r = Rest),
         ready' = r \/ \E h : Quiet(h) /\ ready' = Append(r, h),
         UNCHANGED <<reads, continues, writes, reqSeq, parsed, replied, answers, delivered>>,
         busy' => busy, closeAfterReply => closeAfterReply'
  PROVE  HttpStructure'
  BY QuietReady, FrameStructure

\* A response is begun for a request that has none: nothing is read any more, or the
\* response refuses the request.
LEMMA ReplyStructure ==
  ASSUME HttpInv, ~replied, ready # <<>>, ready' = Rest,
         NEW by \in Authors, HttpReplay(by), UNCHANGED <<reqSeq, delivered>>,
         OneInput', Outstanding(Inputs, InputKinds)' => closeAfterReply'
  PROVE  HttpStructure'
<1>1. PICK keep \in BOOLEAN :
         /\ replied' = TRUE
         /\ keep = (keepAlive' /\ parsed' = "all" /\ ~closeAfterReply')
         /\ writes' = Append(writes, keep)
         /\ answers' = Append(answers, [by |-> by, keep |-> keep])
  BY HttpReplayType DEF HttpInv
<1>2. Len(writes) = 0 /\ ~Waiting(ready, {"answer"})
  BY Numbers DEF HttpInv, HttpStructure, OneResponse, Outstanding
<1>3. writes' = <<keep>> /\ Len(writes') = 1 /\ Head(writes') = keep
  BY <1>1, <1>2, Numbers DEF HttpInv
<1>4. ~Waiting(ready', {"answer"}) /\ AtMostOne(ready', {"answer"})
  BY <1>2, RestFacts DEF Classes
<1>5. OneResponse'
  BY <1>1, <1>3, <1>4 DEF OneResponse, Exclusive
<1>6. Refusing'
  BY <1>1, <1>3 DEF Refusing
<1>7. Counted'
  <2>1. Len(answers) = reqSeq - 1 /\ delivered = reqSeq - 1
    BY Numbers DEF HttpInv, HttpStructure, Counted
  <2>2. answers \in Seq([by : Authors, keep : BOOLEAN]) /\ reqSeq \in Nat \ {0}
    BY DEF HttpInv, HttpTypeOK
  <2>3. [by |-> by, keep |-> keep] \in [by : Authors, keep : BOOLEAN]
    OBVIOUS
  <2>4. Len(answers') = reqSeq /\ answers'[reqSeq] = [by |-> by, keep |-> keep]
    BY <1>1, <2>1, <2>2, <2>3
  <2>5. Len(answers') = (IF replied' THEN reqSeq' ELSE reqSeq' - 1)
    BY <1>1, <2>4
  <2>6. delivered' = reqSeq' - 1 /\ delivered' # reqSeq'
    BY <2>1, <2>2
  <2>7. answers'[reqSeq'].keep = keep
    BY <2>4
  <2>8. keep => parsed' = "all"
    BY <1>1, Zenon
  <2>9. Head(writes') = answers'[reqSeq'].keep /\ (Head(writes') => parsed' = "all")
    BY <1>3, <2>7, <2>8, Zenon
  <2> QED BY <2>5, <2>6, <2>9 DEF Counted
<1>8. AllTold'
  <2> SUFFICES ASSUME NEW i \in DOMAIN ready' PROVE Told(ready[i])'
    BY DEF AllTold
  <2>1. ready'[i].kind # "answer"
    BY <1>4 DEF Waiting
  <2>2. PICK j \in DOMAIN ready : ready'[i] = ready[j]
    BY RestFacts
  <2> QED BY <2>1, <2>2 DEF HttpInv, HttpStructure, AllTold, Told
<1> QED BY <1>5, <1>6, <1>7, <1>8 DEF HttpStructure

\* The handler of an input runs and starts no other.
LEMMA InputGone ==
  ASSUME HttpInv, ready # <<>>, Head(ready).kind \in InputKinds, ready' = Rest,
         UNCHANGED <<reads, continues>>
  PROVE  OneInput' /\ ~Outstanding(Inputs, InputKinds)'
<1>1. Inputs' = 0 /\ Len(reads') + continues' = 0
  BY RestFacts DEF Inputs
<1>2. AtMostOne(ready', InputKinds) /\ ~Waiting(ready', InputKinds)
  BY RestFacts DEF Classes
<1> QED BY <1>1, <1>2 DEF OneInput, Exclusive, Outstanding

\* No response that keeps the connection is under way before the request was read.
LEMMA NoKeepYet ==
  ASSUME HttpInv, parsed # "all"
  PROVE  /\ writes # <<>> => ~Head(writes)
         /\ \A i \in DOMAIN ready : ready[i].kind = "answer" => ~ready[i].keep
  BY DEF HttpInv, HttpStructure, Counted, AllTold, Told

\* A request read whole goes to the business, unanswered yet.
LEMMA WorkStructure ==
  ASSUME HttpInv, ready # <<>>, Head(ready).kind \in InputKinds, ready' = Rest,
         UNCHANGED <<reads, continues, writes, reqSeq, replied, closeAfterReply, answers, delivered>>,
         parsed' \in {"all", parsed}
  PROVE  HttpStructure'
<1>1. OneInput' /\ ~Outstanding(Inputs, InputKinds)'
  BY InputGone
<1>2. OneResponse'
  BY RestFacts DEF Classes, HttpInv, HttpStructure, OneResponse, Exclusive, Outstanding
<1>3. Refusing'
  BY <1>1 DEF Refusing
<1>4. Counted'
  BY DEF HttpInv, HttpStructure, Counted
<1>5. AllTold'
  <2> SUFFICES ASSUME NEW i \in DOMAIN ready' PROVE Told(ready[i])'
    BY DEF AllTold
  <2>1. PICK j \in DOMAIN ready : ready'[i] = ready[j]
    BY RestFacts
  <2> QED BY <2>1 DEF HttpInv, HttpStructure, AllTold, Told
<1> QED BY <1>1, <1>2, <1>3, <1>4, <1>5 DEF HttpStructure

\* The handler of an input starts the next one of the same request.
LEMMA InputStructure ==
  ASSUME HttpInv, ready # <<>>, Head(ready).kind \in InputKinds, ready' = Rest,
         Inputs' = 1, parsed' # "all", parsed' \in {"head", parsed},
         UNCHANGED <<busy, writes, reqSeq, replied, closeAfterReply, answers, delivered>>
  PROVE  HttpStructure'
<1>1. ~busy /\ parsed # "all" /\ Waiting(ready, InputKinds)
  BY RestFacts DEF Classes
<1>2. AtMostOne(ready', InputKinds) /\ ~Waiting(ready', InputKinds)
  BY RestFacts DEF Classes
<1>3. OneInput'
  BY <1>1, <1>2 DEF OneInput, Exclusive, Inputs
<1>4. OneResponse'
  BY RestFacts DEF Classes, HttpInv, HttpStructure, OneResponse, Exclusive, Outstanding
<1>5. Refusing'
  BY <1>1 DEF HttpInv, HttpStructure, Refusing, Outstanding
<1>6. Counted'
  BY <1>1, NoKeepYet DEF HttpInv, HttpStructure, Counted
<1>7. AllTold'
  <2> SUFFICES ASSUME NEW i \in DOMAIN ready' PROVE Told(ready[i])'
    BY DEF AllTold
  <2>1. PICK j \in DOMAIN ready : ready'[i] = ready[j]
    BY RestFacts
  <2>2. Told(ready[j]) /\ (ready[j].kind = "answer" => ~ready[j].keep)
    BY <1>1, NoKeepYet DEF HttpInv, HttpStructure, AllTold
  <2> QED BY <2>1, <2>2 DEF Told
<1> QED BY <1>3, <1>4, <1>5, <1>6, <1>7 DEF HttpStructure

\* An answer that was delivered and keeps the connection starts the next request.
LEMMA StartStructure ==
  ASSUME HttpInv, ready # <<>>, Head(ready).kind = "answer", Head(ready).ec = "ok",
         Head(ready).keep, ready' = Rest, Start, busy' = FALSE,
         UNCHANGED <<continues, writes, answers, delivered>>
  PROVE  HttpStructure'
<1>1. /\ writes' = <<>> /\ replied /\ delivered = reqSeq /\ parsed = "all"
      /\ ~Waiting(ready', {"answer"}) /\ AtMostOne(ready', {"answer"})
  BY RestFacts DEF Classes, Told
<1>2. Inputs = 0 /\ ~Waiting(ready', InputKinds) /\ AtMostOne(ready', InputKinds)
  <2>1. ~Outstanding(Inputs, InputKinds)
    BY <1>1 DEF HttpInv, HttpStructure, OneInput, Inputs
  <2>2. Inputs = 0
    BY <2>1, Numbers DEF HttpInv, Outstanding
  <2> QED BY <2>1, <2>2, RestFacts DEF Classes, Outstanding
<1>3. /\ reqSeq' = reqSeq + 1 /\ parsed' = "none" /\ replied' = FALSE
      /\ reads' = Append(reads, "header")
  BY DEF Start
<1>4. Inputs' = 1
  <2>1. reads \in Seq({"header", "body"}) /\ "header" \in {"header", "body"}
    BY DEF HttpInv, HttpTypeOK
  <2>2. Len(reads') = Len(reads) + 1
    BY <1>3, <2>1
  <2> QED BY <1>2, <2>2, Numbers DEF HttpInv, Inputs
<1>5. OneInput'
  BY <1>2, <1>3, <1>4 DEF OneInput, Exclusive, Inputs
<1>6. OneResponse'
  BY <1>1 DEF OneResponse, Exclusive, Outstanding
<1>7. Refusing'
  BY <1>1 DEF Refusing
<1>8. Counted'
  <2>1. Len(answers) = reqSeq /\ reqSeq \in Nat
    BY <1>1, Numbers DEF HttpInv, HttpStructure, Counted
  <2>2. Len(answers') = reqSeq' - 1 /\ delivered' = reqSeq' - 1 /\ delivered' # reqSeq'
    BY <1>1, <1>3, <2>1
  <2> QED BY <1>1, <1>3, <2>2 DEF Counted
<1>9. AllTold'
  <2> SUFFICES ASSUME NEW i \in DOMAIN ready' PROVE Told(ready[i])'
    BY DEF AllTold
  <2>1. ready'[i].kind # "answer"
    BY <1>1 DEF Waiting
  <2>2. PICK j \in DOMAIN ready : ready'[i] = ready[j]
    BY RestFacts
  <2> QED BY <2>1, <2>2 DEF HttpInv, HttpStructure, AllTold, Told
<1> QED BY <1>5, <1>6, <1>7, <1>8, <1>9 DEF HttpStructure

\* The reactor completes the input in flight.
LEMMA InputCompletes ==
  ASSUME HttpInv, NEW h \in Handlers, h.kind \in InputKinds, ready' = Append(ready, h),
         Inputs' = Inputs - 1, Inputs > 0,
         UNCHANGED <<writes, reqSeq, parsed, replied, closeAfterReply, busy, answers, delivered>>
  PROVE  HttpStructure'
<1>1. Inputs = 1 /\ ~Waiting(ready, InputKinds) /\ AtMostOne(ready, {"answer"})
  BY Numbers DEF HttpInv, HttpStructure, OneInput, OneResponse, Exclusive, Inputs
<1>2. h.kind \notin {"answer"}
  BY DEF InputKinds
<1>3. /\ Waiting(ready', InputKinds) /\ AtMostOne(ready', InputKinds)
      /\ Waiting(ready', {"answer"}) <=> Waiting(ready, {"answer"})
      /\ AtMostOne(ready', {"answer"})
  BY <1>1, <1>2, PostKinds DEF HttpInv, HttpTypeOK
<1>4. OneInput'
  BY <1>1, <1>3 DEF HttpInv, HttpStructure, OneInput, Exclusive, Outstanding, Inputs
<1>5. OneResponse'
  BY <1>3 DEF HttpInv, HttpStructure, OneResponse, Exclusive, Outstanding
<1>6. Refusing'
  BY <1>1 DEF HttpInv, HttpStructure, Refusing, Outstanding
<1>7. Counted'
  BY DEF HttpInv, HttpStructure, Counted
<1>8. AllTold'
  <2> SUFFICES ASSUME NEW i \in DOMAIN ready' PROVE Told(ready[i])'
    BY DEF AllTold
    <2>1. (i \in DOMAIN ready /\ ready'[i] = ready[i]) \/ ready'[i] = h
    BY AppendElements DEF HttpInv, HttpTypeOK
  <2> QED BY <1>2, <2>1 DEF HttpInv, HttpStructure, AllTold, Told, InputKinds
<1> QED BY <1>4, <1>5, <1>6, <1>7, <1>8 DEF HttpStructure

\* The reactor completes the response in flight.
LEMMA ResponseCompletes ==
  ASSUME HttpInv, AnswerCompletes
  PROVE  HttpStructure'
<1>1. /\ writes # <<>> /\ writes' = Tail(writes)
      /\ UNCHANGED <<reads, continues, reqSeq, parsed, replied, closeAfterReply, busy, answers>>
  BY DEF AnswerCompletes, flags, request, ages
<1>2. PICK ec \in {"ok", "error"} :
         /\ ready' = Append(ready, Answered(Head(writes), ec))
         /\ delivered' = IF ec = "ok" THEN delivered + 1 ELSE delivered
  BY DEF AnswerCompletes
<1> DEFINE h == Answered(Head(writes), ec)
<1>3. writes \in Seq(BOOLEAN) /\ Head(writes) \in BOOLEAN
  BY <1>1 DEF HttpInv, HttpTypeOK
<1>4. h \in Handlers /\ h.kind = "answer" /\ h.ec = ec /\ h.keep = Head(writes)
  <2>1. ec \in Outcomes
    BY DEF Outcomes
  <2> QED BY <1>3, <2>1, HandlerType, HandlerFields
<1> HIDE DEF h
<1>5. Len(writes) = 1 /\ writes' = <<>> /\ ~Waiting(ready, {"answer"}) /\ replied
  <2>1. Len(writes) > 0 /\ Len(writes) <= 1
    BY <1>1, Numbers DEF HttpInv, HttpStructure, OneResponse, Exclusive
  <2>2. Len(writes) = 1
    <3>1. \A k \in Nat : k > 0 /\ k <= 1 => k = 1
      OBVIOUS
    <3>2. Len(writes) \in Nat
      BY Numbers DEF HttpInv
    <3> QED BY <2>1, <3>1, <3>2
  <2>3. ~Waiting(ready, {"answer"}) /\ replied
    BY <2>1 DEF HttpInv, HttpStructure, OneResponse, Exclusive, Outstanding
  <2> QED BY <1>1, <1>3, <2>2, <2>3
<1>6. /\ Waiting(ready', {"answer"}) /\ AtMostOne(ready', {"answer"})
      /\ Waiting(ready', InputKinds) <=> Waiting(ready, InputKinds)
      /\ AtMostOne(ready', InputKinds)
  <2>1. h.kind \in {"answer"} /\ h.kind \notin InputKinds /\ ready' = Append(ready, h)
    BY <1>2, <1>4 DEF InputKinds, h
  <2>2. ready \in Seq(Handlers) /\ AtMostOne(ready, InputKinds)
    BY DEF HttpInv, HttpTypeOK, HttpStructure, OneInput, Exclusive
  <2> QED BY <1>4, <1>5, <2>1, <2>2, PostKinds
<1>7. OneInput'
  BY <1>1, <1>6 DEF HttpInv, HttpStructure, OneInput, Exclusive, Outstanding
<1>8. OneResponse'
  <2>1. Len(writes') = 0
    BY <1>5
  <2>2. replied'
    BY <1>1, <1>5
  <2>3. Exclusive(Len(writes), {"answer"})'
    BY <1>6, <2>1 DEF Exclusive
  <2> QED BY <2>2, <2>3 DEF OneResponse
<1>9. Refusing'
  BY <1>5 DEF Refusing
<1>10. Head(writes) = answers[reqSeq].keep /\ (Head(writes) => parsed = "all")
  BY <1>1 DEF HttpInv, HttpStructure, Counted
<1>13. /\ delivered' \in {reqSeq - 1, reqSeq} /\ Len(answers) = reqSeq
       /\ ec = "ok" => delivered' = reqSeq
  <2>1. delivered = reqSeq - 1 /\ Len(answers) = reqSeq
    BY <1>1, <1>5 DEF HttpInv, HttpStructure, Counted
  <2>2. reqSeq \in Nat
    BY Numbers DEF HttpInv
  <2>3. delivered' = delivered \/ delivered' = delivered + 1
    BY <1>2
  <2>4. ec = "ok" => delivered' = delivered + 1
    BY <1>2
  <2> QED BY <2>1, <2>2, <2>3, <2>4
<1>11. Counted'
  BY <1>1, <1>5, <1>13 DEF Counted
<1>12. AllTold'
  <2> SUFFICES ASSUME NEW i \in DOMAIN ready' PROVE Told(ready[i])'
    BY DEF AllTold
  <2>1. (i \in DOMAIN ready /\ ready'[i] = ready[i]) \/ ready'[i] = h
    BY <1>2, <1>4, AppendElements DEF HttpInv, HttpTypeOK, h
  <2>2. CASE i \in DOMAIN ready /\ ready'[i] = ready[i]
    BY <1>5, <2>2 DEF HttpInv, HttpStructure, AllTold, Told, Waiting
  <2>3. CASE ready'[i] = h
    BY <1>1, <1>4, <1>10, <1>13, <2>3 DEF Told
  <2> QED BY <2>1, <2>2, <2>3
<1> QED BY <1>7, <1>8, <1>9, <1>11, <1>12 DEF HttpStructure

\* The socket is closed: what is in flight is aborted, one handler for each.
LEMMA CancelStructure ==
  ASSUME HttpInv, ready # <<>>, SocketClose(Rest),
         UNCHANGED <<reqSeq, parsed, replied, closeAfterReply, busy, answers, delivered>>
  PROVE  HttpStructure'
<1> DEFINE cr == CancelledReads
           cc == CancelledContinues
           cw == CancelledWrites
           s1 == Rest \o cr
           s2 == s1 \o cc
<1>1. Rest \in Seq(Handlers)
  BY RestType DEF HttpInv
<1>2. /\ cr \in Seq(Handlers) /\ Len(cr) = Len(reads)
      /\ cc \in Seq(Handlers) /\ Len(cc) = continues
      /\ cw \in Seq(Handlers) /\ Len(cw) = Len(writes)
  BY CancelledType DEF HttpInv
<1>3. s1 \in Seq(Handlers) /\ s2 \in Seq(Handlers)
  <2>1. s1 \in Seq(Handlers)
    BY <1>1, <1>2, ConcatElements
  <2> QED BY <1>2, <2>1, ConcatElements
<1>4. ready' = s2 \o cw /\ reads' = <<>> /\ continues' = 0 /\ writes' = <<>>
  BY <1>1, SocketCloseType DEF HttpInv
<1>15. s1 = Rest \o cr /\ s2 = s1 \o cc
  OBVIOUS
<1> HIDE DEF s1, s2
<1>5. /\ \A i \in DOMAIN cr : cr[i].kind \in {"header", "body"}
      /\ \A i \in DOMAIN cc : cc[i].kind = "continue"
      /\ \A i \in DOMAIN cw : /\ cw[i].kind = "answer" /\ cw[i].ec = "operation_aborted"
                              /\ i \in DOMAIN writes /\ cw[i].keep = writes[i]
  <2>1. \A i \in DOMAIN reads : reads[i] \in {"header", "body"}
    BY DEF HttpInv, HttpTypeOK
  <2>2. \A i \in DOMAIN cr : cr[i].kind \in {"header", "body"}
    BY <2>1, HandlerFields DEF CancelledReads
  <2>3. \A i \in DOMAIN cc : cc[i].kind = "continue"
    BY HandlerFields DEF CancelledContinues
  <2>4. \A i \in DOMAIN cw : /\ cw[i].kind = "answer" /\ cw[i].ec = "operation_aborted"
                             /\ i \in DOMAIN writes /\ cw[i].keep = writes[i]
    BY HandlerFields DEF CancelledWrites
  <2> QED BY <2>2, <2>3, <2>4
<1>6. /\ Len(writes) <= 1 /\ Inputs <= 1
      /\ Len(writes) > 0 => ~Waiting(ready, {"answer"}) /\ replied
      /\ Inputs > 0 => ~Waiting(ready, InputKinds)
      /\ busy \/ parsed = "all" => Inputs = 0 /\ ~Waiting(ready, InputKinds)
  BY Numbers DEF HttpInv, HttpStructure, OneResponse, OneInput, Exclusive, Outstanding, Inputs
<1>7. \A K \in Classes : AtMostOne(Rest, K) /\ (Waiting(Rest, K) => Waiting(ready, K))
  BY RestFacts
<1>8. /\ AtMostOne(cr, InputKinds) /\ AtMostOne(cc, InputKinds) /\ AtMostOne(cw, {"answer"})
      /\ Waiting(cr, InputKinds) => Len(reads) > 0
      /\ Waiting(cc, InputKinds) => continues > 0
      /\ Waiting(cw, {"answer"}) => Len(writes) > 0
      /\ ~Waiting(cr, {"answer"}) /\ ~Waiting(cc, {"answer"}) /\ ~Waiting(cw, InputKinds)
  <2>1. Len(reads) <= 1 /\ continues <= 1 /\ Len(writes) <= 1
    BY <1>6, Numbers DEF HttpInv, Inputs
  <2>2. /\ DOMAIN cr = 1..Len(reads) /\ DOMAIN cc = 1..continues /\ DOMAIN cw = 1..Len(writes)
    BY <1>2
  <2>3. AtMostOne(cr, InputKinds) /\ AtMostOne(cc, InputKinds) /\ AtMostOne(cw, {"answer"})
    BY <2>1, <2>2, Numbers DEF HttpInv, AtMostOne
  <2>4. /\ Waiting(cr, InputKinds) => Len(reads) > 0
        /\ Waiting(cc, InputKinds) => continues > 0
        /\ Waiting(cw, {"answer"}) => Len(writes) > 0
    BY <2>2, Numbers DEF HttpInv, Waiting
  <2>5. ~Waiting(cr, {"answer"}) /\ ~Waiting(cc, {"answer"}) /\ ~Waiting(cw, InputKinds)
    BY <1>5 DEF Waiting, InputKinds
  <2> QED BY <2>3, <2>4, <2>5
<1> HIDE DEF cr, cc, cw
<1>9. /\ AtMostOne(ready', {"answer"})
      /\ Waiting(ready', {"answer"}) => Waiting(ready, {"answer"}) \/ Len(writes) > 0
  <2>1. AtMostOne(s1, {"answer"}) /\ (Waiting(s1, {"answer"}) <=> Waiting(Rest, {"answer"}))
    <3>1. AtMostOne(cr, {"answer"})
      BY <1>8 DEF Waiting, AtMostOne
    <3> QED BY <1>1, <1>2, <1>7, <1>8, <1>15, <3>1, ConcatKinds DEF Classes
  <2>2. AtMostOne(s2, {"answer"}) /\ (Waiting(s2, {"answer"}) <=> Waiting(Rest, {"answer"}))
    <3>1. AtMostOne(cc, {"answer"})
      BY <1>8 DEF Waiting, AtMostOne
    <3>2. Waiting(s2, {"answer"}) <=> Waiting(s1, {"answer"}) \/ Waiting(cc, {"answer"})
      BY <1>2, <1>3, <1>15, ConcatKinds
    <3>3. AtMostOne(s2, {"answer"})
      BY <1>2, <1>3, <1>8, <1>15, <2>1, <3>1, ConcatKinds
    <3> QED BY <1>8, <2>1, <3>2, <3>3
  <2>3. Waiting(Rest, {"answer"}) => Waiting(ready, {"answer"})
    BY <1>7 DEF Classes
  <2> QED BY <1>2, <1>3, <1>4, <1>6, <1>8, <2>2, <2>3, ConcatKinds
<1>10. /\ AtMostOne(ready', InputKinds)
       /\ Waiting(ready', InputKinds) => Waiting(ready, InputKinds) \/ Inputs > 0
  <2>0. /\ Waiting(Rest, InputKinds) => Waiting(ready, InputKinds)
        /\ Waiting(cr, InputKinds) => Inputs > 0 /\ ~Waiting(cc, InputKinds)
        /\ Waiting(cc, InputKinds) => Inputs > 0
    <3>1. /\ Len(reads) > 0 => Inputs > 0 /\ ~(continues > 0)
          /\ continues > 0 => Inputs > 0
      BY <1>6, Numbers DEF HttpInv, Inputs
    <3> QED BY <1>7, <1>8, <3>1 DEF Classes
  <2>1. AtMostOne(s1, InputKinds)
        /\ (Waiting(s1, InputKinds) <=> Waiting(Rest, InputKinds) \/ Waiting(cr, InputKinds))
    BY <1>1, <1>2, <1>6, <1>7, <1>8, <1>15, <2>0, ConcatKinds DEF Classes
  <2>2. AtMostOne(s2, InputKinds)
        /\ (Waiting(s2, InputKinds) <=> Waiting(s1, InputKinds) \/ Waiting(cc, InputKinds))
    <3>1. Waiting(cc, InputKinds) => ~Waiting(s1, InputKinds)
      BY <1>6, <2>0, <2>1
    <3>2. AtMostOne(cc, InputKinds)
      BY <1>8
    <3>3. AtMostOne(s1, InputKinds)
      BY <2>1
    <3> QED BY <1>2, <1>3, <1>15, <3>1, <3>2, <3>3, ConcatKinds
  <2>3. AtMostOne(cw, InputKinds)
    BY <1>8 DEF Waiting, AtMostOne
  <2> QED BY <1>2, <1>3, <1>4, <1>8, <2>0, <2>1, <2>2, <2>3, ConcatKinds
<1>11. OneResponse'
  <2>1. Len(writes') = 0
    BY <1>4
  <2>2. Waiting(ready', {"answer"}) => replied'
    BY <1>6, <1>9 DEF HttpInv, HttpStructure, OneResponse, Outstanding
  <2> QED BY <1>9, <2>1, <2>2 DEF OneResponse, Exclusive, Outstanding
<1>12. OneInput'
  <2>1. Len(reads') + continues' = 0
    BY <1>4
  <2>2. busy' \/ parsed' = "all" => ~Waiting(ready', InputKinds)
    BY <1>6, <1>10
  <2> QED BY <1>10, <2>1, <2>2 DEF OneInput, Exclusive, Outstanding
<1>13. Refusing' /\ Counted'
  BY <1>4 DEF HttpInv, HttpStructure, Refusing, Counted
<1>14. AllTold'
  <2> SUFFICES ASSUME NEW i \in DOMAIN ready' PROVE Told(ready[i])'
    BY DEF AllTold
  <2>1. \/ \E j \in DOMAIN Rest : ready'[i] = Rest[j]
        \/ \E j \in DOMAIN cr : ready'[i] = cr[j]
        \/ \E j \in DOMAIN cc : ready'[i] = cc[j]
        \/ \E j \in DOMAIN cw : ready'[i] = cw[j]
    <3>1. From(s1, Rest, cr)
      BY <1>1, <1>2, <1>15, ConcatOrigin
    <3>2. From(s2, s1, cc)
      BY <1>2, <1>3, <1>15, ConcatOrigin
    <3>3. From(ready', s2, cw)
      BY <1>2, <1>3, <1>4, ConcatOrigin
    <3> QED BY <3>1, <3>2, <3>3 DEF From
  <2>2. ASSUME NEW j \in DOMAIN Rest, ready'[i] = Rest[j] PROVE Told(ready[i])'
    <3>1. PICK k \in DOMAIN ready : ready'[i] = ready[k]
      BY <2>2, RestFacts
    <3> QED BY <3>1 DEF HttpInv, HttpStructure, AllTold, Told
  <2>3. ASSUME ready'[i].kind \in {"header", "body", "continue"} PROVE Told(ready[i])'
    BY <2>3 DEF Told
  <2>4. ASSUME NEW j \in DOMAIN cw, ready'[i] = cw[j] PROVE Told(ready[i])'
    <3>1. /\ ready'[i].kind = "answer" /\ ready'[i].ec = "operation_aborted"
          /\ j \in DOMAIN writes /\ ready'[i].keep = writes[j]
      BY <1>5, <2>4
    <3>2. writes \in Seq(BOOLEAN) /\ Len(writes) <= 1
      BY <1>6 DEF HttpInv, HttpTypeOK
    <3>3. writes # <<>> /\ writes[j] = Head(writes)
      BY <3>1, <3>2
    <3>4. Head(writes) => parsed = "all"
      BY <3>3 DEF HttpInv, HttpStructure, Counted
    <3> QED BY <3>1, <3>3, <3>4 DEF Told
  <2> QED BY <1>5, <2>1, <2>2, <2>3, <2>4
<1> QED BY <1>11, <1>12, <1>13, <1>14 DEF HttpStructure

-----------------------------------------------------------------------------
\* Every step preserves the invariant, one case per action.
LEMMA StructureStep == HttpInv /\ [Next]_httpVars => HttpStructure'
<1> SUFFICES ASSUME HttpInv, [Next]_httpVars PROVE HttpStructure'
  OBVIOUS
<1> USE DEF flags, request, ages, inFlight, history, bounds
<1>quiet. /\ Quiet(Handler("close", "ok")) /\ Quiet(Handler("err", "ok")) /\ Quiet(Handler("sweep", "ok"))
      /\ \A s \in Nat : \A by \in MayAnswer(s) : Quiet(Replay(s, by))
  BY QuietHandlers
<1>numbers. Server \in Authors /\ MayAnswer(reqSeq) \subseteq Authors
  BY Numbers, AuthorsType DEF HttpInv
<1>1. CASE RunReadIgnored
  BY <1>1, WorkStructure DEF RunReadIgnored, InputKinds
<1>2. CASE RunReadEnded \/ RunReadFailed
  BY <1>2, <1>quiet, QuietStructure DEF RunReadEnded, RunReadFailed, ReadHandler, CloseSession
<1>3. CASE RunHeader
  <2>0. /\ ready # <<>> /\ Head(ready).kind \in InputKinds /\ ready' = Rest
        /\ UNCHANGED <<reqSeq, closeAfterReply, delivered>>
    BY <1>3 DEF RunHeader, ReadHandler, InputKinds
  <2>1. Whole \/ WantsContinue \/ HasBody
    BY <1>3 DEF RunHeader
  <2>2. reads = <<>> /\ continues = 0
    BY <2>0, RestFacts
  <2>3. CASE Whole
    <3>1. UNCHANGED <<reads, continues>> /\ HandleToWork
      BY <2>3 DEF Whole
    <3>2. parsed' = "all"
      BY <3>1 DEF HandleToWork
    <3>3. OneInput' /\ ~Outstanding(Inputs, InputKinds)'
      BY <2>0, <3>1, InputGone
    <3>4. CASE NoReplay
      BY <2>0, <3>1, <3>2, <3>4, WorkStructure DEF NoReplay
    <3>5. CASE \E by \in MayAnswer(reqSeq) : Answerable /\ HttpReplay(by)
      BY <1>numbers, <2>0, <3>3, <3>5, ReplyStructure DEF Answerable
    <3> QED BY <3>1, <3>4, <3>5, HandleToWorkType DEF HttpInv
  <2>4. CASE WantsContinue \/ HasBody
    <3>1. Inputs' = 1
      <4>1. CASE WantsContinue
        BY <2>2, <4>1 DEF WantsContinue, Inputs
      <4>2. CASE HasBody
        <5>1. reads' = <<"body">> /\ continues' = 0
          BY <2>2, <4>2 DEF HasBody, ReadBody
        <5> QED BY <5>1 DEF Inputs
      <4> QED BY <2>4, <4>1, <4>2
    <3>2. /\ parsed' = "head" /\ NoReplay /\ busy' = busy /\ answers' = answers
      BY <2>4 DEF WantsContinue, HasBody, NoReplay
    <3> QED BY <2>0, <3>1, <3>2, InputStructure DEF NoReplay
  <2> QED BY <2>1, <2>3, <2>4
<1>4. CASE RunBody
  <2>0. /\ ready # <<>> /\ Head(ready).kind \in InputKinds /\ ready' = Rest
        /\ UNCHANGED <<reads, continues, reqSeq, closeAfterReply, delivered>>
        /\ HandleToWork
    BY <1>4 DEF RunBody, ReadHandler, InputKinds
  <2>1. parsed' = "all"
    BY <2>0 DEF HandleToWork
  <2>2. OneInput' /\ ~Outstanding(Inputs, InputKinds)'
    BY <2>0, InputGone
  <2>3. CASE NoReplay
    BY <2>0, <2>1, <2>3, WorkStructure DEF NoReplay
  <2>4. CASE \E by \in MayAnswer(reqSeq) : Answerable /\ HttpReplay(by)
    BY <1>numbers, <2>0, <2>2, <2>4, ReplyStructure DEF Answerable
  <2> QED BY <2>0, <2>3, <2>4, HandleToWorkType DEF HttpInv
<1>5. CASE RunBodyTooLarge
  <2>0. /\ ready # <<>> /\ Head(ready).kind \in InputKinds /\ ready' = Rest
        /\ UNCHANGED <<reads, continues, reqSeq, parsed, closeAfterReply, delivered>>
        /\ NoReplay \/ (Answerable /\ HttpReplay(Server))
    BY <1>5 DEF RunBodyTooLarge, ReadHandler, InputKinds
  <2>1. OneInput' /\ ~Outstanding(Inputs, InputKinds)'
    BY <2>0, InputGone
  <2>2. CASE NoReplay
    BY <2>0, <2>2, WorkStructure DEF NoReplay
  <2>3. CASE Answerable /\ HttpReplay(Server)
    BY <1>numbers, <2>0, <2>1, <2>3, ReplyStructure DEF Answerable
  <2> QED BY <2>0, <2>2, <2>3
<1>6. CASE RunContinue
  <2>0. /\ ready # <<>> /\ Head(ready).kind \in InputKinds /\ ready' = Rest
        /\ UNCHANGED <<continues, writes, request, busy, answers, delivered>>
        /\ reads' = reads \/ reads' = Append(reads, "body")
    BY <1>6 DEF RunContinue, Posted, InputKinds, ReadBody
  <2>1. reads = <<>> /\ continues = 0 /\ parsed # "all"
    BY <2>0, RestFacts
  <2>2. CASE reads' = reads
    BY <2>0, <2>2, WorkStructure
  <2>3. CASE reads' = Append(reads, "body")
    <3>1. reads' = <<"body">> /\ continues' = 0
      BY <2>0, <2>1, <2>3
    <3>2. Inputs' = 1
      BY <3>1 DEF Inputs
    <3> QED BY <2>0, <2>1, <3>2, InputStructure
  <2> QED BY <2>0, <2>2, <2>3
<1>7. CASE RunAnswer
  <2>0. /\ ready # <<>> /\ Head(ready).kind = "answer" /\ busy' = FALSE
        /\ UNCHANGED <<continues, writes, answers, delivered>>
    BY <1>7 DEF RunAnswer, Posted
  <2>1. CASE UNCHANGED <<reads, request>>
    <3>1. ready' = Rest \/ \E h : Quiet(h) /\ ready' = Append(Rest, h)
      BY <1>7, <1>quiet DEF RunAnswer, CloseSession
    <3>2. UNCHANGED <<reads, continues, writes, reqSeq, parsed, replied, answers, delivered, closeAfterReply>>
      BY <2>0, <2>1
    <3> QED BY <2>0, <3>1, <3>2, QuietStructure
  <2>2. CASE /\ Head(ready).ec = "ok" /\ Head(ready).keep /\ ready' = Rest /\ Start
    BY <2>0, <2>2, StartStructure
  <2> QED BY <1>7, <2>1, <2>2 DEF RunAnswer
<1>8. CASE RunReplay
  <2>0. /\ ready # <<>> /\ Head(ready).kind = "replay" /\ ready' = Rest
        /\ UNCHANGED <<reads, continues, reqSeq, parsed, closeAfterReply, delivered, busy>>
        /\ NoReplay \/ (Wanted(Head(ready)) /\ HttpReplay(Head(ready).by))
    BY <1>8 DEF RunReplay, Posted
  <2>1. CASE NoReplay
    BY <2>0, <2>1, QuietStructure DEF NoReplay
  <2>2. CASE Wanted(Head(ready)) /\ HttpReplay(Head(ready).by)
    <3>1. ~replied /\ busy /\ Head(ready).by \in Authors
      BY <2>0, <2>2, RestType DEF Wanted, Answerable, HttpInv
    <3>2. Inputs = 0 /\ ~Waiting(ready, InputKinds)
      BY <3>1, Numbers DEF HttpInv, HttpStructure, OneInput, Outstanding, Inputs
    <3>3. OneInput' /\ ~Outstanding(Inputs, InputKinds)'
      <4>1. Inputs' = 0 /\ Len(reads') + continues' = 0
        BY <2>0, <3>2 DEF Inputs
      <4>2. AtMostOne(ready', InputKinds) /\ ~Waiting(ready', InputKinds)
        BY <2>0, <3>2, RestFacts DEF Classes
      <4> QED BY <4>1, <4>2 DEF OneInput, Exclusive, Outstanding
    <3> QED BY <2>0, <2>2, <3>1, <3>3, ReplyStructure
  <2> QED BY <2>0, <2>1, <2>2
<1>9. CASE RunSweep
  <2>0. /\ ready # <<>> /\ Head(ready).kind = "sweep"
        /\ UNCHANGED <<reads, continues, reqSeq, parsed, delivered, busy>>
    BY <1>9 DEF RunSweep, Posted
  <2>1. CASE NoReplay
    <3>1. ready' = Rest \/ \E h : Quiet(h) /\ ready' = Append(Rest, h)
      BY <1>9, <1>quiet DEF RunSweep, Refuse, CloseSession
    <3>2. closeAfterReply => closeAfterReply'
      BY <1>9 DEF RunSweep, Refuse, Marked
    <3> QED BY <2>0, <2>1, <3>1, <3>2, QuietStructure DEF NoReplay
  <2>2. CASE /\ Answerable /\ HttpReplay(Server) /\ ready' = Rest /\ closeAfterReply' = TRUE
    <3>1. OneInput'
      BY <2>0, <2>2, RestFacts
      DEF Classes, HttpInv, HttpStructure, OneInput, Exclusive, Outstanding
    <3> QED BY <1>numbers, <2>0, <2>2, <3>1, ReplyStructure DEF Answerable
  <2> QED BY <1>9, <2>1, <2>2 DEF RunSweep, Refuse, Marked
<1>10. CASE RunClose
  <2>0. /\ ready # <<>> /\ UNCHANGED <<request, busy, answers, delivered>>
    BY <1>10 DEF RunClose, Posted
  <2>1. CASE ready' = Rest /\ UNCHANGED inFlight
    BY <2>0, <2>1, QuietStructure
  <2>2. CASE SocketClose(Rest)
    BY <2>0, <2>2, CancelStructure
  <2> QED BY <1>10, <2>1, <2>2 DEF RunClose
<1>11. CASE RunErr
  <2>0. /\ ready # <<>> /\ UNCHANGED <<request, busy, answers, delivered>>
    BY <1>11 DEF RunErr, Posted
  <2>1. CASE ready' = Rest /\ UNCHANGED inFlight
    BY <2>0, <2>1, QuietStructure
  <2>2. CASE SocketClose(Rest)
    BY <2>0, <2>2, CancelStructure
  <2> QED BY <1>11, <2>1, <2>2 DEF RunErr
<1>12. CASE AsyncReplay
  <2>1. \E h : Quiet(h) /\ ready' = Append(ready, h)
    BY <1>12, <1>quiet, AsyncReplayPosts DEF HttpInv
  <2> QED BY <1>12, <2>1, QuietStructure DEF AsyncReplay
<1>13. CASE AskClose \/ MonitorPosts
  <2>1. \E h : Quiet(h) /\ ready' = Append(ready, h)
    BY <1>13, <1>quiet DEF AskClose, MonitorPosts, CloseSession
  <2>2. UNCHANGED <<inFlight, request, busy, answers, delivered>>
    BY <1>13 DEF AskClose, MonitorPosts
  <2> QED BY <2>1, <2>2, QuietStructure
<1>14. CASE ReadCompletes
  <2>0. /\ reads # <<>> /\ reads' = Tail(reads)
        /\ UNCHANGED <<continues, writes, request, busy, answers, delivered>>
    BY <1>14 DEF ReadCompletes
  <2>1. PICK ec \in ReadOutcomes : ready' = Append(ready, Handler(Head(reads), ec))
    BY <1>14 DEF ReadCompletes
  <2>2. reads \in Seq({"header", "body"}) /\ Head(reads) \in {"header", "body"}
    BY <2>0 DEF HttpInv, HttpTypeOK
  <2>3. Handler(Head(reads), ec) \in Handlers /\ Handler(Head(reads), ec).kind \in InputKinds
    <3>1. ec \in Outcomes /\ Head(reads) \in Kinds
      BY <2>2 DEF ReadOutcomes, Outcomes, Kinds
    <3>2. Handler(Head(reads), ec) \in Handlers
      BY <3>1, HandlerType
    <3>3. Handler(Head(reads), ec).kind = Head(reads)
      BY HandlerFields
    <3> QED BY <2>2, <3>2, <3>3 DEF InputKinds
  <2>4. Inputs' = Inputs - 1 /\ Inputs > 0
    <3>1. Len(reads) > 0 /\ Len(reads') = Len(reads) - 1
      BY <2>0, <2>2
    <3> QED BY <2>0, <3>1, Numbers DEF HttpInv, Inputs
  <2> QED BY <2>0, <2>1, <2>3, <2>4, InputCompletes
<1>15. CASE ContinueCompletes
  <2>0. /\ continues > 0 /\ continues' = continues - 1
        /\ UNCHANGED <<reads, writes, request, busy, answers, delivered>>
    BY <1>15 DEF ContinueCompletes
  <2>1. PICK ec \in {"ok", "error"} : ready' = Append(ready, Handler("continue", ec))
    BY <1>15 DEF ContinueCompletes
  <2>2. Handler("continue", ec) \in Handlers /\ Handler("continue", ec).kind \in InputKinds
    <3>1. ec \in Outcomes /\ "continue" \in Kinds
      BY DEF Outcomes, Kinds
    <3> QED BY <3>1, HandlerType, HandlerFields DEF InputKinds
  <2>3. Inputs' = Inputs - 1 /\ Inputs > 0
    BY <2>0, Numbers DEF HttpInv, Inputs
  <2> QED BY <2>0, <2>1, <2>2, <2>3, InputCompletes
<1>16. CASE AnswerCompletes
  BY <1>16, ResponseCompletes
<1>17. CASE Tick
  BY <1>17, QuietStructure DEF Tick
<1>18. CASE UNCHANGED httpVars
  BY <1>18, QuietStructure DEF httpVars
<1> QED
  BY <1>1, <1>2, <1>3, <1>4, <1>5, <1>6, <1>7, <1>8, <1>9, <1>10, <1>11, <1>12, <1>13,
     <1>14, <1>15, <1>16, <1>17, <1>18
  DEF Next, RunHandler, RunRead

LEMMA StructureInit == Init => HttpStructure
<1> SUFFICES ASSUME Init PROVE HttpStructure
  OBVIOUS
<1>1. /\ ready = <<>> /\ Len(reads) = 1 /\ continues = 0 /\ writes = <<>> /\ Len(writes) = 0
      /\ Len(answers) = 0 /\ reqSeq = 1 /\ delivered = 0 /\ replied = FALSE /\ busy = FALSE
      /\ parsed = "none"
  BY DEF Init
<1>2. \A K : ~Waiting(ready, K) /\ AtMostOne(ready, K)
  BY <1>1 DEF Waiting, AtMostOne
<1>3. OneResponse
  BY <1>1, <1>2 DEF OneResponse, Exclusive, Outstanding
<1>4. OneInput
  BY <1>1, <1>2 DEF OneInput, Exclusive
<1>5. Refusing /\ Counted /\ AllTold
  <2>1. Len(answers) = reqSeq - 1 /\ delivered = reqSeq - 1 /\ delivered # reqSeq
    BY <1>1
  <2>2. Counted
    BY <1>1, <2>1 DEF Counted
  <2>3. Refusing
    BY <1>1 DEF Refusing
  <2>4. DOMAIN ready = {}
    BY <1>1
  <2> QED BY <2>2, <2>3, <2>4 DEF AllTold
<1> QED BY <1>3, <1>4, <1>5 DEF HttpStructure

\* The invariant holds in every reachable state.
THEOREM Invariance == HttpSpec => []HttpInv
<1>1. Init => HttpInv
  BY TypeInit, StructureInit DEF HttpInv
<1>2. HttpInv /\ [Next]_httpVars => HttpInv'
  BY TypeStep, StructureStep DEF HttpInv
<1> QED BY <1>1, <1>2, PTL DEF HttpSpec

\* Responses never overlap in the stream, and a request that has one is marked as
\* answered before anybody could answer it again.
THEOREM OneResponseAtATime == HttpSpec => []OneResponse
  BY Invariance, PTL DEF HttpInv, HttpStructure

\* Header, 100-continue and body of a request never overlap, and nothing is read
\* while the business has it.
THEOREM OneInputAtATime == HttpSpec => []OneInput
  BY Invariance, PTL DEF HttpInv, HttpStructure

\* Only a refusal, after which the connection closes, meets a 100-continue in flight.
THEOREM WritesStayApart == HttpSpec => []WritesApart
<1>1. HttpInv => WritesApart
  <2> SUFFICES ASSUME HttpInv, continues > 0, writes # <<>> PROVE closeAfterReply /\ ~Head(writes)
    BY DEF WritesApart
  <2>1. Inputs > 0
    BY Numbers DEF HttpInv, Inputs
  <2> QED BY <2>1 DEF HttpInv, HttpStructure, Refusing, Outstanding
<1> QED BY <1>1, Invariance, PTL

-----------------------------------------------------------------------------
(* A closed session begins nothing.                                        *)

\* Once its close began, whoever began it, a session starts no read and no write:
\* every handler that was queued before finds out.
THEOREM ClosedStartsNothing == HttpSpec => NothingAfterClose
  BY NoStart, TypeCorrect, PTL DEF HttpSpec, NothingAfterClose, Grows

-----------------------------------------------------------------------------
(* A session implements the exchange of Exchange.tla: every step is one of  *)
(* its steps or leaves it unchanged.                                        *)

LEMMA ClosesOrStutters ==
  ASSUME UNCHANGED <<reqSeq, answers, delivered>>, IsClosed => IsClosed'
  PROVE  [ToExchange!Next]_ToExchange!exchVars
  BY DEF ToExchange!Next, ToExchange!Close, ToExchange!exchVars

LEMMA SameAuthors == \A n : ToExchange!MayAnswer(n) = MayAnswer(n)
  BY DEF ToExchange!MayAnswer, ToExchange!Server, ToExchange!Named, ToExchange!Unnamed,
         MayAnswer, Server, Named, Unnamed

LEMMA Answers ==
  ASSUME HttpInv, ~replied, ~IsClosed, NEW by \in MayAnswer(reqSeq), HttpReplay(by),
         UNCHANGED <<reqSeq, delivered, flags>>
  PROVE  ToExchange!Next
<1>1. by \in Authors
  BY Numbers, AuthorsType DEF HttpInv
<1>2. \E keep \in BOOLEAN : answers' = Append(answers, [by |-> by, keep |-> keep])
  BY <1>1, HttpReplayType DEF HttpInv
<1>3. Len(answers) = reqSeq - 1
  BY DEF HttpInv, HttpStructure, Counted
<1>4. ~IsClosed'
  BY DEF IsClosed, flags
<1>5. by \in ToExchange!MayAnswer(reqSeq)
  BY SameAuthors
<1> QED BY <1>2, <1>3, <1>4, <1>5 DEF ToExchange!Next, ToExchange!Answer

\* A step that may close the session, or answers the request.
LEMMA AnswersOrNot ==
  ASSUME HttpInv, UNCHANGED <<reqSeq, delivered, flags>>,
         NoReplay \/ \E by \in MayAnswer(reqSeq) : Answerable /\ HttpReplay(by)
  PROVE  [ToExchange!Next]_ToExchange!exchVars
<1>1. CASE NoReplay
  BY <1>1, ClosesOrStutters DEF NoReplay, IsClosed, flags
<1>2. CASE \E by \in MayAnswer(reqSeq) : Answerable /\ HttpReplay(by)
  BY <1>2, Answers DEF Answerable
<1> QED BY <1>1, <1>2

LEMMA ExchangeStep == HttpInv /\ [Next]_httpVars => [ToExchange!Next]_ToExchange!exchVars
<1> SUFFICES ASSUME HttpInv, [Next]_httpVars PROVE [ToExchange!Next]_ToExchange!exchVars
  OBVIOUS
<1> USE DEF flags, request, ages, inFlight, history, bounds
<1>1. CASE RunReadIgnored \/ RunReadEnded \/ RunReadFailed
  BY <1>1, ClosesOrStutters
  DEF RunReadIgnored, RunReadEnded, RunReadFailed, CloseSession, IsClosed
<1>2. CASE RunHeader
  <2>1. UNCHANGED <<reqSeq, delivered, flags>>
    BY <1>2 DEF RunHeader
  <2>2. NoReplay \/ \E by \in MayAnswer(reqSeq) : Answerable /\ HttpReplay(by)
    BY <1>2, HandleToWorkType DEF RunHeader, Whole, WantsContinue, HasBody, HttpInv
  <2> QED BY <2>1, <2>2, AnswersOrNot
<1>3. CASE RunBody \/ RunBodyTooLarge
  <2>1. UNCHANGED <<reqSeq, delivered, flags>>
    BY <1>3 DEF RunBody, RunBodyTooLarge
  <2>0. Server \in MayAnswer(reqSeq)
    BY Numbers, AuthorsType DEF HttpInv
  <2>2. NoReplay \/ \E by \in MayAnswer(reqSeq) : Answerable /\ HttpReplay(by)
    BY <1>3, <2>0, HandleToWorkType DEF RunBody, RunBodyTooLarge, HttpInv
  <2> QED BY <2>1, <2>2, AnswersOrNot
<1>4. CASE RunContinue
  BY <1>4, ClosesOrStutters DEF RunContinue, IsClosed
<1>5. CASE RunAnswer
  <2>0. ready # <<>> /\ Head(ready).kind = "answer" /\ UNCHANGED <<closing, sockOpen, history>>
    BY <1>5 DEF RunAnswer, Posted
  <2>1. CASE UNCHANGED request
    BY <1>5, <2>0, <2>1, ClosesOrStutters DEF RunAnswer, CloseSession, IsClosed
  <2>2. CASE /\ Head(ready).ec = "ok" /\ Head(ready).keep /\ ~IsClosed /\ Start
             /\ UNCHANGED stop
    <3>1. replied /\ delivered = reqSeq /\ answers[reqSeq].keep
      BY <2>0, <2>2, RestFacts DEF Told
    <3>2. Len(answers) = reqSeq
      BY <3>1 DEF HttpInv, HttpStructure, Counted
    <3>3. ~IsClosed' /\ reqSeq' = reqSeq + 1 /\ UNCHANGED <<answers, delivered>>
      BY <2>0, <2>2 DEF Start, IsClosed
    <3>4. ToExchange!NextRound
      BY <2>2, <3>1, <3>2, <3>3 DEF ToExchange!NextRound
    <3> QED BY <3>4 DEF ToExchange!Next
  <2> QED BY <1>5, <2>1, <2>2 DEF RunAnswer
<1>6. CASE RunReplay
  <2>1. ready # <<>> /\ Head(ready).kind = "replay" /\ UNCHANGED <<reqSeq, delivered, flags>>
    BY <1>6 DEF RunReplay, Posted
  <2>2. Head(ready).by \in MayAnswer(Head(ready).seq)
    BY <2>1, RestFacts DEF Told
  <2>3. NoReplay \/ \E by \in MayAnswer(reqSeq) : Answerable /\ HttpReplay(by)
    BY <1>6, <2>2 DEF RunReplay, Wanted
  <2> QED BY <2>1, <2>3, AnswersOrNot
<1>7. CASE RunSweep
  <2>1. UNCHANGED <<reqSeq, delivered, closing, sockOpen>>
    BY <1>7 DEF RunSweep
  <2>2. CASE NoReplay
    BY <1>7, <2>1, <2>2, ClosesOrStutters DEF RunSweep, Refuse, CloseSession, NoReplay, IsClosed
  <2>3. CASE Answerable /\ HttpReplay(Server) /\ UNCHANGED stop
    <3>1. Server \in MayAnswer(reqSeq)
      BY Numbers, AuthorsType DEF HttpInv
    <3> QED BY <2>1, <2>3, <3>1, AnswersOrNot
  <2> QED BY <1>7, <2>2, <2>3 DEF RunSweep, Refuse
<1>8. CASE RunClose \/ RunErr
  <2>1. UNCHANGED <<reqSeq, answers, delivered>>
    BY <1>8 DEF RunClose, RunErr
  <2>2. IsClosed => IsClosed'
    BY <1>8 DEF RunClose, RunErr, SocketClose, IsClosed
  <2> QED BY <2>1, <2>2, ClosesOrStutters
<1>9. CASE AsyncReplay \/ AskClose \/ MonitorPosts \/ Tick \/ ReadCompletes \/ ContinueCompletes
  <2>1. UNCHANGED <<reqSeq, answers, delivered>>
    BY <1>9
    DEF AsyncReplay, AskClose, MonitorPosts, Tick, ReadCompletes, ContinueCompletes
  <2>2. UNCHANGED flags \/ (stop' = TRUE /\ UNCHANGED <<closing, sockOpen>>)
    BY <1>9
    DEF AsyncReplay, AskClose, CloseSession, MonitorPosts, Tick, ReadCompletes, ContinueCompletes
  <2>3. IsClosed => IsClosed'
    BY <2>2 DEF IsClosed
  <2> QED BY <2>1, <2>3, ClosesOrStutters
<1>10. CASE AnswerCompletes
  <2>1. /\ writes # <<>> /\ UNCHANGED <<reqSeq, answers, flags>>
        /\ delivered' = delivered + 1 \/ delivered' = delivered
    BY <1>10 DEF AnswerCompletes
  <2>2. ~IsClosed' <=> ~IsClosed
    BY <2>1 DEF IsClosed
  <2>3. delivered < Len(answers)
    <3>1. Len(writes) > 0
      BY <2>1, Numbers DEF HttpInv
    <3>2. replied
      BY <3>1 DEF HttpInv, HttpStructure, OneResponse, Outstanding
    <3>3. delivered = reqSeq - 1 /\ Len(answers) = reqSeq
      BY <2>1, <3>2 DEF HttpInv, HttpStructure, Counted
    <3> QED BY <3>3, Numbers DEF HttpInv
  <2>4. CASE delivered' = delivered + 1
    <3>1. ToExchange!Deliver
      BY <2>1, <2>2, <2>3, <2>4 DEF ToExchange!Deliver
    <3> QED BY <3>1 DEF ToExchange!Next
  <2>5. CASE delivered' = delivered
    BY <2>1, <2>2, <2>5, ClosesOrStutters
  <2> QED BY <2>1, <2>4, <2>5
<1>11. CASE UNCHANGED httpVars
  BY <1>11, ClosesOrStutters DEF httpVars, IsClosed
<1> QED
  BY <1>1, <1>2, <1>3, <1>4, <1>5, <1>6, <1>7, <1>8, <1>9, <1>10, <1>11
  DEF Next, RunHandler, RunRead

\* One answer per request, and the next request only after all of it was sent.  A
\* late asynchronous answer that names its request is never given to another; one
\* that names none is given to the request it means or to a later one
\* (NetHttpServer.h:136).
THEOREM SessionIsExchange == HttpSpec => ExchangeSafe
<1>1. Init => ToExchange!Init
  BY DEF Init, ToExchange!Init, IsClosed
<1> QED BY <1>1, ExchangeStep, Invariance, PTL DEF HttpSpec, ExchangeSafe, ToExchange!SafeSpec


\* Who answered, as the exchange allows it.
AnswersKept ==
    /\ reqSeq \in Nat /\ answers \in Seq([by : Authors, keep : BOOLEAN])
    /\ delivered \in Nat /\ delivered <= Len(answers)
    /\ Len(answers) \in {reqSeq - 1, reqSeq}
    /\ \A i \in 1..Len(answers) : answers[i].by \in MayAnswer(i)
    /\ \A i \in 1..reqSeq - 1 : i <= delivered /\ answers[i].keep

LEMMA ExchangeKeeps ==
  AnswersKept /\ [ToExchange!Next]_ToExchange!exchVars => AnswersKept'
<1> SUFFICES ASSUME AnswersKept, [ToExchange!Next]_ToExchange!exchVars PROVE AnswersKept'
  OBVIOUS
<1> DEFINE A == [by : Authors, keep : BOOLEAN]
<1>1. /\ reqSeq \in Nat /\ answers \in Seq(A) /\ delivered \in Nat /\ Len(answers) \in Nat
      /\ delivered <= Len(answers) /\ Len(answers) \in {reqSeq - 1, reqSeq}
  BY DEF AnswersKept
<1>2. CASE ToExchange!Answer
  <2>1. PICK by \in MayAnswer(reqSeq), keep \in BOOLEAN :
           answers' = Append(answers, [by |-> by, keep |-> keep])
    BY <1>2, SameAuthors DEF ToExchange!Answer
  <2> DEFINE a == [by |-> by, keep |-> keep]
  <2>11. by \in Authors
    BY <1>1, <2>1, AuthorsType
  <2>2. a \in A /\ a.by \in MayAnswer(reqSeq)
    BY <2>1, <2>11
  <2> HIDE DEF a, A
  <2>3. Len(answers) = reqSeq - 1 /\ UNCHANGED <<reqSeq, delivered>>
    BY <1>2 DEF ToExchange!Answer
  <2>4. /\ answers' \in Seq(A) /\ Len(answers') = Len(answers) + 1
        /\ answers'[Len(answers) + 1] = a
        /\ \A i \in 1..Len(answers) : answers'[i] = answers[i]
    BY <1>1, <2>1, <2>2 DEF a
  <2>5. Len(answers') = reqSeq
    BY <1>1, <2>3, <2>4
  <2>6. \A i \in 1..reqSeq : i = reqSeq \/ i \in 1..Len(answers)
    BY <1>1, <2>3
  <2>7. answers'[reqSeq] = a
    BY <1>1, <2>3, <2>4
  <2>8. \A i \in 1..Len(answers') : answers'[i].by \in MayAnswer(i)
    BY <2>2, <2>4, <2>5, <2>6, <2>7 DEF AnswersKept
  <2>9. \A i \in 1..reqSeq - 1 : i <= delivered /\ answers'[i].keep
    BY <2>3, <2>4 DEF AnswersKept
  <2>10. delivered <= Len(answers')
    BY <1>1, <2>4
  <2> QED BY <1>1, <2>3, <2>4, <2>5, <2>8, <2>9, <2>10 DEF AnswersKept, A
<1>3. CASE ToExchange!Deliver
  <2>1. delivered' = delivered + 1 /\ delivered < Len(answers) /\ UNCHANGED <<reqSeq, answers>>
    BY <1>3 DEF ToExchange!Deliver
  <2>2. delivered' \in Nat /\ delivered' <= Len(answers') /\ delivered <= delivered'
    BY <1>1, <2>1
  <2>3. \A i \in 1..reqSeq - 1 : i <= delivered' /\ answers[i].keep
    BY <1>1, <2>2 DEF AnswersKept
  <2> QED BY <1>1, <2>1, <2>2, <2>3 DEF AnswersKept
<1>4. CASE ToExchange!NextRound
  <2>1. /\ reqSeq' = reqSeq + 1 /\ Len(answers) = reqSeq /\ delivered = reqSeq
        /\ answers[reqSeq].keep /\ UNCHANGED <<answers, delivered>>
    BY <1>4 DEF ToExchange!NextRound
  <2>2. \A i \in 1..reqSeq' - 1 : i = reqSeq \/ i \in 1..reqSeq - 1
    BY <1>1, <2>1
  <2>3. \A i \in 1..reqSeq' - 1 : i <= delivered /\ answers[i].keep
    BY <1>1, <2>1, <2>2 DEF AnswersKept
  <2>4. reqSeq' \in Nat /\ Len(answers) = reqSeq' - 1
    BY <1>1, <2>1
  <2> QED BY <1>1, <2>1, <2>3, <2>4 DEF AnswersKept
<1>5. CASE ToExchange!Close
  BY <1>5 DEF ToExchange!Close, AnswersKept
<1>6. CASE UNCHANGED ToExchange!exchVars
  BY <1>6 DEF ToExchange!exchVars, AnswersKept
<1> QED BY <1>2, <1>3, <1>4, <1>5, <1>6 DEF ToExchange!Next

LEMMA ExchangeInitKept == ToExchange!Init => AnswersKept
<1>1. <<>> \in Seq([by : Authors, keep : BOOLEAN]) /\ Len(<<>>) = 0
  OBVIOUS
<1> QED BY <1>1 DEF ToExchange!Init, AnswersKept

\* The i-th answer on the connection is the server's own or the business's.  If the
\* business named a request, it is the i-th, otherwise it meant the i-th or an
\* earlier one.  And a request is at hand only when every answer before it was
\* transmitted whole and kept the connection alive.
AnswersInPlace ==
    /\ \A i \in 1..Len(answers) :
         answers[i].by # Server =>
            /\ answers[i].by.meant \in 1..i
            /\ answers[i].by.named => answers[i].by.meant = i
    /\ \A i \in 1..reqSeq - 1 : i <= delivered /\ answers[i].keep

\* Whatever the order of late asynchronous answers, timeouts and closes, an answer
\* that names its request reaches that one alone, and one that names none never
\* reaches a request before the one it means (NetHttpServer.cpp:422-467).
THEOREM NamedAnswersFindTheirRequest == HttpSpec => []AnswersInPlace
<1>1. ASSUME NEW i \in Nat \ {0}, NEW by \in MayAnswer(i), by # Server
      PROVE  by.meant \in 1..i /\ (by.named => by.meant = i)
  <2>1. CASE by = Named(i)
    BY <2>1 DEF Named
  <2>2. CASE \E m \in 1..i : by = Unnamed(m)
    BY <2>2 DEF Unnamed
  <2> QED BY <1>1, <2>1, <2>2 DEF MayAnswer
<1>2. AnswersKept => AnswersInPlace
  <2> SUFFICES ASSUME AnswersKept PROVE AnswersInPlace
    OBVIOUS
  <2>1. \A i \in 1..Len(answers) : i \in Nat \ {0} /\ answers[i].by \in MayAnswer(i)
    BY DEF AnswersKept
  <2> QED BY <1>1, <2>1 DEF AnswersKept, AnswersInPlace
<1> QED BY <1>2, SessionIsExchange, ExchangeInitKept, ExchangeKeeps, PTL
        DEF ExchangeSafe, ToExchange!SafeSpec

===========================================================================
