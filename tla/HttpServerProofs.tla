-------------------------- MODULE HttpServerProofs -------------------------
(***************************************************************************)
(* What holds of the HTTP server whatever the limit, the timeout and the   *)
(* peers are, and however often it is started, stopped and called.  Where  *)
(* it does what Server does, the lemmas of TcpServerProofs are used.       *)
(***************************************************************************)
EXTENDS HttpServer, TcpServerProofs

-----------------------------------------------------------------------------
(* The inductive invariant: the server's own, and what is HTTP's.          *)

\* A close never waits for a response.
NeverClosing == \A c \in Conns : phase[c] # "closing"

FinalSound == final \subseteq {c \in Conns : owes[c] /\ Live(c)}

\* A close that was asked for is in the queue until the connection is closed.
CloseOf(c)  == Handler("close", c, "ok")
CloseWaits  == \A c \in Conns : Live(c) /\ stop[c] => CloseOf(c) \in ToSet(ready)

\* Nobody closes a connection that was not accepted.
Fresh == \A c \in Conns : ~Known(c) => ~stop[c]

HttpConns == FinalSound /\ NeverClosing /\ CloseWaits /\ HttpNoEscape /\ Fresh

Accepting == running => Loops >= 1

HttpInv == SrvInv /\ HttpConns /\ Accepting

-----------------------------------------------------------------------------
(* How the HTTP part is carried from state to state.                       *)

\* No close is taken out of the queue.
ClosesKept == \A h \in ToSet(ready) : h.kind = "close" => h \in ToSet(ready')

LEMMA CloseOfFields ==
  ASSUME NEW c \in Conns
  PROVE  CloseOf(c).kind = "close" /\ CloseOf(c).conn = c /\ CloseOf(c) \in Handlers
  BY HandlerType DEF CloseOf

LEMMA ConnsKept ==
  ASSUME HttpConns, UNCHANGED <<perConn, sessions, final>>, ClosesKept
  PROVE  HttpConns'
<1>1. FinalSound' /\ NeverClosing' /\ HttpNoEscape' /\ Fresh'
  BY DEF HttpConns, FinalSound, NeverClosing, HttpNoEscape, Fresh, Live, Known, perConn
<1>2. CloseWaits'
  BY CloseOfFields DEF HttpConns, CloseWaits, ClosesKept, Live, perConn, CloseOf, Handler
<1> QED BY <1>1, <1>2 DEF HttpConns

\* Connections that were waiting to be accepted are refused or opened.
LEMMA ConnsArrived ==
  ASSUME HttpConns, UNCHANGED <<owes, stop, final>>, ClosesKept, sessions \subseteq sessions',
         \A c \in Conns : \/ phase'[c] = phase[c]
                          \/ phase[c] \in {"away", "arriving"} /\ phase'[c] \in {"arriving", "closed"}
                          \/ phase[c] = "arriving" /\ phase'[c] = "open" /\ c \in sessions'
  PROVE  HttpConns'
<1>1. FinalSound' /\ NeverClosing' /\ HttpNoEscape' /\ Fresh'
  BY DEF HttpConns, FinalSound, NeverClosing, HttpNoEscape, Fresh, Live, Known
<1>2. CloseWaits'
  <2> SUFFICES ASSUME NEW c \in Conns, Live(c)', stop'[c] PROVE CloseOf(c) \in ToSet(ready')
    BY DEF CloseWaits, CloseOf, Handler
  <2>1. Live(c) /\ stop[c]
    BY DEF HttpConns, Fresh, Live, Known
  <2> QED BY <2>1, CloseOfFields DEF HttpConns, CloseWaits, ClosesKept
<1> QED BY <1>1, <1>2 DEF HttpConns

\* closeSession() for the connections of C, behind a queue that holds the closes
\* which were waiting.
LEMMA ConnsClosed ==
  ASSUME SrvInv, HttpConns, NEW C \in SUBSET Conns, \A c \in C : Known(c),
         NEW r \in Seq(Handlers), CloseSessions(C, r),
         \A h \in ToSet(ready) : h.kind = "close" => h \in ToSet(r),
         phase' = phase, FinalSound',
         \A c \in sessions : Live(c) /\ ~stop'[c] => c \in sessions'
  PROVE  HttpConns'
<1>1. /\ \A c \in Conns : stop'[c] <=> stop[c] \/ c \in C
      /\ ToSet(ready') = ToSet(r) \cup Closes(C)
  BY CloseSessionsQueue DEF SrvInv
<1>2. NeverClosing' /\ HttpNoEscape' /\ Fresh'
  BY <1>1 DEF HttpConns, NeverClosing, HttpNoEscape, Fresh, Live, Known
<1>3. CloseWaits'
  <2> SUFFICES ASSUME NEW c \in Conns, Live(c)', stop'[c] PROVE CloseOf(c) \in ToSet(ready')
    BY DEF CloseWaits, CloseOf, Handler
  <2>1. CASE stop[c]
    BY <1>1, <2>1, CloseOfFields DEF HttpConns, CloseWaits, Live
  <2>2. CASE c \in C
    BY <1>1, <2>2 DEF Closes, Posts, CloseOf
  <2> QED BY <1>1, <2>1, <2>2
<1> QED BY <1>2, <1>3 DEF HttpConns

\* A connection ends, or only its ages and responses change.
LEMMA ConnsEnded ==
  ASSUME HttpConns, FinalSound', UNCHANGED <<stop, sessions>>,
         \A c \in Conns : phase'[c] = phase[c] \/ (Live(c) /\ phase'[c] = "closed"),
         \A h \in ToSet(ready) : h.kind = "close" => h \in ToSet(ready') \/ ~Live(h.conn)'
  PROVE  HttpConns'
<1>1. NeverClosing' /\ HttpNoEscape' /\ Fresh'
  BY DEF HttpConns, NeverClosing, HttpNoEscape, Fresh, Live, Known
<1>2. CloseWaits'
  <2> SUFFICES ASSUME NEW c \in Conns, Live(c)', stop'[c] PROVE CloseOf(c) \in ToSet(ready')
    BY DEF CloseWaits, CloseOf, Handler
  <2>1. CloseOf(c) \in ToSet(ready)
    BY DEF HttpConns, CloseWaits, Live
  <2>2. CloseOf(c).kind = "close" /\ CloseOf(c).conn = c
    BY CloseOfFields
  <2> QED BY <2>1, <2>2
<1> QED BY <1>1, <1>2 DEF HttpConns

-----------------------------------------------------------------------------
(* The owner's thread and the monitor's.                                   *)

\* All of its connections are in closeAll()'s table.
LEMMA CloseAllConns ==
  ASSUME HttpInv, NEW r \in Seq(Handlers), CloseAll(r), UNCHANGED <<phase, owes, final>>,
         \A h \in ToSet(ready) : h.kind = "close" => h \in ToSet(r)
  PROVE  HttpConns'
<1>1. /\ \A c \in Conns : stop'[c] <=> stop[c] \/ c \in sessions
      /\ ToSet(r) \cup Closes(sessions) \subseteq ToSet(ready')
  BY CloseAllQueue DEF HttpInv, SrvInv
<1>2. FinalSound' /\ NeverClosing'
  BY DEF HttpInv, HttpConns, FinalSound, NeverClosing, Live
<1>3. HttpNoEscape'
  BY <1>1 DEF HttpInv, HttpConns, HttpNoEscape, Live
<1>4. Fresh'
  BY <1>1 DEF HttpInv, HttpConns, SrvInv, TableSound, Fresh, Known
<1>5. CloseWaits'
  <2> SUFFICES ASSUME NEW c \in Conns, Live(c)', stop'[c] PROVE CloseOf(c) \in ToSet(ready')
    BY DEF CloseWaits, CloseOf, Handler
  <2>1. CASE stop[c]
    BY <1>1, <2>1, CloseOfFields DEF HttpInv, HttpConns, CloseWaits, Live
  <2>2. CASE c \in sessions
    BY <1>1, <2>2 DEF Closes, Posts, CloseOf
  <2> QED BY <1>1, <2>1, <2>2
<1> QED BY <1>2, <1>3, <1>4, <1>5 DEF HttpConns

LEMMA HttpStartInv == ASSUME HttpInv, HttpStart \/ HttpStartFails PROVE HttpInv'
<1>1. (Start \/ StartFails) /\ final' = final
  BY DEF HttpStart, HttpStartFails, Shared
<1>2. SrvInv'
  BY <1>1, StartInv, StartFailsInv DEF HttpInv
<1>3. HttpConns'
  BY <1>1, ConnsKept DEF HttpInv, Start, StartFails, ClosesKept
<1>4. Accepting'
  <2>1. CASE Start
    <3>1. Loops \in Nat /\ Loops' = Loops + 1
      BY <2>1, RoundsType DEF HttpInv, SrvInv, Start, Loops, Rounds
    <3> QED BY <3>1 DEF Accepting
  <2>2. CASE StartFails
    BY <2>2 DEF StartFails, Startable, Accepting
  <2> QED BY <1>1, <2>1, <2>2
<1> QED BY <1>2, <1>3, <1>4 DEF HttpInv

LEMMA HttpStopInv == ASSUME HttpInv, HttpStop PROVE HttpInv'
<1>1. Stop /\ final' = final /\ ~running' /\ UNCHANGED <<phase, owes, idle>>
  BY DEF HttpStop, Shared, Stop
<1>2. SrvInv'
  BY <1>1, StopInv DEF HttpInv
<1>3. HttpConns'
  <2>1. CASE launched
    <3>1. /\ ready' = Append(ready, Handler("closeAll", NoConn, "ok"))
          /\ UNCHANGED <<perConn, sessions, final>>
      BY <1>1, <2>1 DEF Stop, perConn
    <3>2. ToSet(ready) \subseteq ToSet(ready')
      BY <3>1, HandlerType, AppendQueue, WholeQueue DEF HttpInv
    <3> QED BY <3>1, <3>2, ConnsKept DEF HttpInv, ClosesKept
  <2>2. CASE ~launched
    <3>1. CloseAll(ready)
      BY <1>1, <2>2 DEF Stop
    <3> QED BY <1>1, <3>1, CloseAllConns, WholeQueue DEF HttpInv
  <2> QED BY <2>1, <2>2
<1> QED BY <1>1, <1>2, <1>3 DEF HttpInv, Accepting

LEMMA ClearHttpSessionInv == ASSUME HttpInv, ClearHttpSession PROVE HttpInv'
<1>1. /\ Monitor /\ UNCHANGED <<perConn, sessions, final, running, accepts, retries>>
      /\ ready' = ready \/ ready' = Append(ready, Handler("sweep", NoConn, "ok"))
  BY DEF ClearHttpSession, Shared, Monitor, MonitorWakes, MonitorPosts, listener
<1>2. SrvInv'
  BY <1>1, MonitorInv DEF HttpInv
<1>3. ToSet(ready) \subseteq ToSet(ready') /\ Rounds' = Rounds
  <2>1. Handler("sweep", NoConn, "ok") \in Handlers /\ Handler("sweep", NoConn, "ok").kind = "sweep"
    BY HandlerType
  <2>2. CASE ready' = ready
    BY <2>2 DEF Rounds
  <2>3. CASE ready' = Append(ready, Handler("sweep", NoConn, "ok"))
    BY <2>1, <2>3, AppendQueue, WholeQueue, RoundsType DEF HttpInv, SrvInv, Rounds
  <2> QED BY <1>1, <2>2, <2>3
<1>4. HttpConns'
  BY <1>1, <1>3, ConnsKept DEF HttpInv, ClosesKept
<1>5. Loops' = Loops
  BY <1>1, <1>3 DEF Loops, Rounds
<1> QED BY <1>1, <1>2, <1>4, <1>5 DEF HttpInv, Accepting

-----------------------------------------------------------------------------
(* The acceptor's handlers.                                                *)

\* Running the head of the queue takes no close out, unless it is one.
LEMMA RestKeepsCloses ==
  ASSUME SrvInv, ready # <<>>, Head(ready).kind # "close", ToSet(Rest) \subseteq ToSet(ready')
  PROVE  ClosesKept
  BY RestQueue DEF SrvInv, ClosesKept

LEMMA HttpAcceptsInv == ASSUME HttpInv, HttpAcceptRefused \/ HttpAccept, final' = final PROVE HttpInv'
<1> DEFINE h == Head(ready)
<1>1. /\ AcceptRefused \/ Accept
      /\ AcceptHandler("ok") /\ running /\ running' = running /\ StartAccept(Rest)
      /\ UNCHANGED <<running, launched, acceptor, retries, stop, starts, stops>>
      /\ UNCHANGED <<owes, stop, final>>
      /\ \/ phase' = [phase EXCEPT ![h.conn] = "closed"] /\ sessions' = sessions
         \/ phase' = [phase EXCEPT ![h.conn] = "open"] /\ sessions' = sessions \cup {h.conn}
  BY DEF HttpAcceptRefused, HttpAccept, AcceptRefused, Accept, HttpTooMany, TooMany, bounds
<1>2. SrvInv'
  BY <1>1, AcceptRefusedInv, AcceptInv DEF HttpInv
<1>3. Loops' = Loops /\ ToSet(Rest) \subseteq ToSet(ready')
  BY <1>1, NextAcceptInv DEF HttpInv, AcceptHandler
<1>4. ready # <<>> /\ h.kind = "accept" /\ h.conn \in Conns /\ phase[h.conn] = "arriving"
  <2>1. ready # <<>> /\ h.kind = "accept" /\ h.ec = "ok"
    BY <1>1 DEF AcceptHandler, Posted
  <2> QED BY <2>1, RestQueue DEF HttpInv, SrvInv, Sound, ArrivalSound
<1>5. ClosesKept
  BY <1>3, <1>4, RestKeepsCloses DEF HttpInv
<1>6. /\ sessions \subseteq sessions'
      /\ \A c \in Conns : \/ phase'[c] = phase[c]
                          \/ phase[c] \in {"away", "arriving"} /\ phase'[c] \in {"arriving", "closed"}
                          \/ phase[c] = "arriving" /\ phase'[c] = "open" /\ c \in sessions'
  BY <1>1, <1>4 DEF HttpInv, SrvInv, SrvTypeOK
<1>7. HttpConns'
  BY <1>1, <1>5, <1>6, ConnsArrived DEF HttpInv
<1> QED BY <1>1, <1>2, <1>3, <1>7 DEF HttpInv, Accepting

LEMMA HttpAcceptStoppedInv == ASSUME HttpInv, AcceptStopped, final' = final PROVE HttpInv'
<1> DEFINE h == Head(ready)
<1>1. /\ ready # <<>> /\ h.kind = "accept" /\ ~running' /\ ready' = Rest
      /\ phase' = [c \in Conns |-> IF c = h.conn THEN "closed" ELSE phase[c]]
      /\ UNCHANGED <<sessions, owes, stop, final>>
  BY DEF AcceptStopped, Posted
<1>2. SrvInv'
  BY AcceptStoppedInv DEF HttpInv
<1>3. ClosesKept
  BY <1>1, RestKeepsCloses DEF HttpInv
<1>4. Sound(h)
  BY <1>1, RestQueue DEF HttpInv, SrvInv
<1>5. \A c \in Conns : \/ phase'[c] = phase[c]
                       \/ phase[c] \in {"away", "arriving"} /\ phase'[c] \in {"arriving", "closed"}
  BY <1>1, <1>4, ServerAssumption DEF Sound, ArrivalSound
<1>6. HttpConns'
  BY <1>1, <1>3, <1>5, ConnsArrived DEF HttpInv
<1> QED BY <1>1, <1>2, <1>6 DEF HttpInv, Accepting

\* The listener is gone, or the accept is tried again.
LEMMA HttpAcceptEndedInv ==
  ASSUME HttpInv, AcceptUseless \/ HttpAcceptFailed, final' = final
  PROVE  HttpInv'
<1> DEFINE h == Head(ready)
<1>1. /\ ready # <<>> /\ h.kind = "accept" /\ ready' = Rest
      /\ UNCHANGED <<monitor, launched, acceptor, accepts, sessions, perConn, bounds>>
  BY DEF AcceptUseless, HttpAcceptFailed, AcceptHandler, Posted, listener
<1>2. /\ ready' \in Seq(Handlers) /\ ToSet(ready') \subseteq ToSet(ready)
      /\ OneArrival(ready') /\ Rounds' \in Nat /\ Rounds = Rounds' + 1
  BY <1>1, OnlyRest DEF HttpInv
<1>3. ClosesKept
  BY <1>1, RestKeepsCloses DEF HttpInv
<1>4. HttpConns'
  BY <1>1, <1>3, ConnsKept DEF HttpInv
<1>5. CASE AcceptUseless
  <2>1. RunAccept /\ ~running'
    BY <1>5 DEF RunAccept, AcceptUseless
  <2> QED BY <1>4, <2>1, RunAcceptInv DEF HttpInv, Accepting
<1>6. CASE HttpAcceptFailed
  <2>1. h.ec \in {"error", "operation_aborted"}
    <3>1. h \in Handlers
      BY <1>1, RestQueue DEF HttpInv, SrvInv
    <3> QED BY <1>6, <3>1 DEF HttpAcceptFailed, Handlers
  <2>2. retries' = retries + 1 /\ running' = running
    BY <1>6, <2>1 DEF HttpAcceptFailed, HttpRetried
  <2>3. retries' \in Nat
    BY <2>2 DEF HttpInv, SrvInv, SrvTypeOK
  <2>4. SrvTypeOK'
    BY <1>1, <1>2, <2>2, <2>3 DEF HttpInv, SrvInv, SrvTypeOK, perConn, bounds
  <2>5. QueueSound' /\ TableSound' /\ ClosingIsTimed' /\ TableBounded'
    BY <1>1, <1>2, ConnsUntouched DEF HttpInv
  <2>6. Loops' = Loops
    BY <1>1, <1>2, <2>2, RoundsType DEF HttpInv, SrvInv, Loops, Rounds
  <2>7. FirstRun' /\ LoopsBounded' /\ Accepting'
    BY <1>1, <1>2, <2>2, <2>6 DEF HttpInv, SrvInv, FirstRun, LoopsBounded, Accepting, bounds
  <2> QED BY <1>4, <2>4, <2>5, <2>7 DEF HttpInv, SrvInv
<1> QED BY <1>5, <1>6

LEMMA HttpRunAcceptInv == ASSUME HttpInv, HttpRunAccept PROVE HttpInv'
  BY HttpAcceptsInv, HttpAcceptStoppedInv, HttpAcceptEndedInv DEF HttpRunAccept, Shared

LEMMA HttpRetryInv == ASSUME HttpInv, HttpRetry PROVE HttpInv'
<1>1. /\ Retry /\ retries' = retries - 1 /\ retries > 0
      /\ UNCHANGED <<running, perConn, sessions, final>>
  BY DEF HttpRetry, Shared, Retry
<1>2. SrvInv'
  BY <1>1, RetryInv DEF HttpInv
<1>3. accepts \in Nat /\ retries \in Nat /\ Rounds \in Nat
  BY RoundsType DEF HttpInv, SrvInv
<1>4. CASE ~running
  <2>1. ready' = ready /\ ~running'
    BY <1>1, <1>4 DEF Retry
  <2>2. HttpConns'
    BY <1>1, <2>1, ConnsKept DEF HttpInv, ClosesKept
  <2> QED BY <1>2, <2>1, <2>2 DEF HttpInv, Accepting
<1>5. CASE running
  <2>1. /\ ToSet(ready) \subseteq ToSet(ready')
        /\ \/ accepts' = accepts + 1 /\ Rounds' = HowMany(ready, {"accept"})
           \/ accepts' = accepts /\ Rounds' = HowMany(ready, {"accept"}) + 1
    BY <1>1, <1>5, StartAcceptQueue, WholeQueue DEF HttpInv, SrvInv, Retry
  <2>2. HttpConns'
    BY <1>1, <2>1, ConnsKept DEF HttpInv, ClosesKept
  <2>3. Loops' = Loops
    <3>1. CASE accepts' = accepts + 1 /\ Rounds' = HowMany(ready, {"accept"})
      BY <1>1, <1>3, <3>1 DEF Loops, Rounds
    <3>2. CASE accepts' = accepts /\ Rounds' = HowMany(ready, {"accept"}) + 1
      BY <1>1, <1>3, <3>2 DEF Loops, Rounds
    <3> QED BY <2>1, <3>1, <3>2
  <2> QED BY <1>1, <1>2, <2>2, <2>3 DEF HttpInv, Accepting
<1> QED BY <1>4, <1>5

-----------------------------------------------------------------------------
(* The sweep, closeHttpAll() and the sessions' posts.                      *)

LEMMA HttpSweepInv == ASSUME HttpInv, HttpSweep PROVE HttpInv'
<1> DEFINE late == {c \in sessions : TimedOut(c)}
           told == {c \in late : Answerable(c)}
           shut == late \ told
<1>1. /\ ready # <<>> /\ Head(ready).kind = "sweep"
      /\ CloseSessions(shut, Rest) /\ Answers(told, told)
      /\ \E quiet \in SUBSET told :
           idle' = [c \in Conns |-> IF c \in quiet THEN 0 ELSE idle[c]]
      /\ sessions' = {c \in sessions : Remembered(c)}
      /\ UNCHANGED <<running, monitor, launched, acceptor, accepts, retries, phase,
                     starts, stops, calls, errors>>
  BY DEF HttpSweep, Posted, listener, bounds
<1>2. /\ Rest \in Seq(Handlers) /\ ToSet(Rest) \subseteq ToSet(ready) /\ OneArrival(Rest)
      /\ Rounds = HowMany(Rest, {"accept"}) /\ Rounds \in Nat
      /\ \A h \in ToSet(ready) : h.kind = "close" => h \in ToSet(Rest)
  BY <1>1, RestQueue DEF HttpInv, SrvInv
<1>3. shut \in SUBSET Conns /\ (\A c \in shut : Known(c)) /\ told \subseteq Conns
  BY DEF HttpInv, SrvInv, SrvTypeOK, TableSound
<1>4. owes' \in [Conns -> BOOLEAN] /\ idle' \in [Conns -> 0..timeOut + 1] /\ calls' \in 0..MaxCalls
  BY SMTT(20), <1>1, ServerAssumption DEF Answers, HttpInv, SrvInv, SrvTypeOK
<1>5. FinalSound'
  BY <1>1, <1>3 DEF Answers, Answerable, IsClosed, HttpInv, HttpConns, FinalSound, Live
<1>6. \A c \in sessions : Live(c) /\ ~stop'[c] => c \in sessions'
  BY <1>1 DEF Remembered, HttpInv, HttpConns, SrvInv, SrvTypeOK, NeverClosing, Live
<1> HIDE DEF late, told, shut
<1>7. SrvInv'
  BY <1>1, <1>2, <1>3, <1>4, ClosesInv DEF HttpInv
<1>8. HttpConns'
  BY <1>1, <1>2, <1>3, <1>5, <1>6, ConnsClosed DEF HttpInv
<1>9. Rounds' = Rounds
  BY <1>1, <1>2, <1>3, CloseSessionsQueue DEF HttpInv, SrvInv
<1>10. Loops' = Loops
  BY <1>1, <1>9 DEF Loops, Rounds
<1> QED BY <1>1, <1>7, <1>8, <1>10 DEF HttpInv, Accepting

LEMMA HttpRunCloseAllInv == ASSUME HttpInv, HttpRunCloseAll PROVE HttpInv'
<1>1. /\ RunCloseAll /\ ready # <<>> /\ Head(ready).kind = "closeAll" /\ CloseAll(Rest)
      /\ UNCHANGED <<running, retries, phase, owes, final>>
  BY DEF HttpRunCloseAll, CloseHttpAll, RunCloseAll, Posted
<1>2. SrvInv'
  BY <1>1, RunCloseAllInv DEF HttpInv
<1>3. /\ Rest \in Seq(Handlers) /\ Rounds = HowMany(Rest, {"accept"})
      /\ \A h \in ToSet(ready) : h.kind = "close" => h \in ToSet(Rest)
  BY <1>1, RestQueue DEF HttpInv, SrvInv
<1>4. HttpConns'
  BY <1>1, <1>3, CloseAllConns
<1>5. accepts' = 0 /\ Rounds' = accepts + Rounds /\ accepts \in Nat /\ Rounds \in Nat
      /\ retries \in Nat
  BY <1>1, <1>3, CloseAllQueue, RoundsType DEF HttpInv, SrvInv
<1>6. Loops' = Loops
  BY <1>1, <1>5 DEF Loops, Rounds
<1> QED BY <1>1, <1>2, <1>4, <1>6 DEF HttpInv, Accepting

LEMMA HttpRunCloseInv == ASSUME HttpInv, HttpRunClose PROVE HttpInv'
<1>1. /\ ready # <<>> /\ Head(ready).kind = "close" /\ ready' = Rest
      /\ Dropped({Head(ready).conn}) /\ final' = final \ {Head(ready).conn}
      /\ UNCHANGED <<running, monitor, launched, acceptor, accepts, retries, sessions, idle,
                     stop, waited, starts, stops, calls, errors>>
  BY DEF HttpRunClose, Posted, listener, bounds
<1>2. PICK d \in Conns : d = Head(ready).conn
  BY <1>1, RestQueue DEF HttpInv, SrvInv, Sound, PostSound
<1>3. /\ ready' \in Seq(Handlers) /\ ToSet(ready') \subseteq ToSet(ready)
      /\ OneArrival(ready') /\ Rounds' \in Nat /\ Rounds' = Rounds
      /\ \A g \in ToSet(ready) : g.conn # d => g \in ToSet(ready')
  BY <1>1, <1>2, OnlyRest, RestQueue DEF HttpInv, SrvInv
<1>4. /\ phase' \in [Conns -> {"away", "arriving", "open", "closing", "closed"}]
      /\ owes' \in [Conns -> BOOLEAN]
      /\ \A c \in Conns : phase'[c] = phase[c] \/ (Live(c) /\ phase'[c] = "closed")
      /\ \A c \in Conns : c # d => phase'[c] = phase[c] /\ owes'[c] = owes[c]
      /\ ~Live(d)'
  BY <1>1, <1>2 DEF Dropped, Live, HttpInv, SrvInv, SrvTypeOK
<1>5. SrvTypeOK'
  BY <1>1, <1>3, <1>4 DEF HttpInv, SrvInv, SrvTypeOK
<1>6. \A c \in Conns : Onward(c)
  BY <1>1, <1>4 DEF Onward, Known, Live
<1>7. QueueSound'
  BY <1>3, <1>6, QueueKept DEF HttpInv, SrvInv
<1>8. TableSound' /\ TableBounded'
  BY <1>1, <1>6, TableKept DEF HttpInv, SrvInv
<1>9. ClosingIsTimed'
  BY <1>1, <1>4 DEF HttpInv, SrvInv, ClosingIsTimed, Live
<1>10. FirstRun' /\ LoopsBounded' /\ Loops' = Loops
  BY <1>1, <1>3, LoopsUntouched DEF HttpInv
<1>11. FinalSound'
  BY <1>1, <1>2, <1>4 DEF HttpInv, HttpConns, FinalSound, Live
<1>12. \A g \in ToSet(ready) : g.kind = "close" => g \in ToSet(ready') \/ ~Live(g.conn)'
  BY <1>3, <1>4
<1>13. HttpConns'
  BY <1>1, <1>4, <1>11, <1>12, ConnsEnded DEF HttpInv
<1> QED BY <1>1, <1>5, <1>7, <1>8, <1>9, <1>10, <1>13 DEF HttpInv, SrvInv, Accepting

-----------------------------------------------------------------------------
(* The business, the peers and the clock.                                  *)

\* The connection ends, or only its responses and its ages change.
LEMMA HttpPeerInv ==
  ASSUME HttpInv, SrvTypeOK', FinalSound',
         \A c \in Conns : phase'[c] = phase[c] \/ (Live(c) /\ phase'[c] = "closed"),
         UNCHANGED <<running, launched, acceptor, accepts, retries, sessions, ready, stop,
                     starts, stops>>
  PROVE  HttpInv'
<1>1. SrvInv'
  BY PeerInv DEF HttpInv
<1>2. HttpConns'
  BY ConnsEnded DEF HttpInv
<1>3. Loops' = Loops
  BY DEF Loops
<1> QED BY <1>1, <1>2, <1>3 DEF HttpInv, Accepting

\* closeSession() from a handler that was not posted, or from a call.
LEMMA HttpClosesInv ==
  ASSUME HttpInv, NEW c \in Conns, Known(c), CloseSessions({c}, ready),
         FinalSound', owes' \in [Conns -> BOOLEAN], idle' \in [Conns -> 0..timeOut + 1],
         UNCHANGED <<running, monitor, launched, acceptor, accepts, retries, sessions, phase,
                     starts, stops, calls, errors>>
  PROVE  HttpInv'
<1>1. {c} \in SUBSET Conns /\ (\A d \in {c} : Known(d)) /\ SrvTypeOK
  BY DEF HttpInv, SrvInv
<1>2. ready \in Seq(Handlers) /\ OneArrival(ready) /\ HowMany(ready, {"accept"}) = Rounds
  BY WholeQueue DEF HttpInv
<1>3. calls' \in 0..MaxCalls
  BY <1>1 DEF SrvTypeOK
<1>4. SrvInv'
  BY <1>1, <1>2, <1>3, ClosesInv DEF HttpInv
<1>5. HttpConns'
  BY <1>1, <1>2, ConnsClosed DEF HttpInv
<1>6. Rounds' = Rounds
  BY <1>1, <1>2, CloseSessionsQueue
<1>7. Loops' = Loops
  BY <1>6 DEF Loops, Rounds
<1> QED BY <1>4, <1>5, <1>7 DEF HttpInv, Accepting

LEMMA RequestInv == ASSUME HttpInv, NEW c \in Conns, Request(c) PROVE HttpInv'
<1>1. SrvTypeOK'
  <2>1. calls' \in 0..MaxCalls
    BY ServerAssumption DEF Request, Calls, HttpInv, SrvInv, SrvTypeOK
  <2>2. [idle EXCEPT ![c] = 0] \in [Conns -> 0..timeOut + 1]
    BY SMTT(20), ServerAssumption DEF HttpInv, SrvInv, SrvTypeOK
  <2>3. idle' \in [Conns -> 0..timeOut + 1]
    BY <2>2 DEF Request, HttpInv, SrvInv, SrvTypeOK
  <2>4. owes' \in [Conns -> BOOLEAN]
    BY DEF Request, Answers, HttpInv, SrvInv, SrvTypeOK
  <2> QED BY <2>1, <2>3, <2>4 DEF Request, HttpInv, SrvInv, SrvTypeOK, listener
<1>2. FinalSound'
  BY DEF Request, Answers, HttpInv, HttpConns, FinalSound, Live
<1> QED BY <1>1, <1>2, HttpPeerInv DEF Request, listener

LEMMA WrittenInv == ASSUME HttpInv, NEW c \in Conns, Written(c) PROVE HttpInv'
<1>1. /\ owes' = [owes EXCEPT ![c] = FALSE] /\ final' = final \ {c}
      /\ idle' = [idle EXCEPT ![c] = 0]
      /\ IF c \in final THEN CloseSessions({c}, ready) ELSE UNCHANGED <<stop, waited, ready>>
      /\ UNCHANGED <<running, monitor, launched, acceptor, accepts, retries, sessions, phase,
                     starts, stops, calls, errors>>
  BY DEF Written, listener, bounds
<1>2. owes' \in [Conns -> BOOLEAN] /\ idle' \in [Conns -> 0..timeOut + 1]
  BY SMTT(20), <1>1, ServerAssumption DEF HttpInv, SrvInv, SrvTypeOK
<1>3. FinalSound'
  BY <1>1 DEF HttpInv, HttpConns, SrvInv, SrvTypeOK, FinalSound, Live
<1>4. CASE c \in final
  <2>1. Known(c)
    BY <1>4 DEF HttpInv, HttpConns, FinalSound, Live, Known
  <2> QED BY <1>1, <1>2, <1>3, <1>4, <2>1, HttpClosesInv
<1>5. CASE c \notin final
  <2>1. SrvTypeOK'
    BY <1>1, <1>2, <1>5 DEF HttpInv, SrvInv, SrvTypeOK
  <2> QED BY <1>1, <1>3, <1>5, <2>1, HttpPeerInv
<1> QED BY <1>4, <1>5

LEMMA HttpCloseSessionInv == ASSUME HttpInv, NEW c \in Conns, HttpCloseSession(c) PROVE HttpInv'
<1>1. /\ Live(c) /\ CloseSessions({c}, ready)
      /\ UNCHANGED <<running, monitor, launched, acceptor, accepts, retries, sessions, phase,
                     owes, idle, starts, stops, calls, errors, final>>
  BY DEF HttpCloseSession, listener, bounds
<1>2. Known(c) /\ FinalSound'
  BY <1>1 DEF HttpInv, HttpConns, FinalSound, Live, Known
<1>3. owes' \in [Conns -> BOOLEAN] /\ idle' \in [Conns -> 0..timeOut + 1]
  BY <1>1 DEF HttpInv, SrvInv, SrvTypeOK
<1> QED BY <1>1, <1>2, <1>3, HttpClosesInv

LEMMA HttpArriveInv == ASSUME HttpInv, NEW c \in Conns, Arrive(c), final' = final PROVE HttpInv'
<1> DEFINE h == Handler("accept", c, "ok")
<1>1. /\ phase[c] = "away" /\ phase' = [phase EXCEPT ![c] = "arriving"]
      /\ ready' = Append(ready, h) /\ accepts' = accepts - 1
      /\ UNCHANGED <<running, retries, sessions, owes, stop>>
  BY DEF Arrive
<1>2. SrvInv'
  BY ArriveInv DEF HttpInv
<1>3. ToSet(ready) \subseteq ToSet(ready') /\ Rounds' = Rounds + 1
  <2>1. h \in Handlers /\ h.kind = "accept"
    BY HandlerType
  <2> QED BY <1>1, <2>1, AppendQueue DEF HttpInv, SrvInv, SrvTypeOK, Rounds
<1>4. \A d \in Conns : \/ phase'[d] = phase[d]
                       \/ phase[d] \in {"away", "arriving"} /\ phase'[d] \in {"arriving", "closed"}
  BY <1>1 DEF HttpInv, SrvInv, SrvTypeOK
<1>5. HttpConns'
  BY <1>1, <1>3, <1>4, ConnsArrived DEF HttpInv, ClosesKept
<1>6. Loops' = Loops
  BY <1>1, <1>3, RoundsType DEF HttpInv, SrvInv, Loops, Rounds
<1> QED BY <1>1, <1>2, <1>5, <1>6 DEF HttpInv, Accepting

LEMMA HttpLeaveInv == ASSUME HttpInv, NEW c \in Conns, HttpLeave(c) PROVE HttpInv'
<1>1. Leave(c) /\ Dropped({c}) /\ final' = final \ {c}
  BY DEF HttpLeave, Leave
<1>2. /\ \A d \in Conns : phase'[d] = phase[d] \/ (Live(d) /\ phase'[d] = "closed")
      /\ \A d \in Conns : d # c => phase'[d] = phase[d] /\ owes'[d] = owes[d]
  BY <1>1 DEF Dropped, HttpInv, SrvInv, SrvTypeOK
<1>3. SrvTypeOK'
  BY <1>1, LeaveInv DEF HttpInv, SrvInv
<1>4. FinalSound'
  BY <1>1, <1>2 DEF HttpInv, HttpConns, FinalSound, Live
<1> QED BY <1>1, <1>2, <1>3, <1>4, HttpPeerInv DEF Leave, listener, bounds

LEMMA HttpAcceptErrorInv == ASSUME HttpInv, AcceptError, final' = final PROVE HttpInv'
<1> DEFINE h == Handler("accept", NoConn, "error")
<1>1. /\ ready' = Append(ready, h) /\ accepts' = accepts - 1
      /\ UNCHANGED <<running, retries, sessions, perConn>>
  BY DEF AcceptError
<1>2. SrvInv'
  BY AcceptErrorInv DEF HttpInv
<1>3. ToSet(ready) \subseteq ToSet(ready') /\ Rounds' = Rounds + 1
  <2>1. h \in Handlers /\ h.kind = "accept"
    BY HandlerType
  <2> QED BY <1>1, <2>1, AppendQueue DEF HttpInv, SrvInv, SrvTypeOK, Rounds
<1>4. HttpConns'
  BY <1>1, <1>3, ConnsKept DEF HttpInv, ClosesKept
<1>5. Loops' = Loops
  BY <1>1, <1>3, RoundsType DEF HttpInv, SrvInv, Loops, Rounds
<1> QED BY <1>1, <1>2, <1>4, <1>5 DEF HttpInv, Accepting

LEMMA HttpTickInv == ASSUME HttpInv, HttpTick PROVE HttpInv'
<1>1. timeOut \in Nat
  BY ServerAssumption
<1>2. Older(idle, timeOut) \in [Conns -> 0..timeOut + 1]
  BY <1>1, OlderType DEF HttpInv, SrvInv, SrvTypeOK
<1>3. SrvTypeOK'
  BY <1>2 DEF HttpTick, HttpInv, SrvInv, SrvTypeOK, listener, bounds
<1>4. FinalSound'
  BY DEF HttpTick, HttpInv, HttpConns, FinalSound, Live
<1> QED BY <1>3, <1>4, HttpPeerInv DEF HttpTick, listener, bounds

-----------------------------------------------------------------------------
(* The theorems.                                                           *)

LEMMA HttpInitInv == ASSUME HttpInit PROVE HttpInv
<1>1. ready = <<>> /\ ready \in Seq(Handlers) /\ ToSet(ready) = {} /\ OneArrival(ready)
  BY DEF HttpInit, ToSet, OneArrival
<1>2. HowMany(ready, {"accept"}) = 0
  <2>1. \A i \in DOMAIN ready : ready[i].kind \notin {"accept"}
    BY <1>1
  <2> QED BY <1>1, <2>1, NoneOrAll
<1>3. SrvTypeOK
  <2>1. /\ 0 \in 0..timeOut + 1 /\ 0 \in 0..kCloseGraceSeconds + 1
        /\ 0 \in 0..MaxStarts /\ 0 \in 0..MaxStops /\ 0 \in 0..MaxCalls /\ 0 \in 0..MaxErrors
    BY ServerAssumption
  <2> QED BY <1>1, <2>1 DEF HttpInit, SrvTypeOK
<1>4. Loops = 0
  BY <1>2 DEF HttpInit, Loops
<1>5. QueueSound /\ TableSound /\ ClosingIsTimed
  BY <1>1 DEF HttpInit, QueueSound, TableSound, ClosingIsTimed, Live
<1>6. TableBounded
  BY FS_EmptySet, ServerAssumption DEF HttpInit, TableBounded
<1>7. FirstRun /\ LoopsBounded /\ Accepting
  BY <1>1, <1>4 DEF HttpInit, FirstRun, LoopsBounded, Accepting
<1>8. HttpConns
  BY DEF HttpInit, HttpConns, FinalSound, NeverClosing, CloseWaits, HttpNoEscape, Fresh, Live
<1> QED BY <1>3, <1>5, <1>6, <1>7, <1>8 DEF SrvInv, HttpInv

LEMMA HttpNextInv == ASSUME HttpInv, [HttpNext]_httpServerVars PROVE HttpInv'
<1>1. CASE UNCHANGED httpServerVars
  <2>1. SrvTypeOK' /\ FinalSound'
    BY <1>1 DEF HttpInv, HttpConns, SrvInv, SrvTypeOK, FinalSound, Live,
                httpServerVars, vars, listener, perConn, bounds
  <2> QED BY <1>1, <2>1, HttpPeerInv DEF httpServerVars, vars, listener, perConn, bounds
<1>2. CASE HttpNext
  <2>1. ASSUME NEW c \in Conns, HttpOfConn(c) PROVE HttpInv'
    BY <2>1, RequestInv, WrittenInv, HttpCloseSessionInv, HttpArriveInv, HttpLeaveInv
       DEF HttpOfConn, Shared
  <2>2. CASE HttpRunPosted
    BY <2>2, HttpRunAcceptInv, HttpSweepInv, HttpRunCloseAllInv, HttpRunCloseInv DEF HttpRunPosted
  <2>3. CASE Shared(AcceptError)
    BY <2>3, HttpAcceptErrorInv DEF Shared
  <2> QED BY <1>2, <2>1, <2>2, <2>3, HttpStartInv, HttpStopInv, ClearHttpSessionInv,
             HttpRetryInv, HttpTickInv DEF HttpNext
<1> QED BY <1>1, <1>2

\* The inductive invariant of the HTTP server.
THEOREM HttpInvariance == HttpServerSpec => []HttpInv
  BY HttpInitInv, HttpNextInv, PTL DEF HttpServerSpec

\* Every variable keeps its type, and a last answer is one that is in flight.
THEOREM HttpTypeCorrect == HttpServerSpec => []HttpSrvTypeOK
<1>1. HttpInv => HttpSrvTypeOK
  BY DEF HttpInv, SrvInv, HttpConns, FinalSound, HttpSrvTypeOK
<1> QED BY <1>1, HttpInvariance, PTL

\* closeHttpSession(), the sweep and closeHttpAll() post the close of every session
\* they let go of, and nothing but its own run takes it out of the queue.
THEOREM ClosesArePosted == HttpServerSpec => []CloseIsPosted
<1>1. HttpInv => CloseIsPosted
  BY DEF HttpInv, HttpConns, CloseWaits, CloseOf, CloseIsPosted, ToSet
<1> QED BY <1>1, HttpInvariance, PTL

\* No sweep, error or restart loses a connection that nobody asked to close.
THEOREM HttpNobodyEscapes == HttpServerSpec => []HttpNoEscape
<1>1. HttpInv => HttpNoEscape
  BY DEF HttpInv, HttpConns
<1> QED BY <1>1, HttpInvariance, PTL

\* The table's limit limits the connections that nobody asked to close, across
\* stops and restarts too.
THEOREM HttpLimitHolds == HttpServerSpec => []HttpLimit
<1>1. ASSUME HttpInv PROVE HttpLimit
  <2> SUFFICES ASSUME maxConnections > 0
               PROVE  Cardinality({c \in Conns : Live(c) /\ ~stop[c]}) <= maxConnections
    BY DEF HttpLimit
  <2> DEFINE L == {c \in Conns : Live(c) /\ ~stop[c]}
  <2>1. L \subseteq sessions
    BY <1>1 DEF HttpInv, HttpConns, HttpNoEscape
  <2>2. IsFiniteSet(sessions)
    BY <1>1, ServerAssumption, FS_Subset DEF HttpInv, SrvInv, SrvTypeOK
  <2>3. Cardinality(L) <= Cardinality(sessions) /\ Cardinality(L) \in Nat
        /\ Cardinality(sessions) \in Nat
    BY <2>1, <2>2, FS_Subset, FS_CardinalityType
  <2>4. Cardinality(sessions) <= maxConnections
    BY <1>1 DEF HttpInv, SrvInv, TableBounded
  <2> HIDE DEF L
  <2>5. Cardinality(L) <= maxConnections
    BY <2>3, <2>4, ServerAssumption
  <2> QED BY <2>5 DEF L
<1> QED BY <1>1, HttpInvariance, PTL

\* A running server always has an accept in flight, its handler or a backoff, and
\* no error, cancellation or restart makes a loop that start() did not.
THEOREM HttpLoopsAreCounted == HttpServerSpec => []HttpLoops
<1>1. HttpInv => HttpLoops
  BY DEF HttpInv, SrvInv, LoopsBounded, Accepting, HttpLoops
<1> QED BY <1>1, HttpInvariance, PTL

===========================================================================
