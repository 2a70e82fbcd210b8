-------------------------- MODULE TcpServerProofs --------------------------
(***************************************************************************)
(* What holds of the server whatever the limit, the timeouts and the peers *)
(* are, and however often it is started, stopped and called.               *)
(***************************************************************************)
EXTENDS TcpServer, DataProofs

-----------------------------------------------------------------------------
(* The inductive invariant.                                                *)

Known(c) == phase[c] \notin {"away", "arriving"}

\* What is known of a posted handler: an accepted socket is one that arrived and
\* belongs to nobody yet, sends and closes are of connections that were accepted,
\* and a close was asked for or finds the connection closing already.
ArrivalSound(h) == h.kind = "accept" => IF h.ec = "ok"
                                        THEN h.conn \in Conns /\ phase[h.conn] = "arriving"
                                        ELSE h.conn = NoConn
PostSound(h)    == h.kind \in {"send", "close"} => h.conn \in Conns /\ Known(h.conn)
CloseSound(h)   == h.kind = "close" => stop[h.conn] \/ phase[h.conn] # "open"
Sound(h)        == ArrivalSound(h) /\ PostSound(h) /\ CloseSound(h)

\* No socket is accepted twice.
Arrival(h)    == h.kind = "accept" /\ h.ec = "ok"
OneArrival(r) == \A i, j \in DOMAIN r :
                    Arrival(r[i]) /\ Arrival(r[j]) /\ r[i].conn = r[j].conn => i = j

QueueSound == (\A h \in ToSet(ready) : Sound(h)) /\ OneArrival(ready)

TableSound == \A c \in sessions : Known(c)

\* Before a stop() the acceptor stays what start() made it.
Unharmed(h) == h.kind # "closeAll" /\ (h.kind = "accept" => h.ec \in {"ok", "error"})
FirstRun == stops = 0 => /\ launched => running /\ acceptor # "closed" /\ Loops = 1
                         /\ \A h \in ToSet(ready) : Unharmed(h)

TableBounded == maxConnections > 0 => Cardinality(sessions) <= maxConnections

LoopsBounded == Loops <= starts /\ (~launched => Loops = 0 /\ ~running)

SrvInv == /\ SrvTypeOK /\ QueueSound /\ TableSound /\ ClosingIsTimed
          /\ FirstRun /\ TableBounded /\ LoopsBounded

-----------------------------------------------------------------------------
(* Handlers and queues.                                                    *)

LEMMA HandlerType ==
  ASSUME NEW k \in {"accept", "sweep", "closeAll", "send", "close"},
         NEW c \in Conns \cup {NoConn},
         NEW ec \in {"ok", "error", "operation_aborted", "bad_descriptor"}
  PROVE  /\ Handler(k, c, ec) \in Handlers
         /\ Handler(k, c, ec).kind = k /\ Handler(k, c, ec).conn = c
         /\ Handler(k, c, ec).ec = ec
  BY DEF Handler, Handlers

LEMMA TailQueue ==
  ASSUME NEW r \in Seq(Handlers), r # <<>>
  PROVE  /\ Tail(r) \in Seq(Handlers) /\ Head(r) \in Handlers
         /\ Head(r) \in ToSet(r) /\ ToSet(r) = {Head(r)} \cup ToSet(Tail(r))
         /\ OneArrival(r) => /\ OneArrival(Tail(r))
                             /\ Arrival(Head(r)) =>
                                  \A h \in ToSet(Tail(r)) : Arrival(h) => h.conn # Head(r).conn
         /\ HowMany(r, {"accept"}) = HowMany(Tail(r), {"accept"})
                                     + IF Head(r).kind = "accept" THEN 1 ELSE 0
<1>1. Tail(r) \in Seq(Handlers) /\ Head(r) \in Handlers
  OBVIOUS
<1>2. Head(r) \in ToSet(r) /\ ToSet(r) = {Head(r)} \cup ToSet(Tail(r))
  BY TailElements DEF ToSet
<1>3. ASSUME OneArrival(r) PROVE OneArrival(Tail(r))
  <2> SUFFICES ASSUME NEW i \in DOMAIN Tail(r), NEW j \in DOMAIN Tail(r),
                      Arrival(Tail(r)[i]), Arrival(Tail(r)[j]), Tail(r)[i].conn = Tail(r)[j].conn
               PROVE  i = j
    BY DEF OneArrival
  <2>1. i + 1 = j + 1
    BY <1>3, TailElements DEF OneArrival
  <2>2. i \in Int /\ j \in Int
    OBVIOUS
  <2> QED BY <2>1, <2>2
<1>4. ASSUME OneArrival(r), Arrival(Head(r)), NEW h \in ToSet(Tail(r)), Arrival(h)
      PROVE  h.conn # Head(r).conn
  <2>1. PICK i \in DOMAIN Tail(r) : h = Tail(r)[i]
    BY <1>4 DEF ToSet
  <2>2. i + 1 # 1
    OBVIOUS
  <2> QED BY <1>4, <2>1, <2>2, TailElements DEF OneArrival
<1>5. HowMany(r, {"accept"}) = HowMany(Tail(r), {"accept"})
                               + IF Head(r).kind = "accept" THEN 1 ELSE 0
  BY TailHowMany
<1> QED BY <1>1, <1>2, <1>3, <1>4, <1>5

LEMMA ConcatQueue ==
  ASSUME NEW r \in Seq(Handlers), NEW s \in Seq(Handlers), \A h \in ToSet(s) : ~Arrival(h)
  PROVE  /\ r \o s \in Seq(Handlers)
         /\ ToSet(r \o s) = ToSet(r) \cup ToSet(s)
         /\ OneArrival(r) => OneArrival(r \o s)
         /\ HowMany(r \o s, {"accept"}) = HowMany(r, {"accept"}) + HowMany(s, {"accept"})
<1>1. r \o s \in Seq(Handlers)
  BY ConcatElements
<1>2. ToSet(r \o s) \subseteq ToSet(r) \cup ToSet(s)
  BY ConcatElements DEF ToSet
<1>3. ToSet(r) \subseteq ToSet(r \o s)
  BY ConcatElements DEF ToSet
<1>4. ToSet(s) \subseteq ToSet(r \o s)
  <2> SUFFICES ASSUME NEW i \in DOMAIN s PROVE s[i] \in ToSet(r \o s)
    BY DEF ToSet
  <2>1. Len(r) + i \in DOMAIN (r \o s) /\ (r \o s)[Len(r) + i] = s[i]
    BY ConcatElements
  <2> QED BY <2>1 DEF ToSet
<1>5. ASSUME OneArrival(r) PROVE OneArrival(r \o s)
  <2> SUFFICES ASSUME NEW i \in DOMAIN (r \o s), NEW j \in DOMAIN (r \o s),
                      Arrival((r \o s)[i]), Arrival((r \o s)[j]),
                      (r \o s)[i].conn = (r \o s)[j].conn
               PROVE  i = j
    BY DEF OneArrival
  <2>1. /\ i \in DOMAIN r /\ (r \o s)[i] = r[i]
        /\ j \in DOMAIN r /\ (r \o s)[j] = r[j]
    BY ConcatElements DEF ToSet
  <2> QED BY <1>5, <2>1 DEF OneArrival
<1>6. HowMany(r \o s, {"accept"}) = HowMany(r, {"accept"}) + HowMany(s, {"accept"})
  BY ConcatHowMany
<1> QED BY <1>1, <1>2, <1>3, <1>4, <1>5, <1>6

LEMMA AppendQueue ==
  ASSUME NEW r \in Seq(Handlers), NEW h \in Handlers
  PROVE  /\ Append(r, h) \in Seq(Handlers)
         /\ ToSet(Append(r, h)) = ToSet(r) \cup {h}
         /\ OneArrival(r) /\ (Arrival(h) => \A g \in ToSet(r) : Arrival(g) => g.conn # h.conn)
              => OneArrival(Append(r, h))
         /\ HowMany(Append(r, h), {"accept"}) = HowMany(r, {"accept"})
                                                + IF h.kind = "accept" THEN 1 ELSE 0
<1>1. Append(r, h) \in Seq(Handlers)
  OBVIOUS
<1>2. ToSet(Append(r, h)) = ToSet(r) \cup {h}
  BY AppendElements DEF ToSet
<1>3. ASSUME OneArrival(r), Arrival(h) => \A g \in ToSet(r) : Arrival(g) => g.conn # h.conn
      PROVE  OneArrival(Append(r, h))
  BY <1>3, AppendElements DEF OneArrival, ToSet
<1>4. HowMany(Append(r, h), {"accept"}) = HowMany(r, {"accept"})
                                          + IF h.kind = "accept" THEN 1 ELSE 0
  BY AppendHowMany
<1> QED BY <1>1, <1>2, <1>3, <1>4

\* A set put into a queue in some order.
LEMMA SetQueue ==
  ASSUME NEW S \in SUBSET Handlers, IsFiniteSet(S)
  PROVE  SetToSeq(S) \in Seq(Handlers) /\ ToSet(SetToSeq(S)) = S
<1> DEFINE n == Cardinality(S)
<1>1. n \in Nat /\ \E f : f \in Bijection(1..n, S)
  BY FS_CardinalityType DEF ExistsBijection
<1>2. \E f \in [1..n -> S] : IsInjective(f)
  BY <1>1 DEF Bijection, Injection, IsInjective
<1>3. SetToSeq(S) \in [1..n -> S] /\ IsInjective(SetToSeq(S))
  BY <1>2 DEF SetToSeq
<1>4. SetToSeq(S) \in Seq(Handlers)
  BY <1>1, <1>3
<1>5. SetToSeq(S) \in Surjection(1..n, S)
  <2>1. SetToSeq(S) \in Injection(1..n, S)
    BY <1>3 DEF Injection, IsInjective
  <2>2. Cardinality(1..n) = n
    BY <1>1, FS_Interval
  <2> QED BY <2>1, <2>2, FS_Injection
<1> QED BY <1>3, <1>4, <1>5 DEF ToSet, Surjection

Posts(k, C)  == {Handler(k, c, "ok") : c \in C}
Behind(r, S) == r \o SetToSeq(S)

LEMMA PostsQueue ==
  ASSUME NEW C \in SUBSET Conns, NEW k \in {"send", "close"},
         NEW r \in Seq(Handlers)
  PROVE  /\ Behind(r, Posts(k, C)) \in Seq(Handlers)
         /\ ToSet(Behind(r, Posts(k, C))) = ToSet(r) \cup Posts(k, C)
         /\ OneArrival(r) => OneArrival(Behind(r, Posts(k, C)))
         /\ HowMany(Behind(r, Posts(k, C)), {"accept"}) = HowMany(r, {"accept"})
<1> DEFINE S == Posts(k, C)
           s == SetToSeq(S)
           t == Behind(r, S)
<1>1. IsFiniteSet(C)
  BY ServerAssumption, FS_Subset
<1>2. IsFiniteSet(S)
  <2> DEFINE f == [c \in C |-> Handler(k, c, "ok")]
  <2>1. f \in Surjection(C, S)
    BY DEF Surjection, Posts
  <2> QED BY <1>1, <2>1, FS_Surjection
<1>3. \A h \in S : h \in Handlers /\ h.kind # "accept"
  BY HandlerType DEF Posts
<1>4. s \in Seq(Handlers) /\ ToSet(s) = S
  BY <1>2, <1>3, SetQueue
<1>5. \A h \in ToSet(s) : ~Arrival(h)
  BY <1>3, <1>4 DEF Arrival
<1>6. HowMany(s, {"accept"}) = 0
  <2>1. \A i \in DOMAIN s : s[i].kind \notin {"accept"}
    BY <1>3, <1>4 DEF ToSet
  <2> QED BY <1>4, <2>1, NoneOrAll
<1>7. HowMany(r, {"accept"}) \in Nat
  BY ThoseFinite
<1>8. HowMany(r \o s, {"accept"}) = HowMany(r, {"accept"}) + HowMany(s, {"accept"})
  BY <1>4, <1>5, ConcatQueue
<1>9. t \in Seq(Handlers) /\ (OneArrival(r) => OneArrival(t)) /\ ToSet(t) = ToSet(r) \cup ToSet(s)
  BY <1>4, <1>5, ConcatQueue DEF Behind
<1> QED BY <1>4, <1>6, <1>7, <1>8, <1>9 DEF Behind

LEMMA AbortedQueue ==
  ASSUME NEW n \in Nat, NEW r \in Seq(Handlers)
  PROVE  /\ r \o Aborted(n) \in Seq(Handlers)
         /\ ToSet(r) \subseteq ToSet(r \o Aborted(n))
         /\ ToSet(r \o Aborted(n))
              \subseteq ToSet(r) \cup {Handler("accept", NoConn, "operation_aborted")}
         /\ OneArrival(r) => OneArrival(r \o Aborted(n))
         /\ HowMany(r \o Aborted(n), {"accept"}) = HowMany(r, {"accept"}) + n
<1> DEFINE a == Handler("accept", NoConn, "operation_aborted")
           s == Aborted(n)
<1>1. a \in Handlers /\ a.kind = "accept" /\ ~Arrival(a)
  BY HandlerType DEF Arrival
<1>2. s \in Seq(Handlers) /\ Len(s) = n /\ \A i \in DOMAIN s : s[i] = a
  BY <1>1 DEF Aborted
<1>3. HowMany(s, {"accept"}) = n
  BY <1>1, <1>2, NoneOrAll
<1>4. \A h \in ToSet(s) : h = a
  BY <1>2 DEF ToSet
<1> QED BY <1>1, <1>2, <1>3, <1>4, ConcatQueue

-----------------------------------------------------------------------------
(* What the operators the handlers share do to the queue.                  *)

Closes(C)   == Posts("close", C)
BadAccept   == Handler("accept", NoConn, "bad_descriptor")
AbortedOnce == Handler("accept", NoConn, "operation_aborted")
Rounds      == HowMany(ready, {"accept"})

LEMMA RoundsType ==
  ASSUME SrvTypeOK
  PROVE  Rounds \in Nat /\ accepts \in Nat /\ retries \in Nat /\ starts \in Nat
         /\ Loops = accepts + retries + Rounds
  BY ThoseFinite DEF SrvTypeOK, Rounds, Loops

LEMMA CloseSessionsQueue ==
  ASSUME NEW C \in SUBSET Conns, NEW r \in Seq(Handlers), SrvTypeOK, CloseSessions(C, r)
  PROVE  /\ stop' \in [Conns -> BOOLEAN] /\ waited' \in [Conns -> 0..kCloseGraceSeconds + 1]
         /\ \A c \in Conns : stop'[c] <=> stop[c] \/ c \in C
         /\ ready' \in Seq(Handlers)
         /\ ToSet(ready') = ToSet(r) \cup Closes(C)
         /\ OneArrival(r) => OneArrival(ready')
         /\ Rounds' = HowMany(r, {"accept"})
<1>1. ready' = Behind(r, Closes(C))
  BY DEF CloseSessions, Closes, Posts, Behind
<1>2. /\ ready' \in Seq(Handlers)
      /\ ToSet(ready') = ToSet(r) \cup Closes(C)
      /\ OneArrival(r) => OneArrival(ready')
      /\ HowMany(ready', {"accept"}) = HowMany(r, {"accept"})
  BY <1>1, PostsQueue DEF Closes
<1>3. stop' \in [Conns -> BOOLEAN] /\ \A c \in Conns : stop'[c] <=> stop[c] \/ c \in C
  BY DEF CloseSessions, SrvTypeOK
<1>4. waited' \in [Conns -> 0..kCloseGraceSeconds + 1]
  BY SMTT(20), ServerAssumption DEF CloseSessions, SrvTypeOK
<1> QED BY <1>2, <1>3, <1>4 DEF Rounds

LEMMA CloseAllQueue ==
  ASSUME NEW r \in Seq(Handlers), SrvTypeOK, CloseAll(r)
  PROVE  /\ stop' \in [Conns -> BOOLEAN] /\ waited' \in [Conns -> 0..kCloseGraceSeconds + 1]
         /\ \A c \in Conns : stop'[c] <=> stop[c] \/ c \in sessions
         /\ ready' \in Seq(Handlers)
         /\ ToSet(ready') \subseteq ToSet(r) \cup {AbortedOnce} \cup Closes(sessions)
         /\ ToSet(r) \cup Closes(sessions) \subseteq ToSet(ready')
         /\ OneArrival(r) => OneArrival(ready')
         /\ Rounds' = accepts + HowMany(r, {"accept"}) /\ Rounds' \in Nat
         /\ accepts' = 0 /\ acceptor' = "closed" /\ sessions' = {}
<1> DEFINE t == r \o Aborted(accepts)
<1>1. sessions \in SUBSET Conns /\ accepts \in Nat /\ CloseSessions(sessions, t)
  BY DEF SrvTypeOK, CloseAll
<1>2. /\ t \in Seq(Handlers)
      /\ ToSet(t) \subseteq ToSet(r) \cup {AbortedOnce} /\ ToSet(r) \subseteq ToSet(t)
      /\ OneArrival(r) => OneArrival(t)
      /\ HowMany(t, {"accept"}) = HowMany(r, {"accept"}) + accepts
  BY <1>1, AbortedQueue DEF AbortedOnce
<1> HIDE DEF t
<1>3. /\ stop' \in [Conns -> BOOLEAN] /\ waited' \in [Conns -> 0..kCloseGraceSeconds + 1]
      /\ \A c \in Conns : stop'[c] <=> stop[c] \/ c \in sessions
      /\ ready' \in Seq(Handlers)
      /\ ToSet(ready') = ToSet(t) \cup Closes(sessions)
      /\ OneArrival(t) => OneArrival(ready')
      /\ Rounds' = HowMany(t, {"accept"})
  BY <1>1, <1>2, CloseSessionsQueue
<1>4. accepts' = 0 /\ acceptor' = "closed" /\ sessions' = {}
  BY DEF CloseAll
<1>5. HowMany(r, {"accept"}) \in Nat
  BY ThoseFinite
<1>6. Rounds' = accepts + HowMany(r, {"accept"}) /\ Rounds' \in Nat
  BY <1>1, <1>2, <1>3, <1>5
<1> QED BY <1>2, <1>3, <1>4, <1>6

LEMMA StartAcceptQueue ==
  ASSUME NEW r \in Seq(Handlers), SrvTypeOK, StartAccept(r)
  PROVE  /\ ready' \in Seq(Handlers) /\ accepts' \in Nat
         /\ ToSet(ready') \subseteq ToSet(r) \cup {BadAccept} /\ ToSet(r) \subseteq ToSet(ready')
         /\ acceptor # "closed" => ready' = r
         /\ OneArrival(r) => OneArrival(ready')
         /\ \/ accepts' = accepts + 1 /\ Rounds' = HowMany(r, {"accept"})
            \/ accepts' = accepts /\ Rounds' = HowMany(r, {"accept"}) + 1
<1>1. HowMany(r, {"accept"}) \in Nat /\ accepts \in Nat
  BY ThoseFinite DEF SrvTypeOK
<1>2. CASE acceptor = "closed"
  <2>1. ready' = Append(r, BadAccept) /\ accepts' = accepts
    BY <1>2 DEF StartAccept, BadAccept
  <2>2. BadAccept \in Handlers /\ BadAccept.kind = "accept" /\ ~Arrival(BadAccept)
    BY HandlerType DEF BadAccept, Arrival
  <2>3. /\ ready' \in Seq(Handlers)
        /\ ToSet(ready') = ToSet(r) \cup {BadAccept}
        /\ OneArrival(r) => OneArrival(ready')
        /\ HowMany(ready', {"accept"}) = HowMany(r, {"accept"}) + 1
    BY <2>1, <2>2, AppendQueue
  <2> QED BY <1>1, <1>2, <2>1, <2>3 DEF Rounds
<1>3. CASE acceptor # "closed"
  BY <1>1, <1>3 DEF StartAccept, Rounds
<1> QED BY <1>2, <1>3

\* The handlers behind the one that runs.
LEMMA RestQueue ==
  ASSUME SrvTypeOK, ready # <<>>, QueueSound
  PROVE  /\ Rest \in Seq(Handlers) /\ Head(ready) \in Handlers /\ Sound(Head(ready))
         /\ Head(ready) \in ToSet(ready)
         /\ ToSet(Rest) \subseteq ToSet(ready) /\ OneArrival(Rest)
         /\ \A h \in ToSet(ready) : h # Head(ready) => h \in ToSet(Rest)
         /\ Arrival(Head(ready)) =>
               \A h \in ToSet(Rest) : Arrival(h) => h.conn # Head(ready).conn
         /\ Rounds = HowMany(Rest, {"accept"}) + IF Head(ready).kind = "accept" THEN 1 ELSE 0
         /\ HowMany(Rest, {"accept"}) \in Nat
<1>1. ready \in Seq(Handlers)
  BY DEF SrvTypeOK
<1>2. HowMany(Tail(ready), {"accept"}) \in Nat
  BY <1>1, TailQueue, ThoseFinite
<1> QED BY <1>1, <1>2, TailQueue DEF QueueSound, Rest, Rounds

-----------------------------------------------------------------------------
(* How the parts of the invariant are carried from state to state.         *)

\* A connection never goes back, and a close is not taken back.
Onward(c) == /\ phase[c] = "arriving" => phase'[c] = "arriving"
             /\ Known(c) => Known(c)' /\ (phase'[c] = "open" => phase[c] = "open")
             /\ stop[c] => stop'[c]

LEMMA SoundStays ==
  ASSUME \A c \in Conns : Onward(c)
  PROVE  \A h : Sound(h) => Sound(h)'
  BY DEF Sound, ArrivalSound, PostSound, CloseSound, Onward

LEMMA QueueKept ==
  ASSUME QueueSound, \A c \in Conns : Onward(c),
         \A h \in ToSet(ready') \ ToSet(ready) : Sound(h)', OneArrival(ready')
  PROVE  QueueSound'
  BY SoundStays DEF QueueSound

LEMMA TableKept ==
  ASSUME SrvTypeOK, TableSound, TableBounded, \A c \in Conns : Onward(c),
         sessions' \subseteq sessions
  PROVE  TableSound' /\ TableBounded'
<1>1. TableSound'
  BY DEF SrvTypeOK, TableSound, Onward
<1>2. IsFiniteSet(sessions)
  BY ServerAssumption, FS_Subset DEF SrvTypeOK
<1>3. Cardinality(sessions') <= Cardinality(sessions) /\ Cardinality(sessions') \in Nat
      /\ Cardinality(sessions) \in Nat
  BY <1>2, FS_Subset, FS_CardinalityType
<1> QED BY <1>1, <1>3, ServerAssumption DEF TableBounded

\* A step that touches no connection and no session.
LEMMA ConnsUntouched ==
  ASSUME SrvInv, UNCHANGED <<perConn, sessions>>,
         \A h \in ToSet(ready') \ ToSet(ready) : Sound(h)', OneArrival(ready')
  PROVE  QueueSound' /\ TableSound' /\ ClosingIsTimed' /\ TableBounded'
<1>1. \A c \in Conns : Onward(c)
  BY DEF Onward, Known, perConn
<1>2. QueueSound'
  BY <1>1, QueueKept DEF SrvInv
<1>3. TableSound' /\ TableBounded'
  BY <1>1, TableKept DEF SrvInv
<1>4. ClosingIsTimed'
  BY DEF SrvInv, ClosingIsTimed, Live, perConn
<1> QED BY <1>2, <1>3, <1>4

-----------------------------------------------------------------------------
(* The invariant, action by action: the owner's thread and the monitor's.  *)

LEMMA StartInv == ASSUME SrvInv, Start PROVE SrvInv'
<1>1. SrvTypeOK'
  BY SMTT(20), ServerAssumption DEF SrvInv, SrvTypeOK, Start, Startable, perConn
<1>2. QueueSound' /\ TableSound' /\ ClosingIsTimed' /\ TableBounded'
  BY ConnsUntouched DEF Start, SrvInv, QueueSound
<1>3. /\ Loops \in Nat /\ Loops' = Loops + 1 /\ starts \in Nat
      /\ starts' = starts + 1 /\ stops' = stops /\ ready' = ready /\ acceptor' # "closed"
      /\ running' /\ launched' /\ ~running
  BY RoundsType DEF SrvInv, SrvTypeOK, Start, Startable, Loops, Rounds
<1>4. FirstRun'
  BY <1>3 DEF SrvInv, FirstRun, LoopsBounded
<1>5. LoopsBounded'
  BY <1>3 DEF SrvInv, LoopsBounded
<1> QED BY <1>1, <1>2, <1>4, <1>5 DEF SrvInv

LEMMA StartFailsInv == ASSUME SrvInv, StartFails PROVE SrvInv'
<1>1. SrvTypeOK'
  <2>1. starts' \in 0..MaxStarts /\ errors' \in 0..MaxErrors
    BY ServerAssumption DEF SrvInv, SrvTypeOK, StartFails, Startable
  <2> QED BY <2>1 DEF SrvInv, SrvTypeOK, StartFails, Startable, perConn
<1>2. QueueSound' /\ TableSound' /\ ClosingIsTimed' /\ TableBounded'
  BY ConnsUntouched DEF StartFails, SrvInv, QueueSound
<1>3. /\ Loops \in Nat /\ Loops' = Loops /\ starts \in Nat
      /\ starts' = starts + 1 /\ stops' = stops /\ ready' = ready /\ acceptor = "closed"
      /\ running' = running /\ launched' = launched
  BY RoundsType DEF SrvInv, SrvTypeOK, StartFails, Startable, Loops, Rounds
<1>4. FirstRun'
  BY <1>3 DEF SrvInv, FirstRun
<1>5. LoopsBounded'
  BY <1>3 DEF SrvInv, LoopsBounded
<1> QED BY <1>1, <1>2, <1>4, <1>5 DEF SrvInv

\* closeAll(), in place or posted, with the queue it is given.
LEMMA CloseAllInv ==
  ASSUME SrvInv, NEW r \in Seq(Handlers), CloseAll(r),
         ToSet(r) \subseteq ToSet(ready), OneArrival(r),
         HowMany(r, {"accept"}) = Rounds,
         UNCHANGED <<phase, owes, idle, retries>>, stops' # 0, stops' \in 0..MaxStops,
         UNCHANGED <<launched, monitor, starts, calls, errors>>, running' \in BOOLEAN, running' => running
  PROVE  SrvInv'
<1>1. /\ stop' \in [Conns -> BOOLEAN] /\ waited' \in [Conns -> 0..kCloseGraceSeconds + 1]
      /\ \A c \in Conns : stop'[c] <=> stop[c] \/ c \in sessions
      /\ ready' \in Seq(Handlers)
      /\ ToSet(ready') \subseteq ToSet(r) \cup {AbortedOnce} \cup Closes(sessions)
      /\ OneArrival(r) => OneArrival(ready')
      /\ Rounds' = accepts + HowMany(r, {"accept"}) /\ Rounds' \in Nat
      /\ accepts' = 0 /\ acceptor' = "closed" /\ sessions' = {}
  BY CloseAllQueue DEF SrvInv
<1>2. SrvTypeOK'
  BY <1>1 DEF SrvInv, SrvTypeOK
<1>3. \A c \in Conns : Onward(c)
  BY <1>1 DEF Onward, Known
<1>4. QueueSound'
  <2> DEFINE N == {AbortedOnce} \cup Closes(sessions)
  <2>1. Sound(AbortedOnce)'
    BY HandlerType DEF AbortedOnce, Sound, ArrivalSound, PostSound, CloseSound
  <2>2. ASSUME NEW c \in sessions PROVE Sound(Handler("close", c, "ok"))'
    <3>1. c \in Conns /\ Known(c) /\ stop'[c]
      BY <1>1 DEF SrvInv, SrvTypeOK, TableSound
    <3>2. LET h == Handler("close", c, "ok") IN h.kind = "close" /\ h.conn = c
      BY <3>1, HandlerType
    <3> QED BY <3>1, <3>2 DEF Sound, ArrivalSound, PostSound, CloseSound, Known
  <2>3. \A h \in N : Sound(h)'
    BY <2>1, <2>2 DEF Closes, Posts
  <2>4. ToSet(ready') \subseteq ToSet(ready) \cup N
    BY <1>1
  <2> QED BY <1>1, <1>3, <2>3, <2>4, QueueKept DEF SrvInv
<1>5. TableSound' /\ TableBounded'
  BY <1>1, <1>3, TableKept DEF SrvInv
<1>6. ClosingIsTimed'
  BY <1>1 DEF SrvInv, ClosingIsTimed
<1>7. FirstRun'
  BY DEF FirstRun
<1>8. LoopsBounded'
  <2>1. Loops' = Loops
    BY <1>1, RoundsType DEF SrvInv, Loops, Rounds
  <2> QED BY <2>1 DEF SrvInv, LoopsBounded
<1> QED BY <1>2, <1>4, <1>5, <1>6, <1>7, <1>8 DEF SrvInv

LEMMA StopInv == ASSUME SrvInv, Stop PROVE SrvInv'
<1>1. stops' = stops + 1 /\ stops \in Nat /\ stops' \in 0..MaxStops /\ running' = FALSE
      /\ UNCHANGED <<launched, monitor, retries, phase, owes, idle, starts, calls, errors>>
  BY ServerAssumption DEF SrvInv, SrvTypeOK, Stop
<1>2. CASE ~launched
  <2>1. CloseAll(ready)
    BY <1>2 DEF Stop
  <2>2. ready \in Seq(Handlers) /\ OneArrival(ready) /\ HowMany(ready, {"accept"}) = Rounds
    BY DEF SrvInv, SrvTypeOK, QueueSound, Rounds
  <2>3. stops' # 0
    BY <1>1
  <2>4. running' \in BOOLEAN /\ (running' => running)
    BY <1>1
  <2> QED BY <1>1, <2>1, <2>2, <2>3, <2>4, CloseAllInv
<1>3. CASE launched
  <2> DEFINE h == Handler("closeAll", NoConn, "ok")
  <2>1. h \in Handlers /\ h.kind = "closeAll"
    BY HandlerType
  <2>2. ready' = Append(ready, h) /\ UNCHANGED <<acceptor, accepts, perConn, sessions>>
    BY <1>1, <1>3 DEF Stop, perConn
  <2>3. /\ ready' \in Seq(Handlers)
        /\ ToSet(ready') = ToSet(ready) \cup {h}
        /\ OneArrival(ready')
        /\ Rounds' = Rounds
    BY <2>1, <2>2, AppendQueue, RoundsType DEF SrvInv, SrvTypeOK, QueueSound, Rounds, Arrival
  <2>4. SrvTypeOK'
    BY <1>1, <2>2, <2>3 DEF SrvInv, SrvTypeOK, perConn
  <2>5. QueueSound' /\ TableSound' /\ ClosingIsTimed' /\ TableBounded'
    <3>1. Sound(h)'
      BY <2>1 DEF Sound, ArrivalSound, PostSound, CloseSound
    <3> QED BY <1>1, <2>2, <2>3, <3>1, ConnsUntouched
  <2>6. FirstRun'
    BY <1>1 DEF FirstRun
  <2>7. LoopsBounded'
    BY <1>1, <2>2, <2>3, <2>4, RoundsType DEF SrvInv, LoopsBounded, Loops, Rounds
  <2> QED BY <2>4, <2>5, <2>6, <2>7 DEF SrvInv
<1> QED BY <1>2, <1>3

LEMMA MonitorInv == ASSUME SrvInv, Monitor PROVE SrvInv'
<1>1. CASE MonitorWakes
  <2>1. SrvTypeOK'
    BY <1>1 DEF SrvInv, SrvTypeOK, MonitorWakes, listener, perConn, bounds
  <2>2. QueueSound' /\ TableSound' /\ ClosingIsTimed' /\ TableBounded'
    BY <1>1, ConnsUntouched DEF MonitorWakes, SrvInv, QueueSound, bounds
  <2>3. FirstRun' /\ LoopsBounded'
    BY <1>1 DEF SrvInv, FirstRun, LoopsBounded, Loops, MonitorWakes, listener, bounds
  <2> QED BY <2>1, <2>2, <2>3 DEF SrvInv
<1>2. CASE MonitorPosts
  <2> DEFINE h == Handler("sweep", NoConn, "ok")
  <2>1. h \in Handlers /\ h.kind = "sweep"
    BY HandlerType
  <2>2. /\ ready' \in Seq(Handlers)
        /\ ToSet(ready') = ToSet(ready) \cup {h}
        /\ OneArrival(ready')
        /\ Rounds' = Rounds
    BY <1>2, <2>1, AppendQueue, RoundsType
       DEF MonitorPosts, SrvInv, SrvTypeOK, QueueSound, Rounds, Arrival
  <2>3. SrvTypeOK'
    BY <1>2, <2>2 DEF SrvInv, SrvTypeOK, MonitorPosts, listener, perConn, bounds
  <2>4. QueueSound' /\ TableSound' /\ ClosingIsTimed' /\ TableBounded'
    <3>1. Sound(h)'
      BY <2>1 DEF Sound, ArrivalSound, PostSound, CloseSound
    <3> QED BY <1>2, <2>2, <3>1, ConnsUntouched DEF MonitorPosts, bounds
  <2>5. Loops' = Loops /\ UNCHANGED <<running, listener, bounds>>
    BY <1>2, <2>2, <2>3, RoundsType DEF SrvInv, Loops, Rounds, MonitorPosts, listener, bounds
  <2>6. FirstRun' /\ LoopsBounded'
    BY <2>1, <2>2, <2>5 DEF SrvInv, FirstRun, Unharmed, LoopsBounded, listener, bounds
  <2> QED BY <2>3, <2>4, <2>6 DEF SrvInv
<1> QED BY <1>1, <1>2 DEF Monitor

-----------------------------------------------------------------------------
(* The acceptor's handlers.                                                *)

\* What a handler that puts nothing behind the queue leaves.
LEMMA OnlyRest ==
  ASSUME SrvInv, ready # <<>>, ready' = Rest
  PROVE  /\ ready' \in Seq(Handlers) /\ ToSet(ready') \subseteq ToSet(ready)
         /\ OneArrival(ready') /\ Rounds' \in Nat
         /\ Rounds = Rounds' + IF Head(ready).kind = "accept" THEN 1 ELSE 0
  BY RestQueue DEF SrvInv, Rounds

\* An accept that failed, in whatever way, for a server in whatever state.
LEMMA AcceptStoppedInv == ASSUME SrvInv, AcceptStopped PROVE SrvInv'
<1> DEFINE h == Head(ready)
<1>1. ready # <<>> /\ h.kind = "accept" /\ ~running /\ ready' = Rest
      /\ phase' = [c \in Conns |-> IF c = h.conn THEN "closed" ELSE phase[c]]
      /\ UNCHANGED <<running, monitor, launched, acceptor, accepts, retries, sessions, owes, stop,
                     idle, waited, starts, stops, calls, errors>>
  BY DEF AcceptStopped, Posted, listener, bounds
<1>2. /\ ready' \in Seq(Handlers) /\ ToSet(ready') \subseteq ToSet(ready)
      /\ OneArrival(ready') /\ Rounds' \in Nat /\ Rounds = Rounds' + 1
  BY <1>1, OnlyRest
<1>3. Sound(h) /\ \A g \in ToSet(Rest) : Arrival(h) /\ Arrival(g) => g.conn # h.conn
  BY <1>1, RestQueue DEF SrvInv
<1>4. SrvTypeOK'
  BY <1>1, <1>2 DEF SrvInv, SrvTypeOK
<1>5. ASSUME NEW c \in Conns
      PROVE  /\ \/ phase'[c] = phase[c]
                \/ /\ phase[c] = "arriving" /\ phase'[c] = "closed"
                   /\ c = h.conn /\ Arrival(h)
             /\ stop'[c] = stop[c]
  <2>1. phase'[c] = IF c = h.conn THEN "closed" ELSE phase[c]
    BY <1>1
  <2>2. c = h.conn => Arrival(h) /\ phase[c] = "arriving"
    BY <1>1, <1>3, ServerAssumption DEF Sound, ArrivalSound, Arrival
  <2>3. stop'[c] = stop[c]
    BY <1>1
  <2> QED BY <2>1, <2>2, <2>3
<1>6. QueueSound'
  <2> SUFFICES ASSUME NEW g \in ToSet(ready') PROVE Sound(g)'
    BY <1>2 DEF QueueSound
  <2>1. Sound(g) /\ g \in ToSet(Rest)
    BY <1>1, <1>2 DEF SrvInv, QueueSound
  <2>2. ArrivalSound(g)'
    BY <1>3, <1>5, <2>1 DEF Sound, ArrivalSound, Arrival
  <2>3. PostSound(g)' /\ CloseSound(g)'
    BY <1>5, <2>1 DEF Sound, PostSound, CloseSound, Known
  <2> QED BY <2>2, <2>3 DEF Sound
<1>7. TableSound' /\ ClosingIsTimed' /\ TableBounded'
  BY <1>1, <1>5 DEF SrvInv, SrvTypeOK, TableSound, ClosingIsTimed, TableBounded, Known, Live
<1>8. Loops' = Loops - 1 /\ Loops \in Nat /\ Loops # 0
  BY SMTT(20), <1>1, <1>2, RoundsType DEF SrvInv, Loops, Rounds
<1>9. launched
  BY <1>8 DEF SrvInv, LoopsBounded
<1>10. FirstRun' /\ LoopsBounded'
  <2>1. starts' = starts /\ starts \in Nat
    BY <1>1, RoundsType DEF SrvInv
  <2>2. stops # 0
    BY <1>1, <1>9 DEF SrvInv, FirstRun
  <2> QED BY <1>1, <1>8, <1>9, <2>1, <2>2 DEF SrvInv, FirstRun, LoopsBounded
<1> QED BY <1>4, <1>6, <1>7, <1>10 DEF SrvInv

\* The head of the queue brought a connection, and the server goes on accepting.
LEMMA NextAcceptInv ==
  ASSUME SrvInv, Posted("accept"), running, StartAccept(Rest),
         UNCHANGED <<running, launched, acceptor, retries, stop, starts, stops>>
  PROVE  /\ ready' \in Seq(Handlers) /\ accepts' \in Nat
         /\ \A g \in ToSet(ready') : g \in ToSet(Rest) \/ g = BadAccept
         /\ OneArrival(ready') /\ FirstRun' /\ LoopsBounded' /\ Loops' = Loops
         /\ ToSet(Rest) \subseteq ToSet(ready')
<1>1. ready # <<>> /\ Head(ready).kind = "accept"
  BY DEF Posted
<1>2. /\ Rest \in Seq(Handlers) /\ ToSet(Rest) \subseteq ToSet(ready) /\ OneArrival(Rest)
      /\ Rounds = HowMany(Rest, {"accept"}) + 1 /\ HowMany(Rest, {"accept"}) \in Nat
  BY <1>1, RestQueue DEF SrvInv
<1>3. /\ ready' \in Seq(Handlers) /\ accepts' \in Nat
      /\ ToSet(ready') \subseteq ToSet(Rest) \cup {BadAccept} /\ ToSet(Rest) \subseteq ToSet(ready')
      /\ acceptor # "closed" => ready' = Rest
      /\ OneArrival(ready')
      /\ \/ accepts' = accepts + 1 /\ Rounds' = HowMany(Rest, {"accept"})
         \/ accepts' = accepts /\ Rounds' = HowMany(Rest, {"accept"}) + 1
  BY <1>2, StartAcceptQueue DEF SrvInv
<1>4. Loops' = Loops
  <2>1. retries' = retries /\ retries \in Nat /\ accepts \in Nat
    BY RoundsType DEF SrvInv
  <2>2. CASE accepts' = accepts + 1 /\ Rounds' = HowMany(Rest, {"accept"})
    BY <1>2, <2>1, <2>2 DEF Loops, Rounds
  <2>3. CASE accepts' = accepts /\ Rounds' = HowMany(Rest, {"accept"}) + 1
    BY <1>2, <2>1, <2>3 DEF Loops, Rounds
  <2> QED BY <1>3, <2>2, <2>3
<1>5. LoopsBounded'
  BY <1>4 DEF SrvInv, LoopsBounded
<1>6. FirstRun'
  <2> SUFFICES ASSUME stops = 0 PROVE FirstRun'
    BY DEF FirstRun
  <2>1. launched
    BY DEF SrvInv, LoopsBounded
  <2>2. acceptor # "closed" /\ ready' = Rest
    BY <1>3, <2>1 DEF SrvInv, FirstRun
  <2> QED BY <1>2, <1>4, <2>1, <2>2 DEF SrvInv, FirstRun, Unharmed
<1> QED BY <1>3, <1>4, <1>5, <1>6

\* A connection that is no longer "arriving": it was nobody's, so that nothing
\* known of another handler or session is about it.
LEMMA ArrivedInv ==
  ASSUME SrvInv, AcceptHandler("ok"), NEW v \in {"open", "closed"},
         phase' = [phase EXCEPT ![Head(ready).conn] = v], stop' = stop,
         \A g \in ToSet(ready') : g \in ToSet(Rest) \/ g = BadAccept,
         OneArrival(ready')
  PROVE  /\ Head(ready).conn \in Conns /\ phase[Head(ready).conn] = "arriving"
         /\ phase' \in [Conns -> {"away", "arriving", "open", "closing", "closed"}]
         /\ \A c \in Conns : c # Head(ready).conn => phase'[c] = phase[c]
         /\ QueueSound' /\ ClosingIsTimed'
<1> DEFINE h == Head(ready)
<1>1. ready # <<>> /\ Arrival(h)
  BY DEF AcceptHandler, Posted, Arrival
<1>2. h.conn \in Conns /\ phase[h.conn] = "arriving"
  BY <1>1, RestQueue DEF SrvInv, Sound, ArrivalSound, Arrival
<1>3. phase' \in [Conns -> {"away", "arriving", "open", "closing", "closed"}]
  BY <1>2 DEF SrvInv, SrvTypeOK
<1>4. \A c \in Conns : phase'[c] = IF c = h.conn THEN v ELSE phase[c]
  BY <1>2 DEF SrvInv, SrvTypeOK
<1>5. QueueSound'
  <2> SUFFICES ASSUME NEW g \in ToSet(ready') PROVE Sound(g)'
    BY DEF QueueSound
  <2>1. CASE g \in ToSet(Rest)
    <3>1. Sound(g) /\ (Arrival(g) => g.conn # h.conn)
      BY <1>1, <2>1, RestQueue DEF SrvInv, QueueSound
    <3>2. ArrivalSound(g)'
      BY <1>4, <3>1 DEF Sound, ArrivalSound, Arrival
    <3>3. PostSound(g)' /\ CloseSound(g)'
      BY <1>2, <1>4, <3>1 DEF Sound, PostSound, CloseSound, Known
    <3> QED BY <3>2, <3>3 DEF Sound
  <2>2. CASE g = BadAccept
    BY <2>2, HandlerType DEF BadAccept, Sound, ArrivalSound, PostSound, CloseSound
  <2> QED BY <2>1, <2>2
<1>6. ClosingIsTimed'
  BY <1>4 DEF SrvInv, ClosingIsTimed
<1> QED BY <1>2, <1>3, <1>4, <1>5, <1>6

LEMMA AcceptRefusedInv == ASSUME SrvInv, AcceptRefused PROVE SrvInv'
<1> DEFINE h == Head(ready)
<1>1. /\ AcceptHandler("ok") /\ running /\ StartAccept(Rest)
      /\ phase' = [phase EXCEPT ![h.conn] = "closed"] /\ stop' = stop
      /\ UNCHANGED <<running, launched, acceptor, retries, stop, starts, stops>>
      /\ UNCHANGED <<monitor, sessions, owes, idle, waited, calls, errors>>
  BY DEF AcceptRefused, bounds
<1>2. /\ ready' \in Seq(Handlers) /\ accepts' \in Nat
      /\ \A g \in ToSet(ready') : g \in ToSet(Rest) \/ g = BadAccept
      /\ OneArrival(ready') /\ FirstRun' /\ LoopsBounded'
  BY <1>1, NextAcceptInv DEF AcceptHandler
<1>3. /\ h.conn \in Conns /\ phase[h.conn] = "arriving"
      /\ phase' \in [Conns -> {"away", "arriving", "open", "closing", "closed"}]
      /\ \A c \in Conns : c # h.conn => phase'[c] = phase[c]
      /\ QueueSound' /\ ClosingIsTimed'
  BY <1>1, <1>2, ArrivedInv
<1>4. phase'[h.conn] = "closed"
  BY <1>1, <1>3 DEF SrvInv, SrvTypeOK
<1>5. SrvTypeOK'
  BY <1>1, <1>2, <1>3 DEF SrvInv, SrvTypeOK
<1>6. TableSound'
  BY <1>1, <1>3 DEF SrvInv, SrvTypeOK, TableSound, Known
<1>7. TableBounded'
  BY <1>1, <1>3, <1>4 DEF SrvInv, TableBounded, Live
<1> QED BY <1>2, <1>3, <1>5, <1>6, <1>7 DEF SrvInv

LEMMA AcceptInv == ASSUME SrvInv, Accept PROVE SrvInv'
<1> DEFINE h == Head(ready)
<1>1. /\ AcceptHandler("ok") /\ running /\ StartAccept(Rest) /\ ~TooMany
      /\ phase' = [phase EXCEPT ![h.conn] = "open"] /\ stop' = stop
      /\ idle' = [idle EXCEPT ![h.conn] = 0] /\ sessions' = sessions \cup {h.conn}
      /\ UNCHANGED <<running, launched, acceptor, retries, stop, starts, stops>>
      /\ UNCHANGED <<monitor, owes, waited, calls, errors>>
  BY DEF Accept, bounds
<1>2. /\ ready' \in Seq(Handlers) /\ accepts' \in Nat
      /\ \A g \in ToSet(ready') : g \in ToSet(Rest) \/ g = BadAccept
      /\ OneArrival(ready') /\ FirstRun' /\ LoopsBounded'
  BY <1>1, NextAcceptInv DEF AcceptHandler
<1>3. /\ h.conn \in Conns /\ phase[h.conn] = "arriving"
      /\ phase' \in [Conns -> {"away", "arriving", "open", "closing", "closed"}]
      /\ \A c \in Conns : c # h.conn => phase'[c] = phase[c]
      /\ QueueSound' /\ ClosingIsTimed'
  BY <1>1, <1>2, ArrivedInv
<1>4. phase'[h.conn] = "open"
  BY <1>1, <1>3 DEF SrvInv, SrvTypeOK
<1>5. SrvTypeOK'
  <2>1. idle' \in [Conns -> 0..timeOut + 1]
    BY SMTT(20), <1>1, <1>3, ServerAssumption DEF SrvInv, SrvTypeOK
  <2> QED BY <1>1, <1>2, <1>3, <2>1 DEF SrvInv, SrvTypeOK
<1>6. TableSound'
  BY <1>1, <1>3, <1>4 DEF SrvInv, SrvTypeOK, TableSound, Known
<1>7. TableBounded'
  <2>1. IsFiniteSet(sessions)
    BY ServerAssumption, FS_Subset DEF SrvInv, SrvTypeOK
  <2>2. /\ IsFiniteSet(sessions \cup {h.conn})
        /\ Cardinality(sessions \cup {h.conn})
             = IF h.conn \in sessions THEN Cardinality(sessions) ELSE Cardinality(sessions) + 1
    BY <2>1, FS_AddElement
  <2>3. Cardinality(sessions) \in Nat /\ Cardinality(sessions \cup {h.conn}) \in Nat
    BY <2>1, <2>2, FS_CardinalityType
  <2> QED BY <1>1, <2>2, <2>3, ServerAssumption DEF TableBounded, TooMany
<1> QED BY <1>2, <1>3, <1>5, <1>6, <1>7 DEF SrvInv

\* The handlers of an accept that failed.
LEMMA AcceptEndedInv ==
  ASSUME SrvInv, Posted("accept"), running, ready' = Rest, accepts' = accepts,
         \/ AcceptCancelled \/ AcceptUseless \/ AcceptFailed
  PROVE  SrvInv'
<1>1. /\ ready # <<>> /\ Head(ready).kind = "accept"
      /\ UNCHANGED <<monitor, launched, acceptor, sessions, perConn, bounds>>
  BY DEF AcceptCancelled, AcceptUseless, AcceptFailed, Posted, listener
<1>2. /\ ready' \in Seq(Handlers) /\ ToSet(ready') \subseteq ToSet(ready)
      /\ OneArrival(ready') /\ Rounds' \in Nat /\ Rounds = Rounds' + 1
  BY <1>1, OnlyRest
<1>3. retries' = retries \/ retries' = retries + 1
  BY DEF AcceptCancelled, AcceptUseless, AcceptFailed, listener
<1>4. running' \in BOOLEAN
  BY DEF SrvInv, SrvTypeOK, AcceptCancelled, AcceptUseless, AcceptFailed
<1>5. retries' \in Nat
  BY <1>3 DEF SrvInv, SrvTypeOK
<1>6. SrvTypeOK'
  BY <1>1, <1>2, <1>4, <1>5 DEF SrvInv, SrvTypeOK, perConn, bounds
<1>7. QueueSound' /\ TableSound' /\ ClosingIsTimed' /\ TableBounded'
  BY <1>1, <1>2, ConnsUntouched DEF bounds
<1>8. launched /\ launched'
  BY <1>1 DEF SrvInv, LoopsBounded
<1>9. Loops' <= Loops /\ Loops \in Nat /\ Loops' \in Nat /\ starts' = starts /\ starts \in Nat
  <2>1. CASE retries' = retries
    BY <1>1, <1>2, <2>1, RoundsType DEF SrvInv, Loops, Rounds, bounds
  <2>2. CASE retries' = retries + 1
    BY <1>1, <1>2, <2>2, RoundsType DEF SrvInv, Loops, Rounds, bounds
  <2> QED BY <1>3, <2>1, <2>2
<1>10. LoopsBounded'
  BY <1>8, <1>9 DEF SrvInv, LoopsBounded
<1>11. FirstRun'
  <2> SUFFICES ASSUME stops = 0 PROVE FirstRun'
    BY <1>1 DEF FirstRun, bounds
  <2>1. Unharmed(Head(ready)) /\ \A h \in ToSet(ready') : Unharmed(h)
    BY <1>1, <1>2, RestQueue DEF SrvInv, FirstRun
  <2>2. Head(ready).ec = "error"
    <3>1. Head(ready).ec # "ok"
      BY DEF AcceptCancelled, AcceptUseless, AcceptFailed, AcceptHandler
    <3> QED BY <1>1, <2>1, <3>1 DEF Unharmed
  <2>3. AcceptFailed
    BY <2>2 DEF AcceptCancelled, AcceptUseless, AcceptHandler
  <2>4. retries' = retries + 1 /\ running' /\ acceptor' = acceptor
    BY <1>1, <2>3 DEF AcceptFailed
  <2>5. Loops' = Loops
    BY <1>2, <2>4, RoundsType DEF SrvInv, Loops, Rounds
  <2> QED BY <1>8, <2>1, <2>4, <2>5 DEF SrvInv, FirstRun
<1> QED BY <1>6, <1>7, <1>10, <1>11 DEF SrvInv

LEMMA RunAcceptInv == ASSUME SrvInv, RunAccept PROVE SrvInv'
<1>1. ASSUME AcceptCancelled \/ AcceptUseless \/ AcceptFailed PROVE SrvInv'
  <2>1. Posted("accept") /\ running /\ ready' = Rest /\ accepts' = accepts
    BY <1>1 DEF AcceptCancelled, AcceptUseless, AcceptFailed, AcceptHandler, listener
  <2> QED BY <1>1, <2>1, AcceptEndedInv
<1> QED BY <1>1, AcceptStoppedInv, AcceptRefusedInv, AcceptInv DEF RunAccept

LEMMA RetryInv == ASSUME SrvInv, Retry PROVE SrvInv'
<1>1. /\ retries' = retries - 1 /\ retries > 0 /\ retries \in Nat /\ retries' \in Nat
      /\ UNCHANGED <<running, monitor, launched, acceptor, sessions, perConn, bounds>>
  BY DEF Retry, SrvInv, SrvTypeOK
<1>2. Loops \in Nat /\ Loops # 0 /\ starts \in Nat /\ accepts \in Nat /\ Rounds \in Nat
  BY <1>1, RoundsType DEF SrvInv
<1>3. launched /\ ready \in Seq(Handlers) /\ OneArrival(ready) /\ Rounds = HowMany(ready, {"accept"})
  BY <1>2 DEF SrvInv, SrvTypeOK, LoopsBounded, QueueSound, Rounds
<1>4. CASE ~running
  <2>1. ready' = ready /\ accepts' = accepts
    BY <1>4 DEF Retry
  <2>2. SrvTypeOK'
    BY <1>1, <2>1 DEF SrvInv, SrvTypeOK, perConn, bounds
  <2>3. QueueSound' /\ TableSound' /\ ClosingIsTimed' /\ TableBounded'
    BY <1>1, <1>3, <2>1, ConnsUntouched DEF bounds
  <2>4. Loops' = Loops - 1
    BY <1>1, <1>2, <2>1, RoundsType DEF SrvInv, Loops, Rounds
  <2>5. LoopsBounded'
    BY <1>1, <1>2, <1>3, <2>4 DEF SrvInv, LoopsBounded, bounds
  <2>6. FirstRun'
    BY <1>1, <1>3, <1>4 DEF SrvInv, FirstRun, bounds
  <2> QED BY <2>2, <2>3, <2>5, <2>6 DEF SrvInv
<1>5. CASE running
  <2>1. /\ ready' \in Seq(Handlers) /\ accepts' \in Nat
        /\ ToSet(ready') \subseteq ToSet(ready) \cup {BadAccept}
        /\ acceptor # "closed" => ready' = ready
        /\ OneArrival(ready')
        /\ \/ accepts' = accepts + 1 /\ Rounds' = Rounds
           \/ accepts' = accepts /\ Rounds' = Rounds + 1
    BY <1>3, <1>5, StartAcceptQueue DEF SrvInv, Retry
  <2>2. SrvTypeOK'
    BY <1>1, <2>1 DEF SrvInv, SrvTypeOK, perConn, bounds
  <2>3. QueueSound' /\ TableSound' /\ ClosingIsTimed' /\ TableBounded'
    <3>1. Sound(BadAccept)'
      BY HandlerType DEF BadAccept, Sound, ArrivalSound, PostSound, CloseSound
    <3> QED BY <1>1, <2>1, <3>1, ConnsUntouched DEF bounds
  <2>4. Loops' = Loops
    <3>1. CASE accepts' = accepts + 1 /\ Rounds' = Rounds
      BY <1>1, <1>2, <3>1 DEF Loops, Rounds
    <3>2. CASE accepts' = accepts /\ Rounds' = Rounds + 1
      BY <1>1, <1>2, <3>2 DEF Loops, Rounds
    <3> QED BY <2>1, <3>1, <3>2
  <2>5. LoopsBounded'
    BY <1>1, <1>3, <2>4 DEF SrvInv, LoopsBounded, bounds
  <2>6. FirstRun'
    <3> SUFFICES ASSUME stops = 0 PROVE FirstRun'
      BY <1>1 DEF FirstRun, bounds
    <3>1. ready' = ready
      BY <1>3, <2>1 DEF SrvInv, FirstRun
    <3> QED BY <1>1, <1>3, <2>4, <3>1 DEF SrvInv, FirstRun
  <2> QED BY <2>2, <2>3, <2>5, <2>6 DEF SrvInv
<1> QED BY <1>4, <1>5

-----------------------------------------------------------------------------
(* The sweep, closeAll() and the sessions' posts.                          *)

\* A step that starts, stops and accepts nothing and posts only what a running
\* server may: its loops are those it had.
LEMMA LoopsUntouched ==
  ASSUME SrvInv, Rounds' = Rounds,
         UNCHANGED <<running, launched, acceptor, accepts, retries, starts, stops>>,
         \A g \in ToSet(ready') \ ToSet(ready) : Unharmed(g)
  PROVE  FirstRun' /\ LoopsBounded' /\ Loops' = Loops
<1>1. Loops' = Loops
  BY DEF Loops, Rounds
<1> QED BY <1>1 DEF SrvInv, FirstRun, LoopsBounded

LEMMA RunCloseAllInv == ASSUME SrvInv, RunCloseAll PROVE SrvInv'
<1>1. ready # <<>> /\ Head(ready).kind = "closeAll" /\ CloseAll(Rest)
      /\ UNCHANGED <<running, monitor, launched, retries, phase, owes, idle, starts, stops,
                     calls, errors>>
  BY DEF RunCloseAll, Posted, bounds
<1>2. /\ Rest \in Seq(Handlers) /\ ToSet(Rest) \subseteq ToSet(ready) /\ OneArrival(Rest)
      /\ Rounds = HowMany(Rest, {"accept"}) /\ Head(ready) \in ToSet(ready)
  BY <1>1, RestQueue DEF SrvInv
<1>3. stops' \in 0..MaxStops /\ running' \in BOOLEAN
  BY <1>1 DEF SrvInv, SrvTypeOK
<1>4. stops' # 0
  BY <1>1, <1>2, RoundsType DEF SrvInv, FirstRun, Unharmed, LoopsBounded, QueueSound
<1> QED BY <1>1, <1>2, <1>3, <1>4, CloseAllInv

LEMMA SweepInv == ASSUME SrvInv, Sweep PROVE SrvInv'
<1> DEFINE late  == {c \in sessions : TimedOut(c) /\ ~IsClosed(c)}
           stuck == {c \in sessions \ late : NeedForceClose(c)}
           sends == Posts("send", late)
           told  == Behind(Rest, sends)
<1>1. /\ ready # <<>> /\ Head(ready).kind = "sweep"
      /\ CloseSessions(late, told) /\ Dropped(stuck)
      /\ sessions' = {c \in sessions : c \notin stuck /\ ~NeedReclaim(c)}
      /\ UNCHANGED <<running, monitor, launched, acceptor, accepts, retries, idle,
                     starts, stops, calls, errors>>
  BY DEF Sweep, Posted, listener, bounds, Posts, Behind
<1>2. late \in SUBSET Conns /\ late \subseteq sessions /\ stuck \subseteq sessions
  BY DEF SrvInv, SrvTypeOK
<1>3. /\ Rest \in Seq(Handlers) /\ ToSet(Rest) \subseteq ToSet(ready) /\ OneArrival(Rest)
      /\ Rounds = HowMany(Rest, {"accept"})
  BY <1>1, RestQueue DEF SrvInv
<1>4. /\ told \in Seq(Handlers) /\ ToSet(told) = ToSet(Rest) \cup sends
      /\ OneArrival(told) /\ HowMany(told, {"accept"}) = Rounds
  BY <1>2, <1>3, PostsQueue
<1> HIDE DEF told
<1>5. /\ stop' \in [Conns -> BOOLEAN] /\ waited' \in [Conns -> 0..kCloseGraceSeconds + 1]
      /\ \A c \in Conns : stop'[c] <=> stop[c] \/ c \in late
      /\ ready' \in Seq(Handlers)
      /\ ToSet(ready') = ToSet(told) \cup Closes(late)
      /\ OneArrival(ready') /\ Rounds' = Rounds
  BY <1>1, <1>2, <1>4, CloseSessionsQueue DEF SrvInv
<1>14. ToSet(ready') \subseteq ToSet(ready) \cup sends \cup Closes(late)
  BY <1>3, <1>4, <1>5
<1> HIDE DEF late, stuck
<1>6. /\ phase' \in [Conns -> {"away", "arriving", "open", "closing", "closed"}]
      /\ owes' \in [Conns -> BOOLEAN]
      /\ \A c \in Conns : phase'[c] = IF c \in stuck /\ Live(c) THEN "closed" ELSE phase[c]
  BY <1>1 DEF Dropped, SrvInv, SrvTypeOK
<1>7. SrvTypeOK'
  BY <1>1, <1>5, <1>6 DEF SrvInv, SrvTypeOK
<1>8. \A c \in Conns : Onward(c)
  BY <1>5, <1>6 DEF Onward, Known, Live
<1>9. QueueSound'
  <2>1. ASSUME NEW c \in late PROVE /\ Sound(Handler("send", c, "ok"))'
                                    /\ Sound(Handler("close", c, "ok"))'
    <3>1. c \in Conns /\ Known(c)' /\ stop'[c]
      BY <1>2, <1>5, <1>8 DEF SrvInv, TableSound, Onward
    <3>2. /\ Handler("send", c, "ok").kind = "send" /\ Handler("send", c, "ok").conn = c
          /\ Handler("close", c, "ok").kind = "close" /\ Handler("close", c, "ok").conn = c
      BY <3>1, HandlerType
    <3> QED BY <3>1, <3>2 DEF Sound, ArrivalSound, PostSound, CloseSound
  <2>2. \A h \in sends \cup Closes(late) : Sound(h)'
    BY <2>1 DEF Closes, Posts
  <2> QED BY <1>5, <1>14, <1>8, <2>2, QueueKept DEF SrvInv
<1>10. TableSound' /\ TableBounded'
  BY <1>1, <1>8, TableKept DEF SrvInv
<1>11. ClosingIsTimed'
  BY <1>5, <1>6 DEF SrvInv, ClosingIsTimed
<1>12. FirstRun' /\ LoopsBounded'
  <2>1. \A g \in sends \cup Closes(late) : Unharmed(g)
    <3>1. ASSUME NEW c \in late PROVE /\ Handler("send", c, "ok").kind = "send"
                                      /\ Handler("close", c, "ok").kind = "close"
      BY <1>2, HandlerType
    <3> QED BY <3>1 DEF Closes, Posts, Unharmed
  <2> QED BY <1>1, <1>5, <1>14, <2>1, LoopsUntouched
<1> QED BY <1>7, <1>9, <1>10, <1>11, <1>12 DEF SrvInv

LEMMA RunSendInv == ASSUME SrvInv, RunSend PROVE SrvInv'
<1>1. /\ ready # <<>> /\ Head(ready).kind = "send"
      /\ UNCHANGED <<running, monitor, launched, acceptor, accepts, retries, sessions, phase,
                     stop, waited, starts, stops, calls, errors>>
  BY DEF RunSend, Posted, listener, bounds
<1>2. PICK c \in Conns : c = Head(ready).conn /\ Known(c)
  BY <1>1, RestQueue DEF SrvInv, Sound, PostSound
<1> DEFINE again == Handler("close", c, "ok")
<1>3. /\ Rest \in Seq(Handlers) /\ ToSet(Rest) \subseteq ToSet(ready) /\ OneArrival(Rest)
      /\ Rounds = HowMany(Rest, {"accept"}) /\ Rounds \in Nat
  BY <1>1, RestQueue DEF SrvInv
<1>4. again \in Handlers /\ again.kind = "close" /\ again.conn = c
  BY <1>2, HandlerType
<1>5. /\ Append(Rest, again) \in Seq(Handlers)
      /\ ToSet(Append(Rest, again)) = ToSet(Rest) \cup {again}
      /\ OneArrival(Append(Rest, again))
      /\ HowMany(Append(Rest, again), {"accept"}) = Rounds
  BY <1>3, <1>4, AppendQueue DEF Arrival
<1>6. ready' = Rest \/ (ready' = Append(Rest, again) /\ phase[c] # "open")
  BY <1>2 DEF RunSend
<1>7. /\ ready' \in Seq(Handlers) /\ OneArrival(ready') /\ Rounds' = Rounds
      /\ \A h \in ToSet(ready') : h \in ToSet(ready) \/ (h = again /\ phase[c] # "open")
  BY <1>3, <1>5, <1>6 DEF Rounds
<1>8. owes' \in [Conns -> BOOLEAN] /\ idle' \in [Conns -> 0..timeOut + 1]
  <2>1. /\ owes' = owes \/ owes' = [owes EXCEPT ![c] = TRUE]
        /\ idle' = idle \/ idle' = [idle EXCEPT ![c] = 0]
    BY <1>2 DEF RunSend
  <2>2. owes' \in [Conns -> BOOLEAN]
    BY <2>1 DEF SrvInv, SrvTypeOK
  <2>3. 0 \in 0..timeOut + 1
    BY ServerAssumption
  <2>4. idle' \in [Conns -> 0..timeOut + 1]
    BY <2>1, <2>3 DEF SrvInv, SrvTypeOK
  <2> QED BY <2>2, <2>4
<1>9. SrvTypeOK'
  BY <1>1, <1>7, <1>8 DEF SrvInv, SrvTypeOK
<1>10. \A d \in Conns : Onward(d)
  BY <1>1 DEF Onward, Known
<1>11. QueueSound'
  <2>1. phase[c] # "open" => Sound(again)'
    BY <1>1, <1>2, <1>4 DEF Sound, ArrivalSound, PostSound, CloseSound, Known
  <2> QED BY <1>7, <1>10, <2>1, QueueKept DEF SrvInv
<1>12. TableSound' /\ TableBounded' /\ ClosingIsTimed'
  BY <1>1 DEF SrvInv, TableSound, TableBounded, ClosingIsTimed, Known, Live
<1>13. FirstRun' /\ LoopsBounded'
  BY <1>1, <1>4, <1>7, LoopsUntouched DEF Unharmed
<1> QED BY <1>9, <1>11, <1>12, <1>13 DEF SrvInv

LEMMA RunCloseInv == ASSUME SrvInv, RunClose PROVE SrvInv'
<1> DEFINE h == Head(ready)
<1>1. /\ ready # <<>> /\ h.kind = "close" /\ ready' = Rest
      /\ phase' = [phase EXCEPT ![h.conn] = IF @ # "open" THEN @
                                 ELSE IF owes[h.conn] THEN "closing" ELSE "closed"]
      /\ UNCHANGED <<running, monitor, launched, acceptor, accepts, retries, sessions, owes, idle,
                     stop, waited, starts, stops, calls, errors>>
  BY DEF RunClose, Posted, listener, bounds
<1>2. h.conn \in Conns /\ Known(h.conn) /\ (stop[h.conn] \/ phase[h.conn] # "open")
  BY <1>1, RestQueue DEF SrvInv, Sound, PostSound, CloseSound
<1>3. /\ ready' \in Seq(Handlers) /\ ToSet(ready') \subseteq ToSet(ready)
      /\ OneArrival(ready') /\ Rounds' \in Nat /\ Rounds' = Rounds
  BY <1>1, OnlyRest
<1>4. phase' \in [Conns -> {"away", "arriving", "open", "closing", "closed"}]
  BY <1>1, <1>2 DEF SrvInv, SrvTypeOK
<1>5. \A c \in Conns : \/ phase'[c] = phase[c]
                       \/ phase[c] = "open" /\ stop[c] /\ phase'[c] \in {"closing", "closed"}
  BY <1>1, <1>2 DEF SrvInv, SrvTypeOK
<1>6. SrvTypeOK'
  BY <1>1, <1>3, <1>4 DEF SrvInv, SrvTypeOK
<1>7. \A c \in Conns : Onward(c)
  BY <1>1, <1>5 DEF Onward, Known
<1>8. QueueSound'
  BY <1>3, <1>7, QueueKept DEF SrvInv
<1>9. TableSound' /\ TableBounded'
  BY <1>1, <1>7, TableKept DEF SrvInv
<1>10. ClosingIsTimed'
  BY <1>1, <1>5 DEF SrvInv, ClosingIsTimed, Live
<1>11. FirstRun' /\ LoopsBounded'
  BY <1>1, <1>3, LoopsUntouched
<1> QED BY <1>6, <1>8, <1>9, <1>10, <1>11 DEF SrvInv

-----------------------------------------------------------------------------
(* The business, the peers and the clock.                                  *)

\* closeSession() for some connections, from the queue's handlers or from outside.
LEMMA ClosesInv ==
  ASSUME SrvInv, NEW C \in SUBSET Conns, \A c \in C : Known(c),
         NEW r \in Seq(Handlers), ToSet(r) \subseteq ToSet(ready), OneArrival(r),
         HowMany(r, {"accept"}) = Rounds,
         CloseSessions(C, r), sessions' \subseteq sessions,
         UNCHANGED <<running, monitor, launched, acceptor, accepts, retries, phase,
                     starts, stops, errors>>,
         owes' \in [Conns -> BOOLEAN], idle' \in [Conns -> 0..timeOut + 1], calls' \in 0..MaxCalls
  PROVE  SrvInv'
<1>1. SrvTypeOK
  BY DEF SrvInv
<1>2. /\ stop' \in [Conns -> BOOLEAN] /\ waited' \in [Conns -> 0..kCloseGraceSeconds + 1]
      /\ \A d \in Conns : stop'[d] <=> stop[d] \/ d \in C
      /\ ready' \in Seq(Handlers)
      /\ ToSet(ready') = ToSet(r) \cup Closes(C)
      /\ OneArrival(ready') /\ Rounds' = HowMany(r, {"accept"})
  BY <1>1, CloseSessionsQueue
<1>3. SrvTypeOK'
  <2>1. sessions' \subseteq Conns
    BY <1>1 DEF SrvTypeOK
  <2> QED BY <1>1, <1>2, <2>1 DEF SrvTypeOK
<1>4. \A d \in Conns : Onward(d)
  BY <1>2 DEF Onward, Known
<1>5. ASSUME NEW h \in Closes(C) PROVE Sound(h)' /\ Unharmed(h)
  <2>1. PICK c \in C : h = Handler("close", c, "ok")
    BY <1>5 DEF Closes, Posts
  <2>2. h.kind = "close" /\ h.conn = c
    BY <2>1, HandlerType
  <2>3. Known(c)' /\ stop'[c]
    BY <1>2, <1>4 DEF Onward
  <2> QED BY <2>2, <2>3 DEF Sound, ArrivalSound, PostSound, CloseSound, Unharmed
<1>6. QueueSound'
  BY <1>2, <1>4, <1>5, QueueKept DEF SrvInv
<1>7. TableSound' /\ TableBounded'
  BY <1>4, TableKept DEF SrvInv
<1>8. ClosingIsTimed'
  BY <1>2 DEF SrvInv, ClosingIsTimed
<1>9. FirstRun' /\ LoopsBounded'
  BY <1>2, <1>5, LoopsUntouched
<1> QED BY <1>3, <1>6, <1>7, <1>8, <1>9 DEF SrvInv

\* What a call finds in the place of `r'.
LEMMA WholeQueue ==
  ASSUME SrvInv
  PROVE  ready \in Seq(Handlers) /\ OneArrival(ready) /\ HowMany(ready, {"accept"}) = Rounds
  BY DEF SrvInv, SrvTypeOK, QueueSound, Rounds

LEMMA ReplyInv == ASSUME SrvInv, NEW c \in Conns, Reply(c) PROVE SrvInv'
<1> DEFINE h == Handler("send", c, "ok")
<1>1. /\ Known(c) /\ calls' \in 0..MaxCalls /\ ready' = Append(ready, h)
      /\ UNCHANGED <<running, monitor, launched, acceptor, accepts, retries, sessions, perConn,
                     starts, stops, errors>>
  BY ServerAssumption DEF Reply, Calls, Known, listener, SrvInv, SrvTypeOK
<1>2. h \in Handlers /\ h.kind = "send" /\ h.conn = c
  BY HandlerType
<1>3. /\ ready' \in Seq(Handlers) /\ ToSet(ready') = ToSet(ready) \cup {h}
      /\ OneArrival(ready') /\ Rounds' = Rounds
  BY SMTT(20), <1>1, <1>2, AppendQueue, RoundsType DEF SrvInv, SrvTypeOK, QueueSound, Rounds, Arrival
<1>4. SrvTypeOK'
  BY <1>1, <1>3 DEF SrvInv, SrvTypeOK, perConn
<1>5. Sound(h)'
  BY <1>1, <1>2 DEF Sound, ArrivalSound, PostSound, CloseSound, Known, perConn
<1>6. QueueSound' /\ TableSound' /\ ClosingIsTimed' /\ TableBounded'
  BY <1>1, <1>3, <1>5, ConnsUntouched
<1>7. FirstRun' /\ LoopsBounded'
  BY <1>1, <1>2, <1>3, LoopsUntouched DEF Unharmed
<1> QED BY <1>4, <1>6, <1>7 DEF SrvInv

LEMMA CloseSessionInv == ASSUME SrvInv, NEW c \in Conns, CloseSession(c) PROVE SrvInv'
<1>1. /\ Known(c) /\ CloseSessions({c}, ready)
      /\ calls' \in 0..MaxCalls /\ idle' \in [Conns -> 0..timeOut + 1]
      /\ UNCHANGED <<running, monitor, launched, acceptor, accepts, retries, sessions, phase,
                     starts, stops, errors>>
      /\ owes' \in [Conns -> BOOLEAN]
  BY SMTT(20), ServerAssumption DEF CloseSession, Calls, Known, listener, SrvInv, SrvTypeOK
<1>2. {c} \in SUBSET Conns /\ \A d \in {c} : Known(d)
  BY <1>1
<1> QED BY <1>1, <1>2, WholeQueue, ClosesInv

LEMMA DeliverInv == ASSUME SrvInv, NEW c \in Conns, Deliver(c) PROVE SrvInv'
<1>1. /\ Known(c) /\ calls' \in 0..MaxCalls /\ idle' \in [Conns -> 0..timeOut + 1]
      /\ UNCHANGED <<running, monitor, launched, acceptor, accepts, retries, sessions, phase,
                     owes, starts, stops, errors>>
  BY SMTT(20), ServerAssumption DEF Deliver, Calls, Known, Live, listener, SrvInv, SrvTypeOK
<1>2. CASE CloseSessions({c}, ready)
  <2>1. {c} \in SUBSET Conns /\ (\A d \in {c} : Known(d)) /\ owes' \in [Conns -> BOOLEAN]
    BY <1>1 DEF SrvInv, SrvTypeOK
  <2> QED BY <1>1, <1>2, <2>1, WholeQueue, ClosesInv
<1>3. CASE UNCHANGED <<ready, stop, waited>>
  <2>1. SrvTypeOK'
    BY <1>1, <1>3 DEF SrvInv, SrvTypeOK
  <2>2. \A d \in Conns : Onward(d)
    BY <1>1, <1>3 DEF Onward, Known
  <2>3. QueueSound'
    BY <1>3, <2>2, QueueKept DEF SrvInv, QueueSound
  <2>4. TableSound' /\ TableBounded' /\ ClosingIsTimed'
    BY <1>1, <1>3 DEF SrvInv, TableSound, TableBounded, ClosingIsTimed, Known, Live
  <2>5. FirstRun' /\ LoopsBounded'
    BY <1>1, <1>3, LoopsUntouched DEF Rounds
  <2> QED BY <2>1, <2>3, <2>4, <2>5 DEF SrvInv
<1> QED BY <1>2, <1>3 DEF Deliver

LEMMA ArriveInv == ASSUME SrvInv, NEW c \in Conns, Arrive(c) PROVE SrvInv'
<1> DEFINE h == Handler("accept", c, "ok")
<1>1. /\ phase[c] = "away" /\ phase' = [phase EXCEPT ![c] = "arriving"]
      /\ ready' = Append(ready, h) /\ accepts' = accepts - 1 /\ accepts > 0
      /\ UNCHANGED <<running, monitor, launched, acceptor, retries, sessions, owes, stop,
                     idle, waited, starts, stops, calls, errors>>
  BY DEF Arrive, bounds
<1>2. h \in Handlers /\ h.kind = "accept" /\ h.conn = c /\ h.ec = "ok"
  BY HandlerType
<1>3. \A g \in ToSet(ready) : Sound(g) /\ (Arrival(g) => g.conn # c)
  BY <1>1 DEF SrvInv, QueueSound, Sound, ArrivalSound, Arrival
<1>4. /\ ready' \in Seq(Handlers) /\ ToSet(ready') = ToSet(ready) \cup {h}
      /\ OneArrival(ready') /\ Rounds' = Rounds + 1 /\ Rounds \in Nat
  BY <1>1, <1>2, <1>3, AppendQueue, RoundsType DEF SrvInv, SrvTypeOK, QueueSound, Rounds
<1>5. /\ phase' \in [Conns -> {"away", "arriving", "open", "closing", "closed"}]
      /\ \A d \in Conns : phase'[d] = IF d = c THEN "arriving" ELSE phase[d]
  BY <1>1 DEF SrvInv, SrvTypeOK
<1>6. SrvTypeOK'
  <2>1. accepts' \in Nat
    BY <1>1 DEF SrvInv, SrvTypeOK
  <2> QED BY <1>1, <1>4, <1>5, <2>1 DEF SrvInv, SrvTypeOK
<1>7. \A d \in Conns : Onward(d)
  BY <1>1, <1>5 DEF Onward, Known
<1>8. QueueSound'
  <2>1. Sound(h)'
    BY <1>2, <1>5 DEF Sound, ArrivalSound, PostSound, CloseSound
  <2> QED BY <1>4, <1>7, <2>1, QueueKept DEF SrvInv
<1>9. TableSound' /\ TableBounded'
  BY <1>1, <1>7, TableKept DEF SrvInv
<1>10. ClosingIsTimed'
  BY <1>1, <1>5 DEF SrvInv, ClosingIsTimed, Live
<1>11. Loops' = Loops
  BY <1>1, <1>4, RoundsType DEF SrvInv, Loops, Rounds
<1>12. FirstRun' /\ LoopsBounded'
  BY <1>1, <1>2, <1>4, <1>11 DEF SrvInv, FirstRun, LoopsBounded, Unharmed
<1> QED BY <1>6, <1>8, <1>9, <1>10, <1>12 DEF SrvInv

LEMMA AcceptErrorInv == ASSUME SrvInv, AcceptError PROVE SrvInv'
<1> DEFINE h == Handler("accept", NoConn, "error")
<1>1. /\ ready' = Append(ready, h) /\ accepts' = accepts - 1 /\ accepts > 0
      /\ errors' \in 0..MaxErrors
      /\ UNCHANGED <<running, monitor, launched, acceptor, retries, sessions, perConn,
                     starts, stops, calls>>
  BY SMTT(20), ServerAssumption DEF AcceptError, SrvInv, SrvTypeOK
<1>2. h \in Handlers /\ h.kind = "accept" /\ h.conn = NoConn /\ h.ec = "error"
  BY HandlerType
<1>3. /\ ready' \in Seq(Handlers) /\ ToSet(ready') = ToSet(ready) \cup {h}
      /\ OneArrival(ready') /\ Rounds' = Rounds + 1 /\ Rounds \in Nat
  BY <1>1, <1>2, AppendQueue, RoundsType DEF SrvInv, SrvTypeOK, QueueSound, Rounds, Arrival
<1>4. SrvTypeOK'
  <2>1. accepts' \in Nat
    BY <1>1 DEF SrvInv, SrvTypeOK
  <2> QED BY <1>1, <1>3, <2>1 DEF SrvInv, SrvTypeOK, perConn
<1>5. Sound(h)'
  BY <1>2 DEF Sound, ArrivalSound, PostSound, CloseSound
<1>6. QueueSound' /\ TableSound' /\ ClosingIsTimed' /\ TableBounded'
  BY <1>1, <1>3, <1>5, ConnsUntouched
<1>7. Loops' = Loops
  BY <1>1, <1>3, RoundsType DEF SrvInv, Loops, Rounds
<1>8. FirstRun' /\ LoopsBounded'
  BY <1>1, <1>2, <1>3, <1>7 DEF SrvInv, FirstRun, LoopsBounded, Unharmed
<1> QED BY <1>4, <1>6, <1>8 DEF SrvInv

\* The connection ends, or only what it owes and its ages change.
LEMMA PeerInv ==
  ASSUME SrvInv, SrvTypeOK',
         \A c \in Conns : phase'[c] = phase[c] \/ (Live(c) /\ phase'[c] = "closed"),
         UNCHANGED <<running, launched, acceptor, accepts, retries, sessions, ready, stop,
                     starts, stops>>
  PROVE  SrvInv'
<1>1. \A c \in Conns : Onward(c)
  BY DEF Onward, Known, Live
<1>2. QueueSound'
  BY <1>1, QueueKept DEF SrvInv, QueueSound
<1>3. TableSound' /\ TableBounded'
  BY <1>1, TableKept DEF SrvInv
<1>4. ClosingIsTimed'
  BY DEF SrvInv, ClosingIsTimed, Live
<1>5. FirstRun' /\ LoopsBounded'
  BY LoopsUntouched DEF Rounds
<1> QED BY <1>2, <1>3, <1>4, <1>5 DEF SrvInv

LEMMA DrainInv == ASSUME SrvInv, NEW c \in Conns, Drain(c) PROVE SrvInv'
<1>1. SrvTypeOK'
  BY DEF Drain, SrvInv, SrvTypeOK, listener, bounds
<1>2. \A d \in Conns : phase'[d] = phase[d] \/ (Live(d) /\ phase'[d] = "closed")
  BY DEF Drain, SrvInv, SrvTypeOK, Live
<1> QED BY <1>1, <1>2, PeerInv DEF Drain, listener, bounds

LEMMA LeaveInv == ASSUME SrvInv, NEW c \in Conns, Leave(c) PROVE SrvInv'
<1>1. SrvTypeOK'
  BY DEF Leave, Dropped, SrvInv, SrvTypeOK, listener, bounds
<1>2. \A d \in Conns : phase'[d] = phase[d] \/ (Live(d) /\ phase'[d] = "closed")
  BY DEF Leave, Dropped, SrvInv, SrvTypeOK, Live
<1> QED BY <1>1, <1>2, PeerInv DEF Leave, listener, bounds

LEMMA OlderType ==
  ASSUME NEW limit \in Nat, NEW age \in [Conns -> 0..limit + 1]
  PROVE  Older(age, limit) \in [Conns -> 0..limit + 1]
  BY DEF Older

LEMMA TickInv == ASSUME SrvInv, Tick PROVE SrvInv'
<1>1. timeOut \in Nat /\ kCloseGraceSeconds \in Nat
  BY ServerAssumption
<1>2. /\ Older(idle, timeOut) \in [Conns -> 0..timeOut + 1]
      /\ Older(waited, kCloseGraceSeconds) \in [Conns -> 0..kCloseGraceSeconds + 1]
  BY <1>1, OlderType DEF SrvInv, SrvTypeOK
<1>3. waited' \in [Conns -> 0..kCloseGraceSeconds + 1]
  BY <1>1, <1>2 DEF Tick
<1>4. SrvTypeOK'
  BY <1>2, <1>3 DEF Tick, SrvInv, SrvTypeOK, listener, bounds
<1> QED BY <1>4, PeerInv DEF Tick, listener, bounds

-----------------------------------------------------------------------------
(* The theorems.                                                           *)

LEMMA InitInv == ASSUME Init PROVE SrvInv
<1>1. ready = <<>> /\ ready \in Seq(Handlers) /\ ToSet(ready) = {} /\ OneArrival(ready)
  BY DEF Init, ToSet, OneArrival
<1>2. HowMany(ready, {"accept"}) = 0
  <2>1. \A i \in DOMAIN ready : ready[i].kind \notin {"accept"}
    BY <1>1
  <2> QED BY <1>1, <2>1, NoneOrAll
<1>3. SrvTypeOK
  <2>1. /\ 0 \in 0..timeOut + 1 /\ 0 \in 0..kCloseGraceSeconds + 1
        /\ 0 \in 0..MaxStarts /\ 0 \in 0..MaxStops /\ 0 \in 0..MaxCalls /\ 0 \in 0..MaxErrors
    BY ServerAssumption
  <2> QED BY <1>1, <2>1 DEF Init, SrvTypeOK
<1>4. Loops = 0
  BY <1>2 DEF Init, Loops
<1>5. QueueSound /\ TableSound /\ ClosingIsTimed
  BY <1>1 DEF Init, QueueSound, TableSound, ClosingIsTimed, Live
<1>6. TableBounded
  BY FS_EmptySet, ServerAssumption DEF Init, TableBounded
<1>7. FirstRun /\ LoopsBounded
  BY <1>1, <1>4 DEF Init, FirstRun, LoopsBounded
<1> QED BY <1>3, <1>5, <1>6, <1>7 DEF SrvInv

LEMMA NextInv == ASSUME SrvInv, [Next]_vars PROVE SrvInv'
<1>1. CASE UNCHANGED vars
  <2>1. SrvTypeOK'
    BY <1>1 DEF SrvInv, SrvTypeOK, vars, listener, perConn, bounds
  <2> QED BY <1>1, <2>1, PeerInv DEF vars, listener, perConn, bounds
<1>2. CASE Next
  <2>1. ASSUME NEW c \in Conns, OfConn(c) PROVE SrvInv'
    BY <2>1, ReplyInv, CloseSessionInv, DeliverInv, ArriveInv, DrainInv, LeaveInv DEF OfConn
  <2>2. CASE RunPosted
    BY <2>2, RunAcceptInv, SweepInv, RunCloseAllInv, RunSendInv, RunCloseInv DEF RunPosted
  <2> QED BY <1>2, <2>1, <2>2, StartInv, StartFailsInv, StopInv, MonitorInv, RetryInv,
             AcceptErrorInv, TickInv DEF Next
<1> QED BY <1>1, <1>2

\* The inductive invariant of the server.
THEOREM Invariance == Spec => []SrvInv
  BY InitInv, NextInv, PTL DEF Spec

\* Whatever is started, stopped and swept, every variable keeps its type.
THEOREM TypeCorrect == Spec => []SrvTypeOK
<1>1. SrvInv => SrvTypeOK
  BY DEF SrvInv
<1> QED BY <1>1, Invariance, PTL

\* No order of closes, sends and sweeps leaves a connection closing gracefully
\* without the time from which the sweep's grace counts.
THEOREM ClosingHasItsTime == Spec => []ClosingIsTimed
<1>1. SrvInv => ClosingIsTimed
  BY DEF SrvInv
<1> QED BY <1>1, Invariance, PTL

\* Who is live at the end of a step was live before and stays in the table, or
\* was just accepted.
LEMMA EscapeStep == ASSUME SrvInv, NoEscape, [Next]_vars PROVE NoEscape'
<1> SUFFICES ASSUME stops' = 0, NEW c \in Conns, Live(c)' PROVE c \in sessions'
  BY DEF NoEscape
<1>1. ASSUME stops' = stops, sessions \subseteq sessions', phase'[c] = phase[c] PROVE c \in sessions'
  BY <1>1 DEF NoEscape, Live
<1>2. CASE UNCHANGED vars
  BY <1>1, <1>2 DEF vars, bounds, perConn
<1>3. CASE Start \/ StartFails \/ Monitor \/ Retry \/ AcceptError \/ Tick
  BY <1>1, <1>3 DEF Start, StartFails, Monitor, MonitorWakes, MonitorPosts, Retry, AcceptError,
                    Tick, bounds, perConn
<1>4. ~Stop
  BY DEF Stop, SrvInv, SrvTypeOK
<1>5. CASE RunAccept
  <2>1. stops' = stops /\ sessions \subseteq sessions' /\ (Accept \/ sessions' = sessions)
    BY <1>5 DEF RunAccept, AcceptStopped, AcceptRefused, Accept, AcceptCancelled, AcceptUseless,
                AcceptFailed, bounds
  <2>2. CASE phase'[c] = phase[c]
    BY <1>1, <2>1, <2>2
  <2>3. CASE phase'[c] # phase[c]
    <3>1. AcceptStopped \/ AcceptRefused \/ Accept
      BY <1>5, <2>3 DEF RunAccept, AcceptCancelled, AcceptUseless, AcceptFailed, perConn
    <3>2. c = Head(ready).conn
      BY <2>3, <3>1 DEF AcceptStopped, AcceptRefused, Accept, SrvInv, SrvTypeOK
    <3>3. phase'[c] # "closed"
      BY DEF Live
    <3>4. Accept
      BY <3>1, <3>2, <3>3 DEF AcceptStopped, AcceptRefused, SrvInv, SrvTypeOK
    <3> QED BY <3>2, <3>4 DEF Accept
  <2> QED BY <2>2, <2>3
<1>6. CASE Sweep
  <2>1. PICK late, stuck :
          /\ Dropped(stuck)
          /\ sessions' = {d \in sessions : d \notin stuck /\ ~NeedReclaim(d)}
          /\ stops' = stops
    BY <1>6 DEF Sweep, bounds
  <2>2. phase'[c] = IF c \in stuck /\ Live(c) THEN "closed" ELSE phase[c]
    BY <2>1 DEF Dropped
  <2> QED BY <2>1, <2>2 DEF NoEscape, Live, NeedReclaim
<1>7. ~RunCloseAll
  <2> SUFFICES ASSUME RunCloseAll PROVE FALSE
    OBVIOUS
  <2>1. ready # <<>> /\ Head(ready).kind = "closeAll" /\ stops = 0
    BY DEF RunCloseAll, Posted, bounds
  <2> QED BY <2>1, RestQueue DEF SrvInv, FirstRun, Unharmed
<1>8. CASE RunSend
  BY <1>1, <1>8 DEF RunSend, bounds
<1>9. ASSUME stops' = stops, sessions' = sessions,
             phase'[c] = phase[c] \/ Live(c) \/ phase'[c] = "closed"
      PROVE  c \in sessions'
  BY <1>9 DEF NoEscape, Live
<1>10. CASE RunClose
  BY <1>9, <1>10 DEF RunClose, bounds, Live, SrvInv, SrvTypeOK
<1>11. ASSUME NEW d \in Conns, OfConn(d) PROVE c \in sessions'
  <2>1. stops' = stops /\ sessions' = sessions
    BY <1>11 DEF OfConn, Reply, CloseSession, Deliver, Arrive, Drain, Leave, bounds
  <2>2. phase'[c] = phase[c] \/ phase'[c] \in {"closed", "arriving"}
    BY <1>11 DEF OfConn, Reply, CloseSession, Deliver, Arrive, Drain, Leave, Dropped, perConn,
                 SrvInv, SrvTypeOK
  <2> QED BY <1>9, <2>1, <2>2 DEF Live
<1> QED BY <1>2, <1>3, <1>4, <1>5, <1>6, <1>7, <1>8, <1>10, <1>11 DEF Next, RunPosted

\* The sweep lets go of a session only when its socket is closed.
THEOREM NobodyEscapes == Spec => []NoEscape
<1>1. Init => NoEscape
  BY DEF Init, NoEscape, Live
<1>2. SrvInv /\ NoEscape /\ [Next]_vars => NoEscape'
  BY EscapeStep
<1> QED BY <1>1, <1>2, Invariance, PTL DEF Spec

\* The table's limit limits the open connections: every one is in the table, and
\* the table is compared before each accept.
THEOREM LimitHolds == Spec => []ConnectionLimit
<1>1. ASSUME SrvInv, NoEscape PROVE ConnectionLimit
  <2> SUFFICES ASSUME maxConnections > 0, stops = 0
               PROVE  Cardinality({c \in Conns : Live(c)}) <= maxConnections
    BY DEF ConnectionLimit
  <2> DEFINE L == {c \in Conns : Live(c)}
  <2>1. L \subseteq sessions
    BY <1>1 DEF NoEscape
  <2>2. IsFiniteSet(sessions)
    BY <1>1, ServerAssumption, FS_Subset DEF SrvInv, SrvTypeOK
  <2>3. Cardinality(L) <= Cardinality(sessions) /\ Cardinality(L) \in Nat
        /\ Cardinality(sessions) \in Nat
    BY <2>1, <2>2, FS_Subset, FS_CardinalityType
  <2>4. Cardinality(sessions) <= maxConnections
    BY <1>1 DEF SrvInv, TableBounded
  <2> HIDE DEF L
  <2>5. Cardinality(L) <= maxConnections
    BY <2>3, <2>4, ServerAssumption
  <2> QED BY <2>5 DEF L
<1> QED BY <1>1, Invariance, NobodyEscapes, PTL

\* Refusals, errors, backoffs and cancellations hand one accept loop on; only
\* start() makes one.
THEOREM LoopsAreCounted == Spec => []OneAcceptLoop
<1>1. ASSUME SrvInv PROVE OneAcceptLoop
  BY <1>1 DEF SrvInv, OneAcceptLoop, FirstRun, LoopsBounded
<1> QED BY <1>1, Invariance, PTL

===========================================================================
