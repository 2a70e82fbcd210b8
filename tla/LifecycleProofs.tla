-------------------------- MODULE LifecycleProofs ---------------------------
(***************************************************************************)
(* The life of a server, proved for a program whose exit callback runs     *)
(* beside main and for one whose callback does not: whatever the threads   *)
(* interleave, the object dies clean and stop() wakes the monitor.         *)
(***************************************************************************)
EXTENDS Lifecycle, TLAPS

\* The listener's accept exists only from start() on, and not in a context that
\* ran out of work: whoever closes the acceptor in place cancels no accept.
AcceptIsServed ==
    /\ main \in {"start", "accept"} => ~accepting /\ io = "new"
    /\ main = "accept" => acceptorOpen
    /\ io = "stopped" => ~accepting

\* Once the flag is down the monitor gets past the test of its predicate only by
\* the catch of start(), which is then on its way to wake it or to wait for it.
Woke ==
    ~running =>
        /\ monitor = "checked" => main \in {"catchNotify", "catchJoin"}
        /\ monitor = "asleep" =>
              main \in {"notify", "catchNotify", "catchJoin"} \/ exit = "notify" \/ dtor = "notify"

\* What may be queued while nobody has stopped the server.
Unstopped == {"sweep", "accept"}

\* While the server runs nobody is past the flag in stop(), and none of its
\* closeAll() is posted: nothing closes the acceptor of a running server.
Stopping ==
    /\ running => /\ main \in {"accept", "catch", "run", "waitExit", "flag"}
                  /\ exit \in {"idle", "flag", "ended"}
                  /\ dtor = "no" /\ queue \in Seq(Unstopped)
    /\ ~signalled => exit \in {"idle", "ended"}
    /\ signalled => main \notin {"start", "accept", "catch", "catchNotify", "catchJoin"}
    /\ main = "start" => monitor = "off" /\ queue = <<>>

\* The destructor runs on an object nobody owns and nobody can own again; from
\* the end of each of its steps on, what the step did stays done.
Dying ==
    /\ dtor # "no" => ~Owned
    /\ dtor \in {"join", "freed"} => ~acceptorOpen
    /\ dtor = "freed" => Joined
    /\ terminated => io = "destroyed" \/ by = "monitor"

LifeInv == LifeTypeOK /\ AcceptIsServed /\ Woke /\ Stopping /\ Dying

-----------------------------------------------------------------------------
(* The helpers.                                                            *)

LEMMA ReleasedKeeps ==
  ASSUME NEW t \in Threads, LifeTypeOK, Released(t)
  PROVE  /\ dtor' \in {"no", "flag", "notify", "close", "join", "freed"} /\ by' \in Threads
         /\ dtor' # dtor => dtor = "no" /\ dtor' = "flag" /\ ~Owned'
  BY DEF Released, LifeTypeOK, Threads

\* What the queue's handlers are.
Kinds == {"closeAll", "sweep", "accept"}

LEMMA Queued ==
  ASSUME NEW K, NEW q \in Seq(K), NEW k \in K
  PROVE  /\ <<>> \in Seq(K) /\ Append(q, k) \in Seq(K)
         /\ q # <<>> => /\ Head(q) \in K /\ Tail(q) \in Seq(K)
                        /\ Tail(q) \o <<k>> \in Seq(K) /\ Tail(q) \o <<>> \in Seq(K)
<1>1. <<k>> \in Seq(K) /\ <<>> \in Seq(K)
  OBVIOUS
<1>2. Append(q, k) \in Seq(K)
  OBVIOUS
<1>3. q # <<>> => Head(q) \in K /\ Tail(q) \in Seq(K)
  OBVIOUS
<1>4. q # <<>> => Tail(q) \o <<k>> \in Seq(K) /\ Tail(q) \o <<>> \in Seq(K)
  BY <1>1, <1>3
<1> QED BY <1>1, <1>2, <1>3, <1>4

LEMMA KindsQueue ==
  ASSUME NEW q \in Seq(Kinds)
  PROVE  /\ <<>> \in Seq(Kinds)
         /\ \A k \in Kinds : Append(q, k) \in Seq(Kinds)
         /\ q # <<>> => Tail(q) \in Seq(Kinds) /\ Tail(q) \o <<"accept">> \in Seq(Kinds)
                        /\ Tail(q) \o <<>> \in Seq(Kinds)
<1>1. "accept" \in Kinds
  BY DEF Kinds
<1> QED BY <1>1, Queued

LEMMA UnstoppedQueue ==
  ASSUME NEW q \in Seq(Unstopped)
  PROVE  /\ <<>> \in Seq(Unstopped)
         /\ \A k \in Unstopped : Append(q, k) \in Seq(Unstopped)
         /\ q # <<>> => Tail(q) \in Seq(Unstopped) /\ Head(q) # "closeAll"
<1>1. "accept" \in Unstopped /\ "closeAll" \notin Unstopped
  BY DEF Unstopped
<1> QED BY <1>1, Queued

\* The types in parts: the flags, the threads, and the queue.
Flags ==
    /\ accepting \/ running => acceptorOpen
    /\ running \in BOOLEAN /\ accepting \in BOOLEAN /\ acceptorOpen \in BOOLEAN
    /\ signalled \in BOOLEAN /\ terminated \in BOOLEAN /\ session \in Sessions
Places ==
    /\ main \in {"start", "accept", "catch", "catchNotify", "catchJoin", "run", "waitExit", "flag",
                "notify", "close", "post", "join", "reset", "return", "returned", "done"}
    /\ exit \in {"flag", "notify", "close", "post", "release", "idle", "ended"}
    /\ monitor \in {"post", "release", "off", "check", "checked", "asleep", "awake", "keep", "ended"}
    /\ io \in {"new", "running", "stopped", "thrown", "destroyed"}
    /\ dtor \in {"no", "flag", "notify", "close", "join", "freed"}
    /\ by \in {"main", "exit", "monitor", "io"}

LEMMA TypeParts ==
  /\ LifeTypeOK <=> Flags /\ Places /\ queue \in Seq(Kinds)
  /\ LifeTypeOK' <=> Flags' /\ Places' /\ queue' \in Seq(Kinds)
<1>1. /\ main \in MainOwns \cup {"return", "returned", "done"} <=>
           main \in {"start", "accept", "catch", "catchNotify", "catchJoin", "run", "waitExit", "flag",
                "notify", "close", "post", "join", "reset", "return", "returned", "done"}
      /\ exit \in ExitOwns \cup {"idle", "ended"} <=>
           exit \in {"flag", "notify", "close", "post", "release", "idle", "ended"}
      /\ monitor \in MonitorOwns \cup {"off", "check", "checked", "asleep", "awake", "keep", "ended"} <=>
           monitor \in {"post", "release", "off", "check", "checked", "asleep", "awake", "keep", "ended"}
  BY DEF MainOwns, ExitOwns, MonitorOwns
<1>2. LifeTypeOK <=> Flags /\ Places /\ queue \in Seq(Kinds)
  BY <1>1 DEF LifeTypeOK, Flags, Places, Kinds, Threads
<1>3. (LifeTypeOK <=> Flags /\ Places /\ queue \in Seq(Kinds))'
  BY <1>2, PTL
<1> QED BY <1>2, <1>3

LEMMA InitInv == Init => LifeInv
<1> SUFFICES ASSUME Init PROVE LifeInv
  OBVIOUS
<1>1. <<>> \in Seq(Kinds)
  OBVIOUS
<1>2. Flags /\ Places
  BY LifecycleAssumption DEF Init, Flags, Places, Sessions
<1>3. AcceptIsServed /\ Woke /\ Stopping /\ Dying
  BY DEF Init, AcceptIsServed, Woke, Stopping, Dying
<1> QED BY <1>1, <1>2, <1>3, TypeParts DEF Init, LifeInv

-----------------------------------------------------------------------------
(* Main.                                                                   *)

LEMMA StartInv ==
  ASSUME LifeInv, OpenFails \/ StartMonitor \/ StartAccept
  PROVE  LifeInv'
<1>0. Flags /\ Places
  BY TypeParts DEF LifeInv
<1>1. LifeTypeOK'
  <2>1. Flags'
    <3>1. CASE OpenFails
      BY <1>0, <3>1 DEF Flags, LifeInv, AcceptIsServed, Stopping, OpenFails
    <3>2. CASE StartMonitor
      BY <1>0, <3>2 DEF Flags, LifeInv, AcceptIsServed, StartMonitor
    <3>3. CASE StartAccept
      BY <1>0, <3>3 DEF Flags, LifeInv, AcceptIsServed, StartAccept
    <3> QED BY <3>1, <3>2, <3>3
  <2>2. Places'
    BY <1>0 DEF Places, OpenFails, StartMonitor, StartAccept
  <2>3. queue' = queue
    BY DEF OpenFails, StartMonitor, StartAccept
  <2> QED BY <2>1, <2>2, <2>3, TypeParts DEF LifeInv
<1>2. AcceptIsServed'
  BY DEF LifeInv, LifeTypeOK, AcceptIsServed, OpenFails, StartMonitor, StartAccept
<1>3. Woke'
  BY DEF LifeInv, LifeTypeOK, Woke, OpenFails, StartMonitor, StartAccept
<1>4. Dying'
  <2>1. main \in MainOwns /\ dtor = "no" /\ dtor' = dtor
    BY DEF LifeInv, Dying, Owned, OpenFails, StartMonitor, StartAccept, MainOwns
  <2> QED BY <2>1 DEF LifeInv, Dying, OpenFails, StartMonitor, StartAccept
<1>5. Stopping'
  <2>0. main = "start" => queue = <<>> /\ exit \in {"idle", "ended"} /\ dtor = "no"
    BY <1>0, <1>4 DEF LifeInv, Stopping, Dying, Owned, MainOwns
  <2>1. <<>> \in Seq(Unstopped)
    OBVIOUS
  <2>2. CASE OpenFails
    BY <2>0, <2>2 DEF LifeInv, Stopping, OpenFails
  <2>3. CASE StartMonitor
    BY <2>0, <2>1, <2>3 DEF LifeInv, Stopping, StartMonitor
  <2>4. CASE StartAccept
    BY <2>4 DEF LifeInv, Stopping, StartAccept
  <2> QED BY <2>2, <2>3, <2>4
<1> QED BY <1>1, <1>2, <1>3, <1>4, <1>5 DEF LifeInv

LEMMA CatchInv ==
  ASSUME LifeInv, Catch
  PROVE  LifeInv'
<1>0. Flags /\ Places
  BY TypeParts DEF LifeInv
<1>1. LifeTypeOK'
  <2>1. Flags'
    <3>1. UNCHANGED <<accepting, session, acceptorOpen, signalled, terminated>>
      BY DEF Catch
    <3>2. running' \in BOOLEAN /\ (running' => running)
      <4>1. CASE running' = FALSE
        BY <4>1
      <4>2. CASE running' = running
        BY <1>0, <4>2 DEF Flags
      <4> QED BY <4>1, <4>2 DEF Catch
    <3> QED BY <1>0, <3>1, <3>2 DEF Flags, Sessions
  <2>2. Places'
    BY <1>0 DEF Places, Catch, Woken
  <2>3. queue' = queue
    BY DEF Catch
  <2> QED BY <2>1, <2>2, <2>3, TypeParts DEF LifeInv
<1>2. AcceptIsServed'
  BY DEF LifeInv, LifeTypeOK, AcceptIsServed, Catch
<1>3. Woke'
  BY DEF LifeInv, LifeTypeOK, Woke, Catch, Woken, Joined
<1>4. Dying'
  <2>1. main \in MainOwns /\ dtor = "no" /\ dtor' = dtor
    BY DEF LifeInv, Dying, Owned, Catch, MainOwns
  <2> QED BY <2>1, <1>0 DEF LifeInv, Dying, Catch
<1>5. Stopping'
  BY <1>0 DEF LifeInv, Stopping, Catch
<1> QED BY <1>1, <1>2, <1>3, <1>4, <1>5 DEF LifeInv

LEMMA CloseAllType ==
  ASSUME LifeInv
  PROVE  /\ CloseInPlace => /\ acceptorOpen' \in BOOLEAN /\ (acceptorOpen' => acceptorOpen)
                            /\ accepting => acceptorOpen'
         /\ PostCloseAll => /\ queue' \in Seq(Kinds) /\ terminated' \in BOOLEAN
                            /\ terminated' => io = "destroyed"
<1>1. Flags /\ queue \in Seq(Kinds) /\ (io = "stopped" => ~accepting)
  BY TypeParts DEF LifeInv, AcceptIsServed
<1>2. Append(queue, "closeAll") \in Seq(Kinds)
  BY <1>1, KindsQueue DEF Kinds
<1> QED BY <1>1, <1>2 DEF Flags, CloseInPlace, PostCloseAll

LEMMA MainStopsInv ==
  ASSUME LifeInv, MainStops
  PROVE  LifeInv'
<1>0. Flags /\ Places
  BY TypeParts DEF LifeInv
<1>1. LifeTypeOK'
  <2>1. Flags'
    <3>1. UNCHANGED <<accepting, session, signalled>>
      BY DEF MainStops
    <3>2. running' \in BOOLEAN /\ (running' => running)
      <4>1. CASE running' = FALSE
        BY <4>1
      <4>2. CASE running' = running
        BY <1>0, <4>2 DEF Flags
      <4> QED BY <4>1, <4>2 DEF MainStops, Flag
    <3>3. acceptorOpen' \in BOOLEAN /\ (accepting \/ running' => acceptorOpen')
      BY <1>0, <3>2, CloseAllType DEF LifeInv, Flags, Stopping, MainStops
    <3>4. terminated' \in BOOLEAN
      BY <1>0, CloseAllType DEF Flags, MainStops
    <3> QED BY <1>0, <3>1, <3>2, <3>3, <3>4 DEF Flags, Sessions
  <2>2. Places'
    BY <1>0 DEF Places, MainStops, Flag, Woken
  <2>3. queue' \in Seq(Kinds)
    BY TypeParts, CloseAllType DEF LifeInv, MainStops
  <2> QED BY <2>1, <2>2, <2>3, TypeParts
<1>2. AcceptIsServed'
  BY DEF LifeInv, LifeTypeOK, AcceptIsServed, MainStops
<1>3. Woke'
  BY DEF LifeInv, LifeTypeOK, Woke, MainStops, Flag, Unlocked, Woken
<1>4. Dying'
  <2>1. main \in MainOwns /\ dtor = "no" /\ dtor' = dtor
    BY DEF LifeInv, Dying, Owned, MainStops, MainOwns
  <2> QED BY <2>1, <1>0, CloseAllType DEF LifeInv, Dying, MainStops
<1>5. Stopping'
  BY <1>0 DEF LifeInv, Stopping, MainStops, Flag, Woken
<1> QED BY <1>1, <1>2, <1>3, <1>4, <1>5 DEF LifeInv

LEMMA RunAndWaitInv ==
  ASSUME LifeInv, RunIo \/ WaitExit
  PROVE  LifeInv'
<1>0. Flags /\ Places
  BY TypeParts DEF LifeInv
<1>1. LifeTypeOK'
  BY DEF LifeInv, LifeTypeOK, RunIo, WaitExit, MainOwns
<1>2. AcceptIsServed'
  BY DEF LifeInv, LifeTypeOK, AcceptIsServed, RunIo, WaitExit
<1>3. Woke'
  BY DEF LifeInv, LifeTypeOK, Woke, RunIo, WaitExit
<1>4. Dying'
  <2>1. main \in MainOwns /\ dtor = "no" /\ dtor' = dtor
    BY DEF LifeInv, Dying, Owned, RunIo, WaitExit, MainOwns
  <2> QED BY <2>1, <1>0 DEF LifeInv, Dying, Free, RunIo, WaitExit
<1>5. Stopping'
  BY <1>0 DEF LifeInv, Stopping, RunIo, WaitExit
<1> QED BY <1>1, <1>2, <1>3, <1>4, <1>5 DEF LifeInv

LEMMA EndInv ==
  ASSUME LifeInv, ResetServer \/ DestroyIo \/ Return
  PROVE  LifeInv'
<1>0. Flags /\ Places
  BY TypeParts DEF LifeInv
<1>1. Released("main") \/ UNCHANGED <<dtor, by>>
  BY DEF ResetServer, DestroyIo, Return
<1>2. /\ dtor' \in {"no", "flag", "notify", "close", "join", "freed"} /\ by' \in Threads
      /\ dtor' # dtor => dtor = "no" /\ dtor' = "flag" /\ ~Owned'
  BY <1>0, <1>1, ReleasedKeeps DEF LifeInv, Places, Threads
<1>3. LifeTypeOK'
  <2>1. Flags'
    <3>1. CASE ResetServer
      BY <1>0, <3>1 DEF Flags, ResetServer
    <3>2. CASE DestroyIo
      BY <1>0, <3>2 DEF Flags, DestroyIo, Sessions
    <3>3. CASE Return
      BY <1>0, <3>3 DEF Flags, Return
    <3> QED BY <3>1, <3>2, <3>3
  <2>2. Places'
    BY <1>2, <1>0 DEF Places, Threads, ResetServer, DestroyIo, Return
  <2>3. queue' \in Seq(Kinds)
    BY TypeParts, KindsQueue DEF LifeInv, ResetServer, DestroyIo, Return
  <2> QED BY <2>1, <2>2, <2>3, TypeParts
<1>4. AcceptIsServed'
  BY DEF LifeInv, LifeTypeOK, AcceptIsServed, ResetServer, DestroyIo, Return
<1>5. Woke'
  BY <1>2 DEF LifeInv, LifeTypeOK, Woke, ResetServer, DestroyIo, Return
<1>6. Dying'
  <2>1. ~Owned => ~Owned'
    BY DEF Owned, ResetServer, DestroyIo, Return, MainOwns
  <2>2. UNCHANGED <<acceptorOpen, monitor>>
    BY DEF ResetServer, DestroyIo, Return
  <2>3. terminated' => io' = "destroyed" \/ by' = "monitor"
    BY DEF Free, ResetServer, DestroyIo, Return
  <2> QED BY <1>2, <2>1, <2>2, <2>3 DEF LifeInv, Dying, Joined
<1>7. Stopping'
  BY <1>0 DEF LifeInv, Stopping, ResetServer, DestroyIo, Return
<1> QED BY <1>3, <1>4, <1>5, <1>6, <1>7 DEF LifeInv

-----------------------------------------------------------------------------
(* The exit callback, the monitor, the IO thread and the destructor.       *)

LEMMA SignalInv ==
  ASSUME LifeInv, Signal
  PROVE  LifeInv'
<1>0. Flags /\ Places
  BY TypeParts DEF LifeInv
<1>1. LifeTypeOK'
  <2>1. Flags'
    BY <1>0 DEF Flags, Signal
  <2>2. Places'
    BY <1>0 DEF Places, Signal
  <2> QED BY <2>1, <2>2, TypeParts DEF LifeInv, Signal
<1>2. (AcceptIsServed /\ Woke /\ Dying)'
  BY DEF LifeInv, AcceptIsServed, Woke, Dying, Owned, Joined, Signal, MainOwns, ExitOwns, MonitorOwns
<1>3. Stopping'
  BY DEF LifeInv, Stopping, Signal
<1> QED BY <1>1, <1>2, <1>3 DEF LifeInv

LEMMA ExitCallbackInv ==
  ASSUME LifeInv, ExitCallback
  PROVE  LifeInv'
<1>0. Flags /\ Places
  BY TypeParts DEF LifeInv
<1>1. /\ dtor' \in {"no", "flag", "notify", "close", "join", "freed"} /\ by' \in Threads
      /\ dtor' # dtor => dtor = "no" /\ dtor' = "flag" /\ ~Owned'
  BY ReleasedKeeps DEF LifeInv, ExitCallback, Threads
<1>2. LifeTypeOK'
  <2>1. Flags'
    BY <1>1, <1>0 DEF Flags, ExitCallback
  <2>2. Places'
    BY <1>1, <1>0 DEF Places, Threads, ExitCallback
  <2> QED BY <2>1, <2>2, TypeParts DEF LifeInv, ExitCallback
<1>3. AcceptIsServed'
  BY DEF LifeInv, AcceptIsServed, ExitCallback
<1>4. Woke'
  BY <1>1 DEF LifeInv, Woke, ExitCallback
<1>5. Dying'
  <2>1. ~Owned => ~Owned'
    BY DEF Owned, ExitCallback, ExitOwns, MainOwns, MonitorOwns
  <2>2. ~terminated'
    BY DEF ExitCallback, Free
  <2> QED BY <1>1, <2>1, <2>2 DEF LifeInv, Dying, Joined, ExitCallback
<1>6. Stopping'
  <2>1. running => main \in MainOwns
    BY DEF LifeInv, Stopping, MainOwns
  <2>2. running => dtor' = "no"
    BY <1>1, <2>1 DEF LifeInv, Stopping, Owned, ExitCallback
  <2> QED BY <2>2 DEF LifeInv, Stopping, ExitCallback
<1> QED BY <1>2, <1>3, <1>4, <1>5, <1>6 DEF LifeInv

LEMMA ExitStopsInv ==
  ASSUME LifeInv, ExitStops
  PROVE  LifeInv'
<1>0. Flags /\ Places
  BY TypeParts DEF LifeInv
<1>1. LifeTypeOK'
  <2>1. Flags'
    <3>1. UNCHANGED <<accepting, session, signalled>>
      BY DEF ExitStops
    <3>2. running' \in BOOLEAN /\ (running' => running)
      <4>1. CASE running' = FALSE
        BY <4>1
      <4>2. CASE running' = running
        BY <1>0, <4>2 DEF Flags
      <4> QED BY <4>1, <4>2 DEF ExitStops, Flag
    <3>3. acceptorOpen' \in BOOLEAN /\ (accepting \/ running' => acceptorOpen')
      BY <1>0, <3>2, CloseAllType DEF LifeInv, Flags, Stopping, ExitStops
    <3>4. terminated' \in BOOLEAN
      BY <1>0, CloseAllType DEF Flags, ExitStops
    <3> QED BY <1>0, <3>1, <3>2, <3>3, <3>4 DEF Flags, Sessions
  <2>2. Places'
    BY <1>0 DEF Places, ExitStops, Flag, Woken
  <2>3. queue' \in Seq(Kinds)
    BY TypeParts, CloseAllType DEF LifeInv, ExitStops
  <2> QED BY <2>1, <2>2, <2>3, TypeParts
<1>2. AcceptIsServed'
  BY DEF LifeInv, AcceptIsServed, ExitStops, CloseInPlace
<1>3. Woke'
  BY DEF LifeInv, Woke, ExitStops, Flag, Unlocked, Woken
<1>4. Dying'
  <2>1. exit \in ExitOwns /\ dtor = "no" /\ dtor' = dtor
    BY DEF LifeInv, Dying, Owned, ExitStops, ExitOwns
  <2> QED BY <2>1, <1>0, CloseAllType DEF LifeInv, Dying, ExitStops
<1>5. Stopping'
  BY <1>0 DEF LifeInv, Stopping, ExitStops, Flag, Woken
<1> QED BY <1>1, <1>2, <1>3, <1>4, <1>5 DEF LifeInv

LEMMA MonitorInv ==
  ASSUME LifeInv, Monitor
  PROVE  LifeInv'
<1>0. Flags /\ Places
  BY TypeParts DEF LifeInv
<1>1. /\ dtor' \in {"no", "flag", "notify", "close", "join", "freed"} /\ by' \in Threads
      /\ dtor' # dtor => dtor = "no" /\ dtor' = "flag" /\ ~Owned'
  BY ReleasedKeeps DEF LifeInv, Monitor, Threads
<1>2. \/ /\ \/ monitor = "check" /\ monitor' = (IF running THEN "checked" ELSE "ended")
            \/ monitor = "checked" /\ monitor' = "asleep"
            \/ monitor = "asleep" /\ monitor' = "awake"
            \/ monitor = "awake" /\ monitor' = (IF running THEN "keep" ELSE "ended")
            \/ monitor = "keep" /\ monitor' = (IF Owned THEN "post" ELSE "ended")
            \/ monitor = "release" /\ monitor' = "check"
         /\ queue' = queue /\ terminated' = terminated
      \/ monitor = "post" /\ monitor' = "release" /\ MonitorPosts
  BY DEF Monitor, MonitorLocks, MonitorSleeps, MonitorTimesOut, MonitorAwakes, MonitorKeeps,
         MonitorReleases, MonitorPosts, Goes
<1>3. UNCHANGED <<running, main, exit, io, accepting, session, acceptorOpen, signalled>>
  BY DEF Monitor
<1>4. LifeTypeOK'
  <2>1. Flags'
    BY <1>1, <1>2, <1>3, <1>0 DEF Flags, MonitorPosts
  <2>2. Places'
    BY <1>1, <1>2, <1>3, <1>0 DEF Places, Threads, MonitorPosts
  <2>3. queue' \in Seq(Kinds)
    <3>1. queue \in Seq(Kinds) /\ Append(queue, "sweep") \in Seq(Kinds)
      BY TypeParts, KindsQueue DEF LifeInv, Kinds
    <3>2. queue' = queue \/ queue' = Append(queue, "sweep")
      BY <1>2 DEF MonitorPosts
    <3> QED BY <3>1, <3>2
  <2> QED BY <2>1, <2>2, <2>3, TypeParts
<1>5. AcceptIsServed'
  BY <1>3 DEF LifeInv, AcceptIsServed
<1>6. Woke'
  BY <1>1, <1>2, <1>3 DEF LifeInv, Woke
<1>7. Dying'
  <2>1. ~Owned => ~Owned'
    BY <1>2, <1>3 DEF Owned, MonitorOwns, ExitOwns, MainOwns
  <2>2. Joined => Joined'
    BY <1>2 DEF Joined
  <2>3. terminated' => io' = "destroyed"
    BY <1>2, <1>3 DEF Monitor, Goes, Free, MonitorPosts, MonitorLocks, MonitorSleeps, MonitorTimesOut,
                      MonitorAwakes, MonitorKeeps, MonitorReleases
  <2> QED BY <1>1, <1>3, <2>1, <2>2, <2>3 DEF LifeInv, Dying
<1>8. Stopping'
  <2>1. running => main \in MainOwns
    BY DEF LifeInv, Stopping, MainOwns
  <2>2. running => dtor' = "no"
    BY <1>1, <1>3, <2>1 DEF LifeInv, Stopping, Owned
  <2>3. queue \in Seq(Unstopped) => queue' \in Seq(Unstopped)
    BY <1>2, UnstoppedQueue DEF MonitorPosts, Unstopped
  <2>4. main # "start" \/ monitor' = monitor
    BY <1>2 DEF LifeInv, Stopping
  <2>5. main = "start" => queue' = queue
    BY <1>2 DEF LifeInv, Stopping
  <2> QED BY <1>3, <2>2, <2>3, <2>4, <2>5 DEF LifeInv, Stopping
<1> QED BY <1>4, <1>5, <1>6, <1>7, <1>8 DEF LifeInv

LEMMA IoThreadInv ==
  ASSUME LifeInv, IoThread
  PROVE  LifeInv'
<1>0. Flags /\ Places
  BY TypeParts DEF LifeInv
<1>1. /\ dtor' \in {"no", "flag", "notify", "close", "join", "freed"} /\ by' \in Threads
      /\ dtor' # dtor => dtor = "no" /\ dtor' = "flag" /\ ~Owned'
  BY ReleasedKeeps DEF LifeInv, IoThread, Threads
<1>2. io = "running" /\ ~terminated /\ UNCHANGED <<running, main, exit, monitor, signalled, terminated>>
  BY DEF IoThread, Free
<1>3. running /\ queue # <<>> => Head(queue) # "closeAll"
  BY UnstoppedQueue DEF LifeInv, Stopping
<1>4. /\ io' \in {"running", "thrown", "stopped"}
      /\ io' = "stopped" => ~accepting /\ ~accepting'
      /\ accepting' \in BOOLEAN /\ (accepting' \/ running => acceptorOpen')
      /\ accepting' => accepting \/ queue # <<>>
      /\ acceptorOpen' \in BOOLEAN /\ (acceptorOpen' => acceptorOpen)
      /\ session' \in Sessions
  <2>1. CASE RunHandler
    <3>1. CASE Head(queue) = "closeAll" /\ CloseAll
      <4>1. ~running
        BY <1>3, <2>1, <3>1 DEF RunHandler
      <4> QED BY <1>0, <1>2, <2>1, <3>1, <4>1 DEF Flags, RunHandler, CloseAll, AllClosed, Sessions
    <3>2. CASE Head(queue) = "accept" /\ AcceptEnds /\ UNCHANGED acceptorOpen
      BY <1>0, <1>2, <2>1, <3>2 DEF Flags, RunHandler, AcceptEnds, Sessions
    <3>3. CASE Head(queue) = "sweep" /\ Swept /\ UNCHANGED <<accepting, acceptorOpen>>
      BY <1>0, <1>2, <2>1, <3>3 DEF Flags, RunHandler, Swept, Sessions
    <3> QED BY <2>1, <3>1, <3>2, <3>3 DEF RunHandler
  <2>2. CASE HandlerThrows
    BY <1>0, <2>2 DEF Flags, HandlerThrows
  <2>3. CASE RunReturns
    BY <1>0, <2>3 DEF Flags, RunReturns
  <2> QED BY <2>1, <2>2, <2>3 DEF IoThread
<1>5. \/ queue' = queue
      \/ queue # <<>> /\ queue' = Tail(queue)
      \/ queue # <<>> /\ Head(queue) = "closeAll"
            /\ queue' = Tail(queue) \o (IF accepting THEN <<"accept">> ELSE <<>>)
  BY DEF IoThread, RunHandler, HandlerThrows, RunReturns, CloseAll
<1>6. queue' \in Seq(Kinds) /\ (queue = <<>> => queue' = <<>>)
  <2>1. queue \in Seq(Kinds)
    BY TypeParts DEF LifeInv
  <2>2. queue # <<>> => /\ Tail(queue) \in Seq(Kinds)
                        /\ Tail(queue) \o (IF accepting THEN <<"accept">> ELSE <<>>) \in Seq(Kinds)
    BY <2>1, KindsQueue
  <2> QED BY <1>5, <2>1, <2>2
<1>7. LifeTypeOK'
  <2>1. Flags'
    BY <1>2, <1>4, <1>0 DEF Flags
  <2>2. Places'
    BY <1>1, <1>2, <1>4, <1>0 DEF Places, Threads
  <2> QED BY <1>6, <2>1, <2>2, TypeParts
<1>8. AcceptIsServed'
  BY <1>2, <1>4 DEF LifeInv, AcceptIsServed
<1>9. Woke'
  BY <1>1, <1>2 DEF LifeInv, Woke
<1>10. Stopping'
  <2>1. running => main \in MainOwns
    BY DEF LifeInv, Stopping, MainOwns
  <2>2. running => dtor' = "no"
    BY <1>1, <1>2, <2>1 DEF LifeInv, Stopping, Owned
  <2>3. queue \in Seq(Unstopped) => queue' \in Seq(Unstopped)
    BY <1>5, UnstoppedQueue
  <2> QED BY <1>2, <1>6, <2>2, <2>3 DEF LifeInv, Stopping
<1>11. Dying'
  <2>1. ~Owned => ~Owned'
    BY <1>2, <1>4, <1>6 DEF Owned, MonitorOwns, ExitOwns, MainOwns
  <2> QED BY <1>1, <1>2, <1>4, <2>1 DEF LifeInv, Dying, Joined
<1> QED BY <1>7, <1>8, <1>9, <1>10, <1>11 DEF LifeInv

LEMMA PeersInv ==
  ASSUME LifeInv, Peers
  PROVE  LifeInv'
<1>0. Flags /\ Places
  BY TypeParts DEF LifeInv
<1>1. /\ io = "running" /\ ~terminated
      /\ UNCHANGED <<running, main, exit, monitor, io, acceptorOpen, signalled, dtor, by, terminated>>
  BY DEF Peers, Free
<1>2. /\ session' \in Sessions /\ accepting' \in BOOLEAN /\ (accepting' => accepting)
      /\ queue' = queue \/ (queue' = Append(queue, "accept") /\ accepting)
  <2>1. CASE AcceptCompletes
    BY <1>0, <2>1 DEF Flags, AcceptCompletes
  <2>2. CASE SessionGoesOn
    BY <1>0, <2>2 DEF Flags, SessionGoesOn, Sessions
  <2> QED BY <2>1, <2>2 DEF Peers
<1>3. LifeTypeOK'
  <2>1. Flags'
    BY <1>0, <1>1, <1>2 DEF Flags
  <2>2. Places'
    BY <1>0, <1>1 DEF Places
  <2>3. queue' \in Seq(Kinds)
    BY <1>2, TypeParts, KindsQueue DEF LifeInv, Kinds
  <2> QED BY <2>1, <2>2, <2>3, TypeParts
<1>4. (AcceptIsServed /\ Woke)'
  BY <1>1, <1>2 DEF LifeInv, AcceptIsServed, Woke
<1>5. Stopping'
  <2>1. queue \in Seq(Unstopped) => queue' \in Seq(Unstopped)
    BY <1>2, UnstoppedQueue DEF Unstopped
  <2>2. main # "start"
    BY <1>1 DEF LifeInv, AcceptIsServed
  <2> QED BY <1>1, <2>1, <2>2 DEF LifeInv, Stopping
<1>6. Dying'
  <2>1. ~Owned => ~Owned'
    BY <1>1, <1>2 DEF Owned
  <2> QED BY <1>1, <2>1 DEF LifeInv, Dying, Joined
<1> QED BY <1>3, <1>4, <1>5, <1>6 DEF LifeInv

\* The destructor's steps, with what each finds: the object is not owned, and it
\* leaves the last one only when the monitor has ended.
LEMMA DestructorInv ==
  ASSUME LifeInv, Destructor
  PROVE  LifeInv'
<1>0. Flags /\ Places
  BY TypeParts DEF LifeInv
<1>1. ~Owned /\ ~accepting
  BY DEF LifeInv, Dying, Owned, Destructor
<1>2. LifeTypeOK'
  <2>0. ~running
    BY DEF LifeInv, Stopping, Destructor
  <2>1. Flags'
    <3>1. UNCHANGED <<accepting, session, signalled>> /\ running' = FALSE
      BY <2>0, <1>0 DEF Flags, Destructor, Flag
    <3>2. acceptorOpen' \in BOOLEAN /\ terminated' \in BOOLEAN
      BY <1>0 DEF Flags, Destructor, JoinMonitor
    <3> QED BY <1>0, <1>1, <3>1, <3>2 DEF Flags
  <2>2. Places'
    BY <1>1, <1>0 DEF Places, Destructor, Flag, Woken, JoinMonitor
  <2> QED BY <2>1, <2>2, TypeParts DEF LifeInv, Destructor
<1>3. AcceptIsServed'
  BY DEF LifeInv, AcceptIsServed, Dying, Owned, MainOwns, Destructor
<1>4. Woke'
  BY DEF LifeInv, Woke, Destructor, Flag, Unlocked, Woken, JoinMonitor
<1>5. Dying'
  <2>1. ~Owned'
    BY <1>1 DEF Owned, Destructor, Woken, Flag, MonitorOwns, ExitOwns, MainOwns
  <2>2. dtor' \in {"join", "freed"} => ~acceptorOpen'
    BY DEF LifeInv, Dying, Destructor, JoinMonitor
  <2>3. dtor' = "freed" => Joined'
    BY DEF LifeInv, Dying, Destructor, JoinMonitor, Joined
  <2>4. terminated' => by' = "monitor"
    BY DEF Destructor, JoinMonitor
  <2> QED BY <2>1, <2>2, <2>3, <2>4 DEF Dying
<1>6. Stopping'
  <2>1. main # "start"
    BY <1>1 DEF Owned, MainOwns
  <2> QED BY <2>1 DEF LifeInv, Stopping, Destructor, Flag, JoinMonitor
<1> QED BY <1>2, <1>3, <1>4, <1>5, <1>6 DEF LifeInv

-----------------------------------------------------------------------------
(* The theorems.                                                           *)

LEMMA StepInv == LifeInv /\ [Next]_lifeVars => LifeInv'
<1> SUFFICES ASSUME LifeInv, [Next]_lifeVars PROVE LifeInv'
  OBVIOUS
<1>1. CASE Main
  BY <1>1, StartInv, CatchInv, RunAndWaitInv, MainStopsInv, EndInv DEF Main
<1>2. CASE UNCHANGED lifeVars
  BY <1>2 DEF lifeVars, LifeInv, LifeTypeOK, AcceptIsServed, Woke, Stopping, Dying, Owned, Joined,
              MainOwns, ExitOwns, MonitorOwns, Threads
<1> QED BY <1>1, <1>2, SignalInv, ExitCallbackInv, ExitStopsInv, MonitorInv, IoThreadInv, PeersInv,
           DestructorInv DEF Next

\* Every state of the server's life satisfies the invariant, with or without the
\* exit callback's thread.
THEOREM Invariance == LifeSpec => []LifeInv
  BY InitInv, StepInv, PTL DEF LifeSpec

\* The types, and an accept in flight, or a server that runs, has an open acceptor:
\* no closeAll() of a stop() is still on its way to the acceptor of a running server,
\* and closeAll() in place, on a stopped io_context, has no accept to cancel.
THEOREM TypeCorrect == LifeSpec => []LifeTypeOK
<1>1. LifeInv => LifeTypeOK
  BY DEF LifeInv
<1> QED BY <1>1, Invariance, PTL

\* stop() is prompt: the monitor never sleeps on after the flag is down unless its
\* waker is still to come, or start()'s catch, which does not lock, missed it.
THEOREM StopIsPrompt == LifeSpec => []PromptStop
<1>1. LifeInv => PromptStop
  BY DEF LifeInv, Woke, PromptStop
<1> QED BY <1>1, Invariance, PTL

\* The object dies clean: freed only when its monitor has ended, when nobody owns
\* it and its acceptor is closed; and the process is killed before that only by a
\* use of the destroyed io_context or by a monitor that joins itself.
THEOREM ObjectDiesClean == LifeSpec => []DiesClean
<1>1. LifeInv => DiesClean
  BY DEF LifeInv, Dying, DiesClean
<1> QED BY <1>1, Invariance, PTL

===========================================================================
