----------------------------- MODULE TimerProofs -----------------------------
(***************************************************************************)
(* Proofs about module Timer, for any number of timers and threads that    *)
(* cancel them, and any number of ticks.                                    *)
(***************************************************************************)
EXTENDS Timer, TLAPS

USE DEF timer_vars

\* Timer t is in the tree at tick k, or attached to the timer that is.
At(t, k) == tree[k] # NoTimer /\ (tree[k] = t \/ t \in attached_timers[tree[k]])

\* Where a timer is in the tree: at the tick of its fire_time, with its request processed or aborted,
\* and neither in the hands of the processor's thread nor of its handler.
TreeInv ==
  \A t \in Timers, k \in Ticks : At(t, k) =>
     /\ Get_ticks(fire_time[t]) = k
     /\ request[t] \in {"processing", "aborted"}
     /\ handler[t] = "idle"
     /\ cur # t
     /\ is_running[t] => request[t] = "processing"

\* Only the timers of the tree have others attached, and never themselves.
AttachedInv ==
  \A t \in Timers : /\ attached_timers[t] # {} => tree[Get_ticks(fire_time[t])] = t
                    /\ t \notin attached_timers[t]

\* The timer the processor's thread is about to look at or to place.
CurInv ==
  cur # NoTimer => /\ request[cur] \in {"processing", "aborted"}
                   /\ handler[cur] = "idle"
                   /\ is_running[cur] => request[cur] = "processing"

\* While Timer_handler runs the request is being delivered, or is a new one that has not
\* been submitted; a request is completed only for a running timer whose time has come.
HandlerInv ==
  \A t \in Timers :
     /\ handler[t] \notin {"idle", "submit"} => request[t] = "delivering"
     /\ handler[t] = "submit" => request[t] \in {"created", "aborted"}
     /\ handler[t] \in {"check", "rearm"} => fire_time[t] + Interval[t] <= MaxTime
     /\ request[t] = "completed" => fire_time[t] < now + 2 * Millisecond /\ is_running[t]
     /\ is_running[t] => request[t] # "none"

\* None of the assertions fails.
FaultsInv == faults \cap {"complete_state", "destroy_attached", "replaced_attached"} = {}

\* The inductive invariant.
IndInv == TypeOK /\ TreeInv /\ AttachedInv /\ CurInv /\ HandlerInv /\ FaultsInv

-----------------------------------------------------------------------------
\* Times within a tick differ by less than a millisecond.
LEMMA SameTick ==
  ASSUME NEW a \in Times, NEW b \in Times, Get_ticks(a) = Get_ticks(b)
  PROVE  a < b + Millisecond
BY MillisecondAssumption, MaxTimeAssumption DEF Times, Get_ticks

\* The tick of a timer is one of the tree.
LEMMA FireTick == IndInv => \A t \in Timers : Get_ticks(fire_time[t]) \in Ticks
BY DEF IndInv, TypeOK, Ticks

\* The invariant holds in the beginning.
LEMMA InitLemma == Init => IndInv
BY IntervalAssumption, NoTimerAssumption, MaxTimeAssumption
   DEF Init, IndInv, TypeOK, TreeInv, At, AttachedInv, CurInv, HandlerInv, FaultsInv, Times,
       Progress, HandlerLocations, Faults

\* Time passes.
LEMMA TickLemma == IndInv /\ Tick => IndInv'
BY MillisecondAssumption, IntervalAssumption, MaxTimeAssumption
   DEF Tick, IndInv, TypeOK, TreeInv, At, AttachedInv, CurInv, HandlerInv, FaultsInv, Times

\* A timer that is created is not in the tree.
LEMMA CreateLemma ==
  ASSUME IndInv, NEW t \in Timers, Create_timer(t)
  PROVE  IndInv'
<1>1. now + Interval[t] \in Times
  <2>1. now \in Nat /\ Interval[t] \in Nat
    BY IntervalAssumption, MaxTimeAssumption DEF IndInv, TypeOK, Times
  <2> QED BY <2>1, MaxTimeAssumption DEF Times, Create_timer
<1>2. TypeOK'
  BY <1>1 DEF Create_timer, IndInv, TypeOK, Progress
<1>3. request[t] = "none" /\ \A k \in Ticks : ~At(t, k)
  BY DEF IndInv, TreeInv, Create_timer
<1>4. cur # t
  BY <1>3, NoTimerAssumption DEF IndInv, CurInv, TypeOK
<1>5. handler[t] = "idle"
  BY <1>3 DEF IndInv, HandlerInv, TypeOK
<1>6. attached_timers[t] = {}
  BY FireTick, <1>3, NoTimerAssumption DEF IndInv, AttachedInv, TypeOK, At
<1>7. TreeInv'
  BY <1>3, <1>4, <1>5 DEF Create_timer, IndInv, TreeInv, At, TypeOK
<1>8. AttachedInv' /\ CurInv' /\ HandlerInv' /\ FaultsInv'
  BY <1>3, <1>4, <1>5, <1>6, IntervalAssumption, MaxTimeAssumption
     DEF Create_timer, IndInv, AttachedInv, CurInv, HandlerInv, FaultsInv, TypeOK, Times
<1> QED BY <1>2, <1>7, <1>8 DEF IndInv

\* A queued request belongs to no timer of the tree.
LEMMA ProcessLemma ==
  ASSUME IndInv, NEW t \in Timers, Process_request(t)
  PROVE  IndInv'
<1>1. TypeOK'
  BY NoTimerAssumption DEF Process_request, IndInv, TypeOK, Progress
<1>2. request[t] = "queued" /\ \A k \in Ticks : ~At(t, k)
  BY DEF IndInv, TreeInv, Process_request
<1>3. handler[t] = "idle"
  BY <1>2 DEF IndInv, HandlerInv, TypeOK
<1>4. TreeInv'
  BY <1>2, <1>3 DEF Process_request, IndInv, TreeInv, At, TypeOK
<1>5. AttachedInv' /\ FaultsInv'
  BY DEF Process_request, IndInv, AttachedInv, FaultsInv
<1>6. CurInv' /\ HandlerInv'
  BY <1>2, <1>3 DEF Process_request, IndInv, CurInv, HandlerInv, TypeOK
<1> QED BY <1>1, <1>4, <1>5, <1>6 DEF IndInv

\* A timer that was canceled is dropped.
LEMMA ProcessHandlerLemma == IndInv /\ Timer_process_handler => IndInv'
<1> SUFFICES ASSUME IndInv, Timer_process_handler PROVE IndInv'
  OBVIOUS
<1>1. TypeOK'
  BY DEF Timer_process_handler, IndInv, TypeOK
<1>2. cur' \in {cur, NoTimer} /\ UNCHANGED <<timer_vars, handler, faults, now>>
  BY DEF Timer_process_handler
<1>3. TreeInv'
  BY <1>2, NoTimerAssumption DEF IndInv, TreeInv, At
<1>4. AttachedInv' /\ CurInv' /\ HandlerInv' /\ FaultsInv'
  BY <1>2 DEF IndInv, AttachedInv, CurInv, HandlerInv, FaultsInv
<1> QED BY <1>1, <1>3, <1>4 DEF IndInv

-----------------------------------------------------------------------------
\* What Fire() needs of a timer.
Fireable(t) == /\ fire_time[t] < now + 2 * Millisecond
               /\ handler[t] = "idle"
               /\ request[t] \in {"processing", "aborted"}
               /\ is_running[t] => request[t] = "processing"

\* Fire() of a timer that is taken out of the tree, if it is there, and the timers
\* attached to it: none of them is in the tree any more, and their requests may go.
LEMMA FireLemma ==
  ASSUME IndInv, NEW t \in Timers, Fire(t),
         \A x \in Fired(t) : Fireable(x),
         \A x \in Timers, k \in Ticks : x \in Fired(t) /\ At(x, k) => tree[k] = t,
         tree' = [k \in Ticks |-> IF tree[k] = t THEN NoTimer ELSE tree[k]],
         loc' = "idle", cur' = NoTimer,
         UNCHANGED <<is_running, fire_time, now, handler, runs, canceler, phase>>
  PROVE  IndInv'
<1> USE NoTimerAssumption
<1>1. /\ request' \in [Timers -> Progress]
      /\ attached_timers' \in [Timers -> SUBSET Timers]
      /\ \A x \in Timers : /\ x \notin Fired(t) => request'[x] = request[x]
                           /\ request'[x] # request[x] =>
                                /\ x \in Fired(t) /\ is_running[x]
                                /\ request[x] = "processing" /\ request'[x] = "completed"
                           /\ attached_timers'[x] = IF x = t THEN {} ELSE attached_timers[x]
  BY DEF Fire, IndInv, TypeOK, Progress
<1>2. faults' = faults
  BY DEF Fire, Raise, Fireable
<1>3. TypeOK'
  BY <1>1, <1>2 DEF IndInv, TypeOK
<1>4. ASSUME NEW x \in Timers, NEW k \in Ticks, At(x, k)'
      PROVE  At(x, k) /\ x \notin Fired(t) /\ request'[x] = request[x]
  <2>1. tree'[k] = tree[k] /\ tree[k] # t /\ tree[k] \in Timers
    BY <1>4 DEF At, IndInv, TypeOK
  <2>2. At(x, k)
    BY <1>1, <1>4, <2>1 DEF At
  <2> QED BY <1>1, <2>1, <2>2
<1>5. TreeInv'
  BY <1>4 DEF IndInv, TreeInv
<1>6. AttachedInv'
  BY FireTick, <1>1 DEF IndInv, AttachedInv, TypeOK
<1>7. CurInv' /\ FaultsInv'
  BY <1>2 DEF IndInv, CurInv, FaultsInv
<1>8. HandlerInv'
  BY <1>1 DEF IndInv, HandlerInv, Fireable
<1> QED BY <1>3, <1>5, <1>6, <1>7, <1>8 DEF IndInv

\* On_wait_and_process fires the first timer of the tree.
LEMMA WaitLemma ==
  ASSUME IndInv, NEW k \in Ticks, On_wait_and_process(k)
  PROVE  IndInv'
<1> USE NoTimerAssumption
<1> DEFINE t == tree[k]
<1>1. t \in Timers /\ cur = NoTimer
  BY DEF On_wait_and_process, First, IndInv, TypeOK
<1>2. \A x \in Fired(t) : x \in Timers /\ At(x, k)
  BY <1>1 DEF Fired, At, IndInv, TypeOK
<1>3. \A x \in Fired(t) : Fireable(x) /\ Get_ticks(fire_time[x]) = k
  <2>1. \A x \in Fired(t) : Get_ticks(fire_time[x]) = k /\ fire_time[x] \in Times
    BY <1>2 DEF IndInv, TreeInv, TypeOK
  <2>2. fire_time[t] < now + Millisecond /\ now \in Times /\ t \in Fired(t)
    BY DEF On_wait_and_process, Expired, Fired, IndInv, TypeOK
  <2>3. \A x \in Fired(t) : fire_time[x] < now + 2 * Millisecond
    BY <2>1, <2>2, SameTick, MillisecondAssumption, MaxTimeAssumption DEF Times
  <2> QED BY <1>2, <2>1, <2>3 DEF Fireable, IndInv, TreeInv
<1>4. \A x \in Timers, j \in Ticks : x \in Fired(t) /\ At(x, j) => tree[j] = t
  BY <1>3 DEF IndInv, TreeInv
<1>5. tree' = [j \in Ticks |-> IF tree[j] = t THEN NoTimer ELSE tree[j]]
  <2>1. \A j \in Ticks : tree[j] = t => j = k
    BY <1>1, <1>3 DEF IndInv, TreeInv, At, Fired
  <2> QED BY <2>1 DEF On_wait_and_process, IndInv, TypeOK
<1> QED
  BY <1>1, <1>3, <1>4, <1>5, FireLemma DEF On_wait_and_process

\* The processor's thread fires the timer it has taken or puts it into the tree.
LEMMA PlaceLemma == IndInv /\ Place_timer => IndInv'
<1> SUFFICES ASSUME IndInv, Place_timer PROVE IndInv'
  OBVIOUS
<1> USE NoTimerAssumption
<1> DEFINE t == cur
<1>1. t \in Timers /\ fire_time[t] \in Times
  BY DEF Place_timer, IndInv, TypeOK
<1>2. \A k \in Ticks : ~At(t, k)
  BY <1>1 DEF IndInv, TreeInv
<1>3. attached_timers[t] = {}
  BY FireTick, <1>1, <1>2 DEF IndInv, AttachedInv, At
<1>4. CASE fire_time[t] <= now
  <2>1. Fired(t) = {t} /\ Fireable(t)
    BY MillisecondAssumption, MaxTimeAssumption, <1>1, <1>3, <1>4 DEF Fired, Fireable, IndInv, CurInv, TypeOK, Times
  <2>2. tree' = [k \in Ticks |-> IF tree[k] = t THEN NoTimer ELSE tree[k]]
    BY <1>1, <1>2, <1>4 DEF Place_timer, At, IndInv, TypeOK
  <2> QED BY <1>1, <1>2, <1>4, <2>1, <2>2, FireLemma DEF Place_timer
<1>5. CASE ~(fire_time[t] <= now)
  <2> DEFINE k == Get_ticks(fire_time[t])
             root == tree[k]
  <2>1. /\ Insert_timer(t) /\ cur' = NoTimer /\ loc' = "idle"
        /\ UNCHANGED <<request, faults, is_running, fire_time, now, handler, runs,
                       canceler, phase>>
    BY <1>5 DEF Place_timer
  <2>2. TypeOK'
    BY <1>1, <2>1 DEF Insert_timer, IndInv, TypeOK
  <2>3. \A x \in Timers, j \in Ticks : At(x, j)' => At(x, j) \/ (x = t /\ j = k)
    <3>1. CASE root = NoTimer
      BY <1>1, <1>3, <2>1, <3>1 DEF Insert_timer, At, IndInv, TypeOK
    <3>2. CASE root # NoTimer
      <4>1. root \in Timers /\ At(root, k)
        BY FireTick, <1>1, <3>2 DEF At, IndInv, TypeOK
      <4>2. \A j \in Ticks : tree[j] = root => j = k
        BY FireTick, <1>1, <3>2, <4>1 DEF IndInv, TreeInv, At
      <4> QED BY <1>1, <2>1, <3>2, <4>1, <4>2 DEF Insert_timer, At, IndInv, TypeOK
    <3> QED BY <3>1, <3>2
  <2>4. TreeInv'
    BY <1>1, <2>1, <2>3 DEF IndInv, TreeInv, CurInv
  <2>5. AttachedInv'
    <3>1. CASE root = NoTimer
      BY FireTick, <1>1, <2>1, <3>1 DEF Insert_timer, IndInv, AttachedInv, TypeOK
    <3>2. CASE root # NoTimer
      <4>1. root \in Timers /\ At(root, k) /\ root # t
        BY FireTick, <1>1, <1>2, <3>2 DEF At, IndInv, TypeOK
      <4>2. Get_ticks(fire_time[root]) = k
        BY FireTick, <1>1, <4>1 DEF IndInv, TreeInv
      <4> QED BY <1>1, <2>1, <3>2, <4>1, <4>2 DEF Insert_timer, IndInv, AttachedInv, TypeOK
    <3> QED BY <3>1, <3>2
  <2>6. CurInv' /\ HandlerInv' /\ FaultsInv'
    BY <2>1 DEF IndInv, CurInv, HandlerInv, FaultsInv
  <2> QED BY <2>2, <2>4, <2>5, <2>6 DEF IndInv
<1> QED BY <1>4, <1>5

-----------------------------------------------------------------------------
\* A timer whose request is not processed or aborted, or whose handler runs, is out of the
\* tree and of the hands of the processor's thread.
LEMMA OutOfTree ==
  ASSUME IndInv, NEW t \in Timers,
         handler[t] # "idle" \/ request[t] \notin {"processing", "aborted"}
  PROVE  /\ \A k \in Ticks : ~At(t, k)
         /\ cur # t
         /\ attached_timers[t] = {}
<1>1. \A k \in Ticks : ~At(t, k)
  BY DEF IndInv, TreeInv
<1>2. cur # t
  BY NoTimerAssumption DEF IndInv, CurInv
<1>3. attached_timers[t] = {}
  BY FireTick, <1>1, NoTimerAssumption DEF IndInv, AttachedInv, At, TypeOK
<1> QED BY <1>1, <1>2, <1>3

\* The steps of Timer_handler before it ends.
LEMMA HandlerLemma ==
  ASSUME IndInv, NEW t \in Timers,
         \/ Timer_handler(t) \/ Check_running(t) \/ Rearm(t) \/ Create_request(t)
         \/ Submit_request(t) \/ Timer_handler_ends(t)
         \/ \E again \in BOOLEAN : Handler_returns(t, again)
  PROVE  IndInv'
<1>1. handler[t] # "idle" \/ request[t] = "completed"
  BY DEF Timer_handler, Check_running, Rearm, Create_request, Submit_request,
         Timer_handler_ends, Handler_returns
<1>2. \A k \in Ticks : ~At(t, k)
  BY <1>1, OutOfTree
<1>3. cur # t /\ attached_timers[t] = {}
  BY <1>1, OutOfTree
<1>4. /\ UNCHANGED <<tree, attached_timers, now, loc, cur, canceler, phase>>
      /\ \A x \in Timers \ {t} : /\ is_running'[x] = is_running[x]
                                 /\ fire_time'[x] = fire_time[x]
                                 /\ request'[x] = request[x]
                                 /\ handler'[x] = handler[x]
  BY DEF Timer_handler, Check_running, Rearm, Create_request, Submit_request,
         Timer_handler_ends, Handler_returns, IndInv, TypeOK
<1>5. faults' \in {faults, faults \cup {"submit"}}
  BY <1>3 DEF Timer_handler, Check_running, Rearm, Create_request, Submit_request,
         Timer_handler_ends, Handler_returns, Raise
<1>6. TreeInv'
  BY <1>2, <1>4 DEF IndInv, TreeInv, At
<1>7. AttachedInv' /\ CurInv' /\ FaultsInv'
  BY <1>3, <1>4, <1>5, NoTimerAssumption DEF IndInv, AttachedInv, CurInv, FaultsInv, TypeOK
<1>8. CASE Timer_handler(t)
  <2>1. TypeOK'
    BY <1>8 DEF Timer_handler, IndInv, TypeOK, Progress, HandlerLocations
  <2>2. HandlerInv'
    BY <1>8 DEF Timer_handler, IndInv, HandlerInv, TypeOK
  <2> QED BY <1>6, <1>7, <2>1, <2>2 DEF IndInv
<1>9. CASE Check_running(t)
  <2>1. TypeOK'
    BY <1>9 DEF Check_running, IndInv, TypeOK, HandlerLocations
  <2>2. HandlerInv'
    BY <1>9 DEF Check_running, IndInv, HandlerInv, TypeOK
  <2> QED BY <1>6, <1>7, <2>1, <2>2 DEF IndInv
<1>10. CASE Rearm(t)
  <2>1. fire_time[t] \in Times /\ now \in Times /\ Interval[t] \in Nat
    BY IntervalAssumption DEF IndInv, TypeOK
  <2>2. fire_time[t] + Interval[t] <= MaxTime
    BY <1>10 DEF Rearm, IndInv, HandlerInv
  <2>3. fire_time[t] + Interval[t] \in Times
    BY <2>1, <2>2, MaxTimeAssumption DEF Times
  <2>4. fire_time' \in [Timers -> Times]
    BY <1>10, <2>1, <2>3 DEF Rearm, IndInv, TypeOK
  <2>5. TypeOK'
    BY <1>10, <2>4 DEF Rearm, IndInv, TypeOK, HandlerLocations
  <2>6. HandlerInv'
    BY <1>10 DEF Rearm, IndInv, HandlerInv, TypeOK
  <2> QED BY <1>6, <1>7, <2>5, <2>6 DEF IndInv
<1>11. CASE Create_request(t)
  <2>1. TypeOK'
    BY <1>11 DEF Create_request, IndInv, TypeOK, Progress, HandlerLocations
  <2>2. HandlerInv'
    BY <1>11 DEF Create_request, IndInv, HandlerInv, TypeOK
  <2> QED BY <1>6, <1>7, <2>1, <2>2 DEF IndInv
<1>12. CASE Submit_request(t)
  <2>1. TypeOK'
    BY <1>12 DEF Submit_request, Raise, IndInv, TypeOK, Progress, HandlerLocations, Faults
  <2>2. HandlerInv'
    BY <1>12 DEF Submit_request, IndInv, HandlerInv, TypeOK
  <2> QED BY <1>6, <1>7, <2>1, <2>2 DEF IndInv
<1>13. CASE Timer_handler_ends(t)
  <2>1. TypeOK'
    BY <1>3, <1>13 DEF Timer_handler_ends, Raise, IndInv, TypeOK, Progress, HandlerLocations
  <2>2. HandlerInv'
    BY <1>13 DEF Timer_handler_ends, IndInv, HandlerInv, TypeOK
  <2> QED BY <1>6, <1>7, <2>1, <2>2 DEF IndInv
<1>14. CASE \E again \in BOOLEAN : Handler_returns(t, again)
  <2>1. TypeOK'
    BY <1>14 DEF Handler_returns, IndInv, TypeOK, HandlerLocations
  <2>2. HandlerInv'
    BY <1>14 DEF Handler_returns, IndInv, HandlerInv, TypeOK
  <2> QED BY <1>6, <1>7, <2>1, <2>2 DEF IndInv
<1> QED BY <1>8, <1>9, <1>10, <1>11, <1>12, <1>13, <1>14

-----------------------------------------------------------------------------
\* A timer is found at the tick read from it, unless it is not in the tree.
LEMMA CancelLemma ==
  ASSUME IndInv, NEW t \in Timers, NEW k \in Ticks, CancelSection(t, k),
         \A j \in Ticks : At(t, j) => j = k,
         canceler' \in [Cancelers -> Timers \cup {NoTimer}],
         UNCHANGED <<fire_time, now, handler, runs, loc, cur, phase>>
  PROVE  IndInv' /\ \A j \in Ticks : ~At(t, j)'
<1> USE NoTimerAssumption
<1>1. /\ request' \in [Timers -> Progress]
      /\ is_running' \in [Timers -> BOOLEAN] /\ ~is_running'[t]
      /\ \A x \in Timers \ {t} : request'[x] = request[x] /\ is_running'[x] = is_running[x]
      /\ request'[t] # request[t] =>
           /\ is_running[t] /\ request'[t] = "aborted"
           /\ request[t] \in {"created", "queued", "processing", "completed"}
      /\ is_running[t] => request'[t] # "completed"
  BY DEF CancelSection, Destroy, Aborted, IndInv, TypeOK, Progress
<1>2. /\ tree' \in [Ticks -> Timers \cup {NoTimer}]
      /\ attached_timers' \in [Timers -> SUBSET Timers]
      /\ attached_timers'[t] = {} /\ Assertions(t, k) = {}
      /\ \A x \in Timers, j \in Ticks : At(x, j)' => At(x, j) /\ x # t
      /\ AttachedInv'
  <2>1. attached_timers[t] # {} => tree[k] = t
    BY FireTick DEF IndInv, AttachedInv, TypeOK, At
  <2>2. CASE tree[k] = NoTimer /\ UNCHANGED <<tree, attached_timers>>
    BY <2>1, <2>2 DEF At, Assertions, IndInv, TypeOK, AttachedInv
  <2>3. CASE /\ tree[k] \notin {t, NoTimer}
             /\ attached_timers' = [attached_timers EXCEPT ![tree[k]] = @ \ {t}]
             /\ UNCHANGED tree
    <3>1. tree[k] \in Timers /\ attached_timers[t] = {}
      BY <2>1, <2>3 DEF IndInv, TypeOK
    <3>2. /\ attached_timers' \in [Timers -> SUBSET Timers]
          /\ attached_timers'[t] = {}
          /\ \A x \in Timers : attached_timers'[x] \subseteq attached_timers[x]
          /\ t \notin attached_timers'[tree[k]]
      BY <2>3, <3>1 DEF IndInv, TypeOK
    <3>3. \A x \in Timers, j \in Ticks : At(x, j)' => At(x, j) /\ x # t
      BY <2>3, <3>2 DEF At, IndInv, TypeOK
    <3>4. AttachedInv'
      BY <2>3, <3>2 DEF IndInv, AttachedInv
    <3> QED BY <2>3, <3>2, <3>3, <3>4 DEF Assertions, IndInv, TypeOK
  <2>4. CASE /\ tree[k] = t /\ attached_timers[t] = {}
             /\ tree' = [tree EXCEPT ![k] = NoTimer]
             /\ UNCHANGED attached_timers
    <3>1. \A x \in Timers, j \in Ticks : At(x, j)' => At(x, j) /\ x # t
      BY <2>4 DEF At, IndInv, TypeOK
    <3>2. AttachedInv'
      BY <2>4 DEF IndInv, AttachedInv, TypeOK
    <3> QED BY <2>4, <3>1, <3>2 DEF Assertions, IndInv, TypeOK
  <2>5. ASSUME NEW repl \in attached_timers[t], tree[k] = t,
               tree' = [tree EXCEPT ![k] = repl],
               attached_timers' = [attached_timers EXCEPT
                                     ![t] = {}, ![repl] = attached_timers[t] \ {repl}]
        PROVE  /\ tree' \in [Ticks -> Timers \cup {NoTimer}]
               /\ attached_timers' \in [Timers -> SUBSET Timers]
               /\ attached_timers'[t] = {} /\ Assertions(t, k) = {}
               /\ \A x \in Timers, j \in Ticks : At(x, j)' => At(x, j) /\ x # t
               /\ AttachedInv'
    <3>1. repl \in Timers /\ repl # t /\ At(repl, k) /\ t \notin attached_timers[t]
      BY <2>5 DEF At, IndInv, TypeOK, AttachedInv
    <3>2. Get_ticks(fire_time[repl]) = k /\ \A j \in Ticks : At(repl, j) => j = k
      BY <3>1 DEF IndInv, TreeInv
    <3>3. attached_timers[repl] = {}
      BY <2>5, <3>1, <3>2 DEF IndInv, AttachedInv
    <3>4. /\ tree' \in [Ticks -> Timers \cup {NoTimer}] /\ tree'[k] = repl
          /\ attached_timers' \in [Timers -> SUBSET Timers]
          /\ attached_timers'[t] = {}
          /\ attached_timers'[repl] = attached_timers[t] \ {repl}
          /\ \A j \in Ticks \ {k} : tree'[j] = tree[j]
          /\ \A x \in Timers \ {t, repl} : attached_timers'[x] = attached_timers[x]
      BY <2>5, <3>1 DEF IndInv, TypeOK
    <3>5. ASSUME NEW x \in Timers, NEW j \in Ticks, At(x, j)'
          PROVE  At(x, j) /\ x # t
      <4>1. CASE j = k
        BY <2>5, <3>1, <3>4, <3>5, <4>1 DEF At
      <4>2. CASE j # k
        <5>1. tree'[j] = tree[j] /\ tree[j] # NoTimer /\ tree[j] \in Timers
          BY <3>4, <3>5, <4>2 DEF At, IndInv, TypeOK
        <5>2. tree[j] # t /\ tree[j] # repl
          BY <3>2, <4>2, <5>1 DEF At
        <5> QED BY <3>4, <3>5, <4>2, <5>1, <5>2 DEF At
      <4> QED BY <4>1, <4>2
    <3>6. AttachedInv'
      <4> SUFFICES ASSUME NEW x \in Timers
                   PROVE  /\ attached_timers'[x] # {} => tree'[Get_ticks(fire_time[x])] = x
                          /\ x \notin attached_timers'[x]
        BY DEF AttachedInv
      <4>1. CASE x \in {t, repl}
        BY <3>2, <3>4, <4>1
      <4>2. CASE x \notin {t, repl}
        BY <2>5, <3>4, <4>2 DEF IndInv, AttachedInv, TypeOK
      <4> QED BY <4>1, <4>2
    <3>7. Assertions(t, k) = {}
      BY <3>3, <3>4 DEF Assertions
    <3> QED BY <3>4, <3>5, <3>6, <3>7
  <2> QED BY <2>2, <2>3, <2>4, <2>5 DEF CancelSection, Remove, Get_attached
<1>3. faults' = faults
  BY <1>2 DEF CancelSection
<1>4. TypeOK'
  BY <1>1, <1>2, <1>3 DEF IndInv, TypeOK
<1>5. TreeInv'
  BY <1>1, <1>2 DEF IndInv, TreeInv
<1>6. CurInv' /\ FaultsInv'
  BY <1>1, <1>3 DEF IndInv, CurInv, FaultsInv, TypeOK
<1>7. HandlerInv'
  BY <1>1 DEF IndInv, HandlerInv
<1> QED BY <1>2, <1>4, <1>5, <1>6, <1>7 DEF IndInv

\* Cancel_timer reads any tick while fire_time is being written, but then the timer is
\* not in the tree.
LEMMA CancelTimerLemma ==
  ASSUME IndInv, NEW c \in Cancelers, Cancel_timer(c)
  PROVE  IndInv'
<1> DEFINE t == canceler[c]
<1>1. t \in Timers /\ Get_ticks(fire_time[t]) \in Ticks
  BY FireTick DEF Cancel_timer, IndInv, TypeOK
<1>2. PICK k \in Read_ticks(t) : CancelSection(t, k)
  BY DEF Cancel_timer
<1>3. k \in Ticks
  BY <1>1 DEF Read_ticks
<1>4. \A j \in Ticks : At(t, j) => j = k
  BY <1>1 DEF Read_ticks, IndInv, TreeInv
<1>5. canceler' \in [Cancelers -> Timers \cup {NoTimer}]
  BY DEF Cancel_timer, IndInv, TypeOK
<1> QED BY <1>1, <1>2, <1>3, <1>4, <1>5, CancelLemma DEF Cancel_timer

\* On_disable cancels the first timer of the tree.
LEMMA CancelFirstLemma ==
  ASSUME IndInv, NEW k \in Ticks, Cancel_first(k)
  PROVE  IndInv'
<1> DEFINE t == tree[k]
<1>1. t \in Timers /\ At(t, k)
  BY DEF Cancel_first, First, At, IndInv, TypeOK
<1>2. Get_ticks(fire_time[t]) = k /\ \A j \in Ticks : At(t, j) => j = k
  BY <1>1 DEF IndInv, TreeInv
<1>3. CancelSection(t, k)
  BY <1>2 DEF Cancel_first
<1>4. canceler' \in [Cancelers -> Timers \cup {NoTimer}]
  BY DEF Cancel_first, IndInv, TypeOK
<1> QED BY <1>1, <1>2, <1>3, <1>4, CancelLemma DEF Cancel_first

\* Timer::Cancel, and the steps of disabling that cancel nothing.
LEMMA DisableLemma ==
  ASSUME IndInv,
         \/ On_disable \/ Join \/ Abort_requests
         \/ \E c \in Cancelers, t \in Timers : Cancel(c, t)
  PROVE  IndInv'
<1>1. /\ UNCHANGED <<tree, attached_timers, is_running, fire_time, now, handler, runs,
                     loc, cur>>
      /\ request' \in [Timers -> Progress]
      /\ \A x \in Timers : request'[x] = request[x]
                           \/ (request[x] = "queued" /\ request'[x] = "aborted")
  BY DEF On_disable, Join, Abort_requests, Cancel, IndInv, TypeOK, Progress
<1>2. faults' \in {faults, faults \cup {"disable_running"}}
  BY DEF On_disable, Join, Abort_requests, Cancel, Raise
<1>3. phase' \in {"enabled", "stopping", "canceling", "disabled"}
  BY DEF On_disable, Join, Abort_requests, Cancel, IndInv, TypeOK
<1>4. canceler' \in [Cancelers -> Timers \cup {NoTimer}]
  BY DEF On_disable, Join, Abort_requests, Cancel, IndInv, TypeOK
<1>5. TypeOK'
  BY <1>1, <1>2, <1>3, <1>4 DEF IndInv, TypeOK, Faults
<1>6. TreeInv'
  BY <1>1 DEF IndInv, TreeInv, At
<1>7. AttachedInv' /\ FaultsInv'
  BY <1>1, <1>2 DEF IndInv, AttachedInv, FaultsInv
<1>8. CurInv'
  BY <1>1 DEF IndInv, CurInv, TypeOK
<1>9. HandlerInv'
  BY <1>1 DEF IndInv, HandlerInv
<1> QED BY <1>5, <1>6, <1>7, <1>8, <1>9 DEF IndInv

\* Every step preserves the invariant.
LEMMA NextLemma == IndInv /\ [Next]_vars => IndInv'
<1> SUFFICES ASSUME IndInv, [Next]_vars PROVE IndInv'
  OBVIOUS
<1>1. CASE Tick
  BY <1>1, TickLemma
<1>2. CASE ThreadStep
  BY <1>2, ProcessLemma, ProcessHandlerLemma, PlaceLemma, WaitLemma DEF ThreadStep
<1>3. CASE On_disable \/ DisableStep
  BY <1>3, DisableLemma, CancelFirstLemma DEF DisableStep
<1>4. ASSUME NEW t \in Timers,
             \/ Create_timer(t) \/ HandlerStep(t)
             \/ \E again \in BOOLEAN : Handler_returns(t, again)
             \/ \E c \in Cancelers : Cancel(c, t)
      PROVE  IndInv'
  <2>1. CASE Create_timer(t)
    BY <2>1, CreateLemma
  <2>2. CASE HandlerStep(t) \/ \E again \in BOOLEAN : Handler_returns(t, again)
    BY <2>2, HandlerLemma DEF HandlerStep
  <2>3. CASE \E c \in Cancelers : Cancel(c, t)
    BY <2>3, DisableLemma
  <2> QED BY <1>4, <2>1, <2>2, <2>3
<1>5. CASE \E c \in Cancelers : Cancel_timer(c)
  BY <1>5, CancelTimerLemma
<1>6. CASE UNCHANGED vars
  BY <1>6 DEF vars, IndInv, TypeOK, TreeInv, At, AttachedInv, CurInv, HandlerInv, FaultsInv
<1> QED BY <1>1, <1>2, <1>3, <1>4, <1>5, <1>6 DEF Next

\* The invariant holds in every state of every behaviour of Timer_processor.
THEOREM Invariance == Spec => []IndInv
BY InitLemma, NextLemma, PTL DEF Spec

-----------------------------------------------------------------------------
(* Theorems.                                                               *)

\* The variables of Timer_processor keep their types; in particular Rearm never computes
\* a tick that is not one of the tree.
THEOREM TypeCorrect == Spec => []TypeOK
<1>1. IndInv => TypeOK
  BY DEF IndInv
<1> QED BY <1>1, Invariance, PTL

\* For any number of timers that share ticks and are canceled at any moment, Cancel_timer,
\* Fire and Get_attached keep the tree sound and no assertion of theirs fails.
THEOREM SoundTree == Spec => []TreeSound
<1>1. IndInv => TreeSound
  <2> SUFFICES ASSUME IndInv PROVE TreeSound
    OBVIOUS
  <2>1. ASSUME NEW k \in Ticks, tree[k] # NoTimer
        PROVE  /\ Get_ticks(fire_time[tree[k]]) = k
               /\ tree[k] \notin attached_timers[tree[k]]
               /\ \A t \in attached_timers[tree[k]] : Get_ticks(fire_time[t]) = k
    <3>1. tree[k] \in Timers /\ attached_timers[tree[k]] \subseteq Timers
      BY <2>1 DEF IndInv, TypeOK
    <3>2. At(tree[k], k) /\ \A t \in attached_timers[tree[k]] : At(t, k)
      BY <2>1 DEF At
    <3> QED BY <3>1, <3>2 DEF IndInv, TreeInv, AttachedInv
  <2> QED BY <2>1 DEF TreeSound, IndInv, AttachedInv, FaultsInv
<1> QED BY <1>1, Invariance, PTL

\* Fire() finds the requests of all running timers being processed, so that Complete()
\* never throws in the processor's thread.
THEOREM LegalFire == Spec => []FireCompletes
<1>1. IndInv => FireCompletes
  <2> SUFFICES ASSUME IndInv PROVE FireCompletes
    OBVIOUS
  <2>1. \A t \in InTree : \E k \in Ticks : At(t, k)
    BY DEF InTree, At
  <2>2. \A t \in Timers : is_running[t] /\ t \in InTree => request[t] = "processing"
    BY <2>1 DEF IndInv, TreeInv
  <2>3. \A t \in Timers : is_running[t] /\ cur = t => request[t] = "processing"
    BY NoTimerAssumption DEF IndInv, CurInv
  <2> QED BY <2>2, <2>3 DEF FireCompletes, IndInv, FaultsInv
<1> QED BY <1>1, Invariance, PTL

\* Timer_handler is called for a request that was completed less than two milliseconds
\* before its time, one for the truncated delay and one for a tick that timers share, and
\* nothing moves the fire_time of the timer in between.
THEOREM NeverEarly == Spec => NotEarly
<1>1. IndInv /\ [Next]_vars
        => [\A t \in Timers : runs'[t] > runs[t] => fire_time[t] < now + 2 * Millisecond]_vars
  <2> SUFFICES ASSUME IndInv, Next, NEW x \in Timers, runs'[x] > runs[x]
               PROVE  fire_time[x] < now + 2 * Millisecond
    BY DEF vars
  <2>1. runs[x] \in Nat /\ runs' # runs
    BY DEF IndInv, TypeOK
  <2>2. PICK t \in Timers : Timer_handler(t)
    BY <2>1 DEF Next, Tick, ThreadStep, Process_request, Timer_process_handler, Place_timer,
         On_wait_and_process, On_disable, DisableStep, Join, Abort_requests, Cancel_first,
         Create_timer, HandlerStep, Check_running, Rearm, Create_request, Submit_request,
         Timer_handler_ends, Handler_returns, Cancel, Cancel_timer
  <2>3. x = t
    BY <2>1, <2>2 DEF Timer_handler, IndInv, TypeOK
  <2> QED BY <2>2, <2>3 DEF Timer_handler, IndInv, HandlerInv
<1> QED BY <1>1, Invariance, PTL DEF Spec, NotEarly

-----------------------------------------------------------------------------
(* Timer implements TimerLifecycle.                                        *)

Stages == [t \in Timers |-> StageOf(t)]

\* A step that calls no handler, stops no timer and creates none changes no stage.
LEMMA StagesStay ==
  ASSUME IndInv, UNCHANGED runs,
         \A t \in Timers : /\ (request'[t] = "none") <=> (request[t] = "none")
                           /\ is_running'[t] = is_running[t]
                           /\ (handler'[t] = "idle") <=> (handler[t] = "idle")
  PROVE  UNCHANGED <<Stages, runs>>
<1>1. \A t \in Timers : StageOf(t)' = StageOf(t)
  BY DEF StageOf
<1> QED BY <1>1 DEF Stages

\* A step that changes one timer only moves the stage of that timer.
LEMMA StageMoves ==
  ASSUME IndInv, IndInv', NEW t \in Timers,
         \A x \in Timers \ {t} : /\ request'[x] = request[x]
                                 /\ is_running'[x] = is_running[x]
                                 /\ handler'[x] = handler[x]
  PROVE  Stages' = [Stages EXCEPT ![t] = StageOf(t)']
<1>1. \A x \in Timers \ {t} : StageOf(x)' = StageOf(x)
  BY DEF StageOf
<1> QED BY <1>1 DEF Stages

\* The timer of a canceled section is stopped, or was before.
LEMMA CancelStops ==
  ASSUME IndInv, IndInv', NEW t \in Timers, Destroy(t), UNCHANGED <<handler, runs>>
  PROVE  [Lifecycle!Next]_<<Stages, runs>>
<1>1. Stages' = [Stages EXCEPT ![t] = StageOf(t)']
  BY StageMoves DEF Destroy, Aborted, IndInv, TypeOK
<1>2. request'[t] = "none" <=> request[t] = "none"
  BY DEF Destroy, Aborted, IndInv, TypeOK
<1>3. is_running'[t] = FALSE
  BY DEF Destroy, IndInv, TypeOK
<1>4. CASE is_running[t]
  <2>1. request[t] # "none"
    BY <1>4 DEF IndInv, HandlerInv
  <2>2. StageOf(t) \in {"armed", "calling"} /\ StageOf(t)' = "stopped"
    BY <1>2, <1>3, <1>4, <2>1 DEF StageOf
  <2>3. Lifecycle!Stop(t)
    BY <1>1, <2>2 DEF Lifecycle!Stop, Lifecycle!Move, Stages
  <2> QED BY <2>3 DEF Lifecycle!Next
<1>5. CASE ~is_running[t]
  <2>1. is_running' = is_running /\ request' = request
    BY <1>5 DEF Destroy, IndInv, TypeOK
  <2> QED BY <2>1, StagesStay
<1> QED BY <1>4, <1>5

\* Every step of Timer is a step of TimerLifecycle or a stutter.
LEMMA RefinementStep ==
  ASSUME IndInv, IndInv', [Next]_vars
  PROVE  [Lifecycle!Next]_<<Stages, runs>>
<1>1. CASE Tick \/ On_disable \/ Join \/ Timer_process_handler \/ UNCHANGED vars
  BY <1>1, StagesStay DEF Tick, On_disable, Join, Timer_process_handler, vars
<1>2. CASE \E t \in Timers : Process_request(t)
  <2>1. PICK t \in Timers : Process_request(t)
    BY <1>2
  <2> QED BY <2>1, StagesStay DEF Process_request, IndInv, TypeOK
<1>3. CASE Place_timer \/ (\E k \in Ticks : On_wait_and_process(k)) \/ Abort_requests
  <2>1. UNCHANGED <<is_running, handler, runs>>
    BY <1>3 DEF Place_timer, On_wait_and_process, Abort_requests
  <2>2. \A x \in Timers : (request'[x] = "none") <=> (request[x] = "none")
    <3>1. request \in [Timers -> Progress]
      BY DEF IndInv, TypeOK
    <3>2. CASE Place_timer
      BY <3>1, <3>2 DEF Place_timer, Fire
    <3>3. CASE \E k \in Ticks : On_wait_and_process(k)
      BY <3>1, <3>3 DEF On_wait_and_process, Fire
    <3>4. CASE Abort_requests
      BY <3>1, <3>4 DEF Abort_requests, Fire
    <3> QED BY <1>3, <3>2, <3>3, <3>4
  <2> QED BY <2>1, <2>2, StagesStay
<1>4. CASE \E k \in Ticks : Cancel_first(k)
  <2>1. PICK k \in Ticks : Cancel_first(k)
    BY <1>4
  <2>2. tree[k] \in Timers
    BY <2>1 DEF Cancel_first, First, IndInv, TypeOK
  <2> QED BY <2>1, <2>2, CancelStops DEF Cancel_first, CancelSection
<1>5. CASE \E c \in Cancelers : Cancel_timer(c)
  <2>1. PICK c \in Cancelers : Cancel_timer(c)
    BY <1>5
  <2>2. canceler[c] \in Timers
    BY <2>1 DEF Cancel_timer, IndInv, TypeOK
  <2> QED BY <2>1, <2>2, CancelStops DEF Cancel_timer, CancelSection
<1>6. ASSUME NEW t \in Timers,
             \/ Create_timer(t) \/ HandlerStep(t)
             \/ \E again \in BOOLEAN : Handler_returns(t, again)
             \/ \E c \in Cancelers : Cancel(c, t)
      PROVE  [Lifecycle!Next]_<<Stages, runs>>
  <2>1. CASE Create_timer(t)
    <3>1. StageOf(t) = "none"
      BY <2>1 DEF Create_timer, StageOf, IndInv, HandlerInv
    <3>2. handler[t] = "idle"
      BY <2>1 DEF Create_timer, IndInv, HandlerInv, TypeOK
    <3>3. StageOf(t)' = "armed"
      BY <2>1, <3>2 DEF Create_timer, StageOf, IndInv, TypeOK
    <3>4. Stages' = [Stages EXCEPT ![t] = "armed"] /\ UNCHANGED runs
      BY <2>1, <3>3, StageMoves DEF Create_timer, IndInv, TypeOK
    <3>5. Lifecycle!Create(t)
      BY <3>1, <3>4 DEF Lifecycle!Create, Lifecycle!Move, Stages
    <3> QED BY <3>5 DEF Lifecycle!Next
  <2>2. CASE Timer_handler(t)
    <3>1. is_running[t] /\ StageOf(t) = "armed"
      BY <2>2 DEF Timer_handler, IndInv, HandlerInv, StageOf
    <3>2. StageOf(t)' = "calling"
      BY <2>2, <3>1 DEF Timer_handler, StageOf, IndInv, TypeOK
    <3>3. Stages' = [Stages EXCEPT ![t] = "calling"]
      BY <2>2, <3>2, StageMoves DEF Timer_handler, IndInv, TypeOK
    <3>4. Lifecycle!Call(t)
      BY <2>2, <3>1, <3>3 DEF Lifecycle!Call, Lifecycle!Move, Stages, Timer_handler
    <3> QED BY <3>4 DEF Lifecycle!Next
  <2>3. CASE \/ Check_running(t) \/ Rearm(t) \/ Create_request(t)
             \/ \E again \in BOOLEAN : Handler_returns(t, again)
             \/ \E c \in Cancelers : Cancel(c, t)
    <3>1. UNCHANGED <<is_running, runs>>
      BY <2>3 DEF Check_running, Rearm, Create_request, Handler_returns, Cancel
    <3>2. \A x \in Timers : (handler'[x] = "idle") <=> (handler[x] = "idle")
      BY <2>3 DEF Check_running, Rearm, Create_request, Handler_returns, Cancel, IndInv, TypeOK
    <3>3. \A x \in Timers : (request'[x] = "none") <=> (request[x] = "none")
      BY <2>3 DEF Check_running, Rearm, Create_request, Handler_returns, Cancel, IndInv,
                  TypeOK, HandlerInv
    <3> QED BY <3>1, <3>2, <3>3, StagesStay
  <2>4. CASE Submit_request(t)
    <3>1. request[t] # "none" /\ request'[t] # "none"
      BY <2>4 DEF Submit_request, IndInv, HandlerInv, TypeOK
    <3>2. handler[t] # "idle" /\ handler'[t] = "idle" /\ UNCHANGED <<is_running, runs>>
      BY <2>4 DEF Submit_request, IndInv, TypeOK
    <3>3. Stages' = [Stages EXCEPT ![t] = StageOf(t)']
      BY <2>4, StageMoves DEF Submit_request, IndInv, TypeOK
    <3>4. CASE is_running[t]
      <4>1. StageOf(t) = "calling" /\ StageOf(t)' = "armed"
        BY <3>1, <3>2, <3>4 DEF StageOf
      <4>2. Lifecycle!Again(t)
        BY <3>2, <3>3, <4>1 DEF Lifecycle!Again, Lifecycle!Move, Stages
      <4> QED BY <4>2 DEF Lifecycle!Next
    <3>5. CASE ~is_running[t]
      <4>1. StageOf(t)' = StageOf(t)
        BY <3>1, <3>2, <3>5 DEF StageOf
      <4>2. Stages' = Stages
        BY <3>3, <4>1 DEF Stages
      <4> QED BY <3>2, <4>2
    <3> QED BY <3>4, <3>5
  <2>5. CASE Timer_handler_ends(t)
    <3>1. request[t] = "delivering" /\ request'[t] # "none" /\ handler[t] # "idle"
      BY <2>5 DEF Timer_handler_ends, IndInv, HandlerInv, TypeOK
    <3>2. is_running'[t] = FALSE /\ UNCHANGED runs
      BY <2>5 DEF Timer_handler_ends, IndInv, TypeOK
    <3>3. Stages' = [Stages EXCEPT ![t] = StageOf(t)']
      BY <2>5, StageMoves DEF Timer_handler_ends, IndInv, TypeOK
    <3>4. StageOf(t) \in {"calling", "stopped"} /\ StageOf(t)' = "stopped"
      BY <3>1, <3>2 DEF StageOf
    <3>5. CASE StageOf(t) = "calling"
      <4>1. Lifecycle!Stop(t)
        BY <3>2, <3>3, <3>4, <3>5 DEF Lifecycle!Stop, Lifecycle!Move, Stages
      <4> QED BY <4>1 DEF Lifecycle!Next
    <3>6. CASE StageOf(t) = "stopped"
      <4>1. Stages' = Stages
        BY <3>3, <3>4, <3>6 DEF Stages
      <4> QED BY <3>2, <4>1
    <3> QED BY <3>4, <3>5, <3>6
  <2> QED BY <1>6, <2>1, <2>2, <2>3, <2>4, <2>5 DEF HandlerStep
<1> QED
  BY <1>1, <1>2, <1>3, <1>4, <1>5, <1>6 DEF Next, ThreadStep, DisableStep

\* Timer_processor implements TimerLifecycle: whatever requests, threads and the tree do
\* meanwhile, an armed timer is called or stopped, and a stopped one is never called.
THEOREM Refinement == Spec => ImplementsTimer
<1>1. Init => Lifecycle!Init
  BY DEF Init, Lifecycle!Init, StageOf
<1>2. IndInv /\ IndInv' /\ [Next]_vars => [Lifecycle!Next]_Lifecycle!vars
  BY RefinementStep DEF Lifecycle!vars, Stages
<1> QED BY <1>1, <1>2, Invariance, PTL DEF Spec, ImplementsTimer, Lifecycle!Spec
=============================================================================
