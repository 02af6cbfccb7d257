------------------------------- MODULE Timer --------------------------------
(***************************************************************************)
(* Timer_processor: the tree of timers, its thread, and timers that are    *)
(* canceled from any thread (src/timer_processor.cpp).                      *)
(*                                                                         *)
(* The tree has one timer per tick, a millisecond of a clock that is finer, *)
(* and the others of that tick are attached to it.  One action is one       *)
(* critical section of tree_lock, of the mutex of a timer or of a request.  *)
(* Cancel_timer and Fire hold tree_lock from beginning to end, and what     *)
(* other threads may do meanwhile concerns timers that are not in the tree. *)
(* Of the request of a timer only its progress is kept; module Request has  *)
(* the rest.  Each handler has a thread of its own, and the containers of   *)
(* the handlers stay enabled.                                               *)
(***************************************************************************)
EXTENDS Naturals, FiniteSets

CONSTANTS Timers,
          Cancelers,  \* threads that cancel timers
          Millisecond,  \* the units of the clock that make a tick
          Interval,   \* of each timer
          NoTimer,    \* a null Timer::Ptr, and tree.end()
          MaxTime     \* bound: of the clock

ASSUME MillisecondAssumption == Millisecond \in Nat \ {0}
ASSUME IntervalAssumption == Interval \in [Timers -> Nat]
ASSUME NoTimerAssumption == NoTimer \notin Timers
ASSUME MaxTimeAssumption == MaxTime \in Nat

VARIABLES now,         \* the steady clock
          tree,        \* the timer of each tick
          attached_timers, is_running, fire_time,  \* members of each timer
          request,     \* progress of the request of each timer
          handler,     \* where Timer_handler is, of each timer
          runs,        \* how often the handler was called
          loc, cur,    \* where the processor's thread is, and with which timer
          canceler,    \* the timer each thread is about to pass to Cancel_timer
          phase,       \* of the processor
          faults       \* assertions failed and exceptions thrown so far

timer_vars == <<tree, attached_timers, is_running, fire_time, request>>
vars == <<timer_vars, now, handler, runs, loc, cur, canceler, phase, faults>>

-----------------------------------------------------------------------------
Times == 0 .. MaxTime

\* duration_cast to milliseconds truncates.
Get_ticks(time) == time \div Millisecond

Ticks == {Get_ticks(time) : time \in Times}

\* Of the last request: created by Create_request, in the processor's queue, being
\* processed, completed and in the queue of the handler's container, its
\* completion handler called, and returned; aborted; or refused by the processor.
Progress == {"none", "created", "queued", "processing", "completed", "delivering",
             "delivered", "aborted", "refused"}

\* Timer_handler: not running, in the user's handler, about to look at Is_running(),
\* at fire_time, to set the new request, to submit it, or to call Destroy().
HandlerLocations == {"idle", "running", "check", "rearm", "create", "submit", "destroy"}

Faults == {"complete_state", "destroy_attached", "replaced_attached", "disable_running",
           "submit"}

\* Each variable has its type.
TypeOK == /\ now \in Times
          /\ tree \in [Ticks -> Timers \cup {NoTimer}]
          /\ attached_timers \in [Timers -> SUBSET Timers]
          /\ is_running \in [Timers -> BOOLEAN]
          /\ fire_time \in [Timers -> Times]
          /\ request \in [Timers -> Progress]
          /\ handler \in [Timers -> HandlerLocations]
          /\ runs \in [Timers -> Nat]
          /\ loc \in {"idle", "check", "place"} /\ cur \in Timers \cup {NoTimer}
          /\ (loc = "idle") <=> (cur = NoTimer)
          /\ canceler \in [Cancelers -> Timers \cup {NoTimer}]
          /\ phase \in {"enabled", "stopping", "canceling", "disabled"}
          /\ faults \subseteq Faults

Init == /\ now = 0
        /\ tree = [k \in Ticks |-> NoTimer]
        /\ attached_timers = [t \in Timers |-> {}]
        /\ is_running = [t \in Timers |-> FALSE]
        /\ fire_time = [t \in Timers |-> 0]
        /\ request = [t \in Timers |-> "none"]
        /\ handler = [t \in Timers |-> "idle"]
        /\ runs = [t \in Timers |-> 0]
        /\ loc = "idle" /\ cur = NoTimer
        /\ canceler = [c \in Cancelers |-> NoTimer]
        /\ phase = "enabled"
        /\ faults = {}

Tick == /\ now < MaxTime
        /\ now' = now + 1
        /\ UNCHANGED <<timer_vars, handler, runs, loc, cur, canceler, phase, faults>>

-----------------------------------------------------------------------------
(* Timers.                                                                 *)

Raise(f, condition) == faults' = IF condition THEN faults \cup {f} ELSE faults

\* Create_timer: nobody else knows the timer until it returns.
Create_timer(t) ==
  /\ phase = "enabled"
  /\ request[t] = "none"
  /\ now + Interval[t] <= MaxTime
  /\ is_running' = [is_running EXCEPT ![t] = TRUE]
  /\ fire_time' = [fire_time EXCEPT ![t] = now + Interval[t]]
  /\ request' = [request EXCEPT ![t] = "queued"]
  /\ UNCHANGED <<tree, attached_timers, now, handler, runs, loc, cur, canceler, phase, faults>>

\* The timers that Fire() of t completes.
Fired(t) == {t} \cup attached_timers[t]

\* Fire: the requests of running timers are completed; Complete() ignores an aborted
\* one and throws if the request is not being processed.
Fire(t) ==
  LET F == {x \in Fired(t) : is_running[x]}
  IN /\ request' = [x \in Timers |-> IF x \in F /\ request[x] = "processing"
                                     THEN "completed" ELSE request[x]]
     /\ attached_timers' = [attached_timers EXCEPT ![t] = {}]
     /\ Raise("complete_state", \E x \in F : request[x] \notin {"processing", "aborted"})

\* Mutant: the request of a canceled timer is not aborted.
Aborted_None(t) == request

\* Abort() does nothing to a request that is delivered or being delivered.
Aborted(t) == IF request[t] \in {"created", "queued", "processing", "completed"}
              THEN [request EXCEPT ![t] = "aborted"] ELSE request

\* Mutant: the timer is still running.
Destroy_Running(t) == /\ UNCHANGED is_running
                      /\ request' = Aborted(t)

\* What Destroy does to a timer and its request.
Destroy(t) == /\ is_running' = [is_running EXCEPT ![t] = FALSE]
              /\ request' = IF is_running[t] THEN Aborted(t) ELSE request

-----------------------------------------------------------------------------
(* The thread of the processor.                                            *)

ThreadRuns == phase \in {"enabled", "stopping"}

\* A request is taken from the queue and processed; an aborted one is dropped.
Process_request(t) ==
  /\ ThreadRuns
  /\ loc = "idle"
  /\ request[t] = "queued"
  /\ request' = [request EXCEPT ![t] = "processing"]
  /\ loc' = "check" /\ cur' = t
  /\ UNCHANGED <<tree, attached_timers, is_running, fire_time, now, handler, runs, canceler,
                 phase, faults>>

\* Timer_process_handler looks at Is_running() ...
Timer_process_handler ==
  /\ loc = "check"
  /\ IF is_running[cur] THEN loc' = "place" /\ UNCHANGED cur
                        ELSE loc' = "idle" /\ cur' = NoTimer
  /\ UNCHANGED <<timer_vars, now, handler, runs, canceler, phase, faults>>

\* Insert_timer: into the tree, or attached to the timer with the same tick.
Insert_timer(t) ==
  LET k == Get_ticks(fire_time[t])
      root == tree[k]
  IN IF root = NoTimer
     THEN tree' = [tree EXCEPT ![k] = t] /\ UNCHANGED attached_timers
     ELSE /\ attached_timers' = [attached_timers EXCEPT ![root] = @ \cup {t}]
          /\ UNCHANGED tree

\* ... and, though the timer may be canceled by now, fires it or puts it into the tree.
Place_timer ==
  /\ loc = "place"
  /\ IF fire_time[cur] <= now
     THEN Fire(cur) /\ UNCHANGED tree
     ELSE Insert_timer(cur) /\ UNCHANGED <<request, faults>>
  /\ loc' = "idle" /\ cur' = NoTimer
  /\ UNCHANGED <<is_running, fire_time, now, handler, runs, canceler, phase>>

\* k is the first tick in the tree.
First(k) == tree[k] # NoTimer /\ \A i \in Ticks : tree[i] # NoTimer => k <= i

\* Mutant: a timer with one millisecond left has expired.
Expired_Early(k) == fire_time[tree[k]] < now + 2 * Millisecond

\* The delay until the timer of tick k is less than a millisecond: truncated, it is 0.
Expired(k) == fire_time[tree[k]] < now + Millisecond

\* On_wait_and_process fires the first timer when it has expired.
On_wait_and_process(k) ==
  /\ ThreadRuns
  /\ loc = "idle"
  /\ First(k)
  /\ Expired(k)
  /\ tree' = [tree EXCEPT ![k] = NoTimer]
  /\ Fire(tree[k])
  /\ UNCHANGED <<is_running, fire_time, now, handler, runs, loc, cur, canceler, phase>>

-----------------------------------------------------------------------------
(* Timer_handler, in a thread of the handler's container.                  *)

\* The completion handler of the request: the user's handler is called.
Timer_handler(t) ==
  /\ request[t] = "completed"
  /\ handler[t] = "idle"
  /\ request' = [request EXCEPT ![t] = "delivering"]
  /\ handler' = [handler EXCEPT ![t] = "running"]
  /\ runs' = [runs EXCEPT ![t] = @ + 1]
  /\ UNCHANGED <<tree, attached_timers, is_running, fire_time, now, loc, cur, canceler, phase, faults>>

\* The user's handler returns.  Bound: it returns true as long as there is time left.
Handler_returns(t, again) ==
  /\ handler[t] = "running"
  /\ again => fire_time[t] + Interval[t] <= MaxTime
  /\ handler' = [handler EXCEPT ![t] = IF again THEN "check" ELSE "destroy"]
  /\ UNCHANGED <<timer_vars, now, runs, loc, cur, canceler, phase, faults>>

\* A timer that was canceled meanwhile is not armed again.
Check_running(t) ==
  /\ handler[t] = "check"
  /\ handler' = [handler EXCEPT ![t] = IF is_running[t] THEN "rearm" ELSE "destroy"]
  /\ UNCHANGED <<timer_vars, now, runs, loc, cur, canceler, phase, faults>>

\* Mutant: the interval starts when the handler has returned.
Rearm_Now(t) ==
  /\ handler[t] = "rearm"
  /\ fire_time' = [fire_time EXCEPT ![t] = now + Interval[t]]
  /\ handler' = [handler EXCEPT ![t] = "create"]
  /\ UNCHANGED <<tree, attached_timers, is_running, request, now, runs, loc, cur, canceler,
                 phase, faults>>

\* fire_time is written without a lock.
Rearm(t) ==
  /\ handler[t] = "rearm"
  /\ LET next == fire_time[t] + Interval[t]
     IN fire_time' = [fire_time EXCEPT ![t] = IF next < now THEN now ELSE next]
  /\ handler' = [handler EXCEPT ![t] = "create"]
  /\ UNCHANGED <<tree, attached_timers, is_running, request, now, runs, loc, cur, canceler,
                 phase, faults>>

\* Create_request sets the request of the timer, canceled by now or not ...
Create_request(t) ==
  /\ handler[t] = "create"
  /\ request' = [request EXCEPT ![t] = "created"]
  /\ handler' = [handler EXCEPT ![t] = "submit"]
  /\ UNCHANGED <<tree, attached_timers, is_running, fire_time, now, runs, loc, cur, canceler,
                 phase, faults>>

\* ... and submits it: a processor that is not enabled throws.
Submit_request(t) ==
  /\ handler[t] = "submit"
  /\ handler' = [handler EXCEPT ![t] = "idle"]
  /\ request' = [request EXCEPT ![t] =
                   IF @ # "created" THEN @ ELSE IF phase = "enabled" THEN "queued" ELSE "refused"]
  /\ Raise("submit", phase # "enabled")
  /\ UNCHANGED <<tree, attached_timers, is_running, fire_time, now, runs, loc, cur, canceler,
                 phase>>

\* Destroy() by Timer_handler, which asserts that nothing is attached; it returns.
Timer_handler_ends(t) ==
  /\ handler[t] = "destroy"
  /\ is_running' = [is_running EXCEPT ![t] = FALSE]
  /\ request' = [request EXCEPT ![t] = "delivered"]
  /\ handler' = [handler EXCEPT ![t] = "idle"]
  /\ Raise("destroy_attached", is_running[t] /\ attached_timers[t] # {})
  /\ UNCHANGED <<tree, attached_timers, fire_time, now, runs, loc, cur, canceler, phase>>

-----------------------------------------------------------------------------
(* Canceling.                                                              *)

\* Timer::Cancel, by any thread, the one of the handler included.
Cancel(c, t) ==
  /\ canceler[c] = NoTimer
  /\ is_running[t]
  /\ canceler' = [canceler EXCEPT ![c] = t]
  /\ UNCHANGED <<timer_vars, now, handler, runs, loc, cur, phase, faults>>

\* The tick that is read from a timer: any, while Rearm writes it.
Read_ticks(t) == IF handler[t] = "rearm" THEN Ticks ELSE {Get_ticks(fire_time[t])}

\* Mutant: the timers attached to a canceled one are lost.
Get_attached_Lost(t, k) ==
  /\ tree' = [tree EXCEPT ![k] = NoTimer]
  /\ attached_timers' = [attached_timers EXCEPT ![t] = {}]

\* Mutant: the timer that takes over is not given the others.
Get_attached_Alone(t, k) ==
  \E repl \in IF attached_timers[t] = {} THEN {NoTimer} ELSE attached_timers[t] :
     /\ tree' = [tree EXCEPT ![k] = repl]
     /\ UNCHANGED attached_timers

\* Get_attached: one of the attached timers takes the place of t in the tree, and the
\* others are attached to it.
Get_attached(t, k) ==
  \/ /\ attached_timers[t] = {}
     /\ tree' = [tree EXCEPT ![k] = NoTimer]
     /\ UNCHANGED attached_timers
  \/ \E repl \in attached_timers[t] :
        /\ tree' = [tree EXCEPT ![k] = repl]
        /\ attached_timers' = [attached_timers EXCEPT ![t] = {},
                                                      ![repl] = attached_timers[t] \ {repl}]

\* The timer is taken out of the tree, if it is found there.
Remove(t, k) ==
  \/ tree[k] = NoTimer /\ UNCHANGED <<tree, attached_timers>>
  \/ /\ tree[k] \notin {t, NoTimer}
     /\ attached_timers' = [attached_timers EXCEPT ![tree[k]] = @ \ {t}]
     /\ UNCHANGED tree
  \/ tree[k] = t /\ Get_attached(t, k)

\* Assertions of Get_attached, that the timer that takes over has none attached, and of
\* Destroy, that none is left attached to t.
Assertions(t, k) ==
  (IF tree[k] = t /\ tree'[k] # NoTimer /\ attached_timers[tree'[k]] # {}
   THEN {"replaced_attached"} ELSE {})
  \cup (IF is_running[t] /\ attached_timers'[t] # {} THEN {"destroy_attached"} ELSE {})

\* The critical section of Cancel_timer.
CancelSection(t, k) == /\ Remove(t, k)
                       /\ faults' = faults \cup Assertions(t, k)
                       /\ Destroy(t)

Cancel_timer(c) ==
  /\ canceler[c] # NoTimer
  /\ \E k \in Read_ticks(canceler[c]) : CancelSection(canceler[c], k)
  /\ canceler' = [canceler EXCEPT ![c] = NoTimer]
  /\ UNCHANGED <<fire_time, now, handler, runs, loc, cur, phase>>

-----------------------------------------------------------------------------
(* Disabling the processor.                                                *)

\* On_disable: Set_disabled ...
On_disable ==
  /\ phase = "enabled"
  /\ phase' = "stopping"
  /\ UNCHANGED <<timer_vars, now, handler, runs, loc, cur, canceler, faults>>

\* ... the thread is joined, and no timer of the tree should be running ...
Join == /\ phase = "stopping"
        /\ loc = "idle"
        /\ phase' = "canceling"
        /\ Raise("disable_running", \E k \in Ticks : tree[k] # NoTimer /\ is_running[tree[k]])
        /\ UNCHANGED <<timer_vars, now, handler, runs, loc, cur, canceler>>

\* ... they are canceled one after another ...
Cancel_first(k) ==
  /\ phase = "canceling"
  /\ First(k)
  /\ CancelSection(tree[k], Get_ticks(fire_time[tree[k]]))
  /\ UNCHANGED <<fire_time, now, handler, runs, loc, cur, canceler, phase>>

\* ... and Disable aborts what is in the queue.
Abort_requests ==
  /\ phase = "canceling"
  /\ \A k \in Ticks : tree[k] = NoTimer
  /\ phase' = "disabled"
  /\ request' = [t \in Timers |-> IF request[t] = "queued" THEN "aborted" ELSE request[t]]
  /\ UNCHANGED <<tree, attached_timers, is_running, fire_time, now, handler, runs, loc, cur,
                 canceler, faults>>

-----------------------------------------------------------------------------
ThreadStep == \/ \E t \in Timers : Process_request(t)
              \/ Timer_process_handler \/ Place_timer
              \/ \E k \in Ticks : On_wait_and_process(k)

HandlerStep(t) == \/ Timer_handler(t) \/ Check_running(t) \/ Rearm(t) \/ Create_request(t)
                  \/ Submit_request(t) \/ Timer_handler_ends(t)

DisableStep == Join \/ Abort_requests \/ \E k \in Ticks : Cancel_first(k)

Next == \/ Tick \/ ThreadStep \/ On_disable \/ DisableStep
        \/ \E t \in Timers : \/ Create_timer(t) \/ HandlerStep(t)
                             \/ \E again \in BOOLEAN : Handler_returns(t, again)
                             \/ \E c \in Cancelers : Cancel(c, t)
        \/ \E c \in Cancelers : Cancel_timer(c)

Spec == Init /\ [][Next]_vars

\* Time passes, threads are scheduled, and handlers return.
Fairness == /\ WF_vars(Tick) /\ WF_vars(ThreadStep) /\ WF_vars(DisableStep)
            /\ \A t \in Timers : WF_vars(HandlerStep(t) \/ Handler_returns(t, FALSE))
            /\ \A c \in Cancelers : WF_vars(Cancel_timer(c))

FairSpec == Spec /\ Fairness

-----------------------------------------------------------------------------
(* Properties.                                                             *)

\* The tree is sound whatever is canceled while it is being fired, placed or
\* replaced: every timer in it, canceled ones included, is there once and at the tick
\* of its fire_time, where Cancel_timer and On_disable look for it; and only the
\* timers of the tree have others attached, so the assertions of Destroy and
\* Get_attached hold.
TreeSound ==
  /\ \A k \in Ticks : tree[k] # NoTimer =>
       /\ Get_ticks(fire_time[tree[k]]) = k
       /\ tree[k] \notin attached_timers[tree[k]]
       /\ \A t \in attached_timers[tree[k]] : Get_ticks(fire_time[t]) = k
  /\ \A t \in Timers : attached_timers[t] # {} => tree[Get_ticks(fire_time[t])] = t
  /\ faults \cap {"destroy_attached", "replaced_attached"} = {}

\* The timers in the tree.
InTree == {t \in Timers : \E k \in Ticks :
             tree[k] # NoTimer /\ (tree[k] = t \/ t \in attached_timers[tree[k]])}

\* A running timer in the tree, or about to be placed there, has a request that is
\* being processed: Fire() completes it and Complete() throws nothing.
FireCompletes ==
  /\ \A t \in Timers :
       is_running[t] /\ (t \in InTree \/ cur = t) => request[t] = "processing"
  /\ "complete_state" \notin faults

\* The handler of a timer is not called two milliseconds early: the remaining time is
\* truncated, so a timer may be fired less than one before its time, and so may one whose
\* time is less than one before that of a timer attached to it.
NotEarly ==
  [][\A t \in Timers : runs'[t] > runs[t] => fire_time[t] < now + 2 * Millisecond]_vars

\* Timers implement TimerLifecycle: in particular no handler is called after Cancel_timer.
StageOf(t) ==
  CASE request[t] = "none" -> "none"
    [] request[t] # "none" /\ ~is_running[t] -> "stopped"
    [] is_running[t] /\ handler[t] = "idle" -> "armed"
    [] OTHER -> "calling"

Lifecycle == INSTANCE TimerLifecycle
               WITH stage <- [t \in Timers |-> StageOf(t)], calls <- runs

ImplementsTimer == Lifecycle!Spec

\* An armed timer has its handler called unless it is canceled or the processor is
\* disabled; a timer attached to one that is canceled is not forgotten.
ArmedGetsCalled ==
  \A t \in Timers :
     StageOf(t) = "armed" ~> (StageOf(t) # "armed" \/ phase # "enabled")

\* "timer cancellation to avoid memory leaks": the request of a timer that was
\* canceled gets done, and lets go of the timer and of its handler.
CanceledGetsReleased ==
  \A t \in Timers :
     StageOf(t) = "stopped" ~> (request[t] \in {"delivered", "aborted"} \/ phase # "enabled")
=============================================================================
