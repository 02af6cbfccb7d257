--------------------------- MODULE TimerLifecycle ---------------------------
(***************************************************************************)
(* What a user of Timer_processor may rely on, without requests, threads   *)
(* or a tree: an armed timer has its handler called, a handler that returns *)
(* true arms the timer again, and once a timer is stopped, by its handler  *)
(* or by Cancel(), the handler is not called any more; one that is running  *)
(* may still have to return.  Module Timer implements this specification.  *)
(***************************************************************************)
EXTENDS Naturals

CONSTANT Timers

VARIABLES stage,  \* of each timer
          calls   \* how often its handler was called

vars == <<stage, calls>>

Init == /\ stage = [t \in Timers |-> "none"]
        /\ calls = [t \in Timers |-> 0]

Move(t, from, into) == /\ stage[t] \in from
                       /\ stage' = [stage EXCEPT ![t] = into]

Create(t) == Move(t, {"none"}, "armed") /\ UNCHANGED calls

Call(t) == /\ Move(t, {"armed"}, "calling")
           /\ calls' = [calls EXCEPT ![t] = @ + 1]

Again(t) == Move(t, {"calling"}, "armed") /\ UNCHANGED calls

Stop(t) == Move(t, {"armed", "calling"}, "stopped") /\ UNCHANGED calls

Next == \E t \in Timers : Create(t) \/ Call(t) \/ Again(t) \/ Stop(t)

Spec == Init /\ [][Next]_vars
=============================================================================
