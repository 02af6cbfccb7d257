-------------------------- MODULE MCOperationWaiter --------------------------
(* Instances of OperationWaiter, and with it of Timer, for TLC.              *)
EXTENDS OperationWaiter

\* The timer of the timeout waits two ticks; the other one, every tick, meets it there.
IntervalOf == [t \in Timers |-> IF t = Timeout_timer THEN 2 * Millisecond ELSE Millisecond]
=============================================================================
