------------------------------ MODULE MCTimer -------------------------------
(* Instances of Timer for TLC.                                              *)
EXTENDS Timer

IntervalOf == [t \in Timers |-> Millisecond]
=============================================================================
