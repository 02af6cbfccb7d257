------------------------------- MODULE MCCucs -------------------------------
(* Instances of Cucs for TLC.                                               *)
EXTENDS Cucs
=============================================================================
