------------------------------ MODULE MCRequest ------------------------------
(* Instances of Request for TLC.                                             *)
EXTENDS Request

CONSTANTS proc, comp, worker

KindOf == [c \in Containers |->
             CASE c = proc -> "PROCESSOR"
               [] c = comp -> "COMPLETION_CONTEXT"
               [] c = worker -> "ANY"]
=============================================================================
