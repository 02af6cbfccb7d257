------------------------- MODULE MCRequestContainer -------------------------
(* Instances of RequestContainer for TLC.                                   *)
EXTENDS RequestContainer, TLC

CONSTANTS r1, r2, p, w, loop, waiter, user

\* A worker whose thread serves a processor and its own container, which is the
\* completion context of r1; a user waits for r1 in that context.  Only Disable() aborts.
LiveKind == (p :> "PROCESSOR") @@ (w :> "ANY")
LiveFirst == r1 :> p
LiveSecond == r1 :> w
LiveServes == (loop :> <<p, w>>) @@ (waiter :> <<w>>)
NoVictim == [a \in {} |-> r1]

\* A worker that processes both requests and is the completion context of r1, so that what
\* it aborts comes back to it; a user waits for r1, and another one aborts it.
KindOf == w :> "ANY"
FirstOf == (r1 :> w) @@ (r2 :> w)
SecondOf == (r1 :> w) @@ (r2 :> None)
ServesOf == (loop :> <<w>>) @@ (waiter :> <<w>>)
VictimOf == user :> r1

OwnOf == (loop :> w) @@ (waiter :> None)
TargetOf == (loop :> None) @@ (waiter :> r1)
=============================================================================
