-------------------------- MODULE RequestLifecycle --------------------------
(***************************************************************************)
(* What a user of ugcs::vsm::Request may rely on, without locks, queues,   *)
(* contexts or threads.  A request is created, processed, finished and its *)
(* completion callback runs once; or it is aborted, at any point before    *)
(* the callback starts, and then the callback never runs.  Module Request  *)
(* implements this specification.                                          *)
(***************************************************************************)
EXTENDS Naturals

CONSTANT Requests

VARIABLES stage,     \* how far each request has come
          callbacks  \* how often its completion callback was started

vars == <<stage, callbacks>>

Stages == {"created", "processing", "finished", "delivering", "delivered", "aborted"}

TypeOK == /\ stage \in [Requests -> Stages]
          /\ callbacks \in [Requests -> {0, 1}]

Init == /\ stage = [r \in Requests |-> "created"]
        /\ callbacks = [r \in Requests |-> 0]

Move(r, from, into) == /\ stage[r] \in from
                       /\ stage' = [stage EXCEPT ![r] = into]

\* The processor accepts the request.
Start(r) == Move(r, {"created"}, "processing") /\ UNCHANGED callbacks

\* The processor completes a request somebody waits for in a context ...
Finish(r) == Move(r, {"processing"}, "finished") /\ UNCHANGED callbacks

\* ... or one that nobody waits for.
FinishUnobserved(r) == Move(r, {"processing"}, "delivered") /\ UNCHANGED callbacks

\* The completion callback starts, and returns.
Deliver(r) == /\ Move(r, {"finished"}, "delivering")
              /\ callbacks' = [callbacks EXCEPT ![r] = @ + 1]

Delivered(r) == Move(r, {"delivering"}, "delivered") /\ UNCHANGED callbacks

\* Aborting is possible until the callback starts.
Abort(r) == /\ Move(r, {"created", "processing", "finished"}, "aborted")
            /\ UNCHANGED callbacks

Next == \E r \in Requests :
           \/ Start(r) \/ Finish(r) \/ FinishUnobserved(r)
           \/ Deliver(r) \/ Delivered(r) \/ Abort(r)

Spec == Init /\ [][Next]_vars
=============================================================================
