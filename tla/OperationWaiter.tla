--------------------------- MODULE OperationWaiter ---------------------------
(***************************************************************************)
(* Operation_waiter::Timeout: an operation, the timer of its timeout, and   *)
(* the done handler of the operation that cancels the timer                *)
(* (src/operation_waiter.cpp), with the timers of module Timer.             *)
(*                                                                         *)
(* Of the request of the operation its status and done handler are kept, as *)
(* in module Request.  Timeout() is called once.                            *)
(***************************************************************************)
EXTENDS Timer

CONSTANTS Timeout_timer,  \* the timer that Timeout() creates
          Done_thread     \* the thread that calls the done handler

ASSUME TimeoutAssumption == Timeout_timer \in Timers /\ Done_thread \in Cancelers

VARIABLES status,        \* of the operation
          done_handler,  \* unset, set, being called, or returned
          timed_out,
          waiter,        \* where Timeout() is
          callback       \* where Timeout_cbk is

op_vars == <<status, done_handler, timed_out, waiter, callback>>
all_vars == <<vars, op_vars>>

OpInit == /\ Init
          /\ status = "active"
          /\ done_handler = "unset"
          /\ timed_out = FALSE
          /\ waiter = "none"
          /\ callback = "none"

\* Each variable has its type.
OpTypeOK == /\ TypeOK
            /\ status \in {"active", "canceled", "completed", "delivering", "delivered",
                           "aborted"}
            /\ done_handler \in {"unset", "set", "calling", "called"}
            /\ timed_out \in BOOLEAN
            /\ waiter \in {"none", "created", "end"}
            /\ callback \in {"none", "locked"}

-----------------------------------------------------------------------------
(* The operation.                                                          *)

Is_done == status \in {"delivered", "aborted"}

\* The completion context is let go of when the completion handler starts.
Has_context == status \in {"active", "canceled", "completed"}

Move(from, into) == status \in from /\ status' = into

\* The request is done: its done handler, if any, is moved out and called.
Called == IF done_handler = "set" THEN "calling" ELSE done_handler

Operation_cancel == Move({"active"}, "canceled") /\ UNCHANGED done_handler

Operation_complete == Move({"active", "canceled"}, "completed") /\ UNCHANGED done_handler

Operation_deliver == Move({"completed"}, "delivering") /\ UNCHANGED done_handler

Operation_delivered == Move({"delivering"}, "delivered") /\ done_handler' = Called

Operation_abort ==
  Move({"active", "canceled", "completed"}, "aborted") /\ done_handler' = Called

Operation == \/ Operation_cancel \/ Operation_complete \/ Operation_deliver
             \/ Operation_delivered \/ Operation_abort

\* Timer::Cancel by the done handler.
Request_done_cbk ==
  /\ done_handler = "calling"
  /\ done_handler' = "called"
  /\ canceler' = IF is_running[Timeout_timer]
                 THEN [canceler EXCEPT ![Done_thread] = Timeout_timer] ELSE canceler
  /\ UNCHANGED <<timer_vars, now, handler, runs, loc, cur, phase, faults>>
  /\ UNCHANGED <<status, timed_out, waiter, callback>>

-----------------------------------------------------------------------------
(* Its timeout.                                                            *)

\* Timeout() without a context of its own does nothing when the operation has let go
\* of the completion context.
Timeout_nothing ==
  /\ waiter = "none"
  /\ ~Has_context
  /\ waiter' = "end"
  /\ UNCHANGED <<vars, status, done_handler, timed_out, callback>>

\* Otherwise it creates the timer ...
Timeout == /\ waiter = "none"
           /\ Create_timer(Timeout_timer)
           /\ waiter' = "created"
           /\ UNCHANGED <<status, done_handler, timed_out, callback>>

\* Mutant: Set_done_handler stores the handler of a request that is done.
Set_done_handler_Stored == "set"

\* Set_done_handler calls the handler at once if the request is done.
Set_done_handler == IF Is_done THEN "calling" ELSE "set"

\* ... and sets the done handler.
Timeout_sets_done_handler ==
  /\ waiter = "created"
  /\ done_handler' = Set_done_handler
  /\ waiter' = "end"
  /\ UNCHANGED <<vars, status, timed_out, callback>>

\* Timeout_cbk resets the done handler ...
Timeout_cbk ==
  /\ handler[Timeout_timer] = "running"
  /\ callback = "none"
  /\ done_handler' = IF Is_done THEN done_handler ELSE "unset"
  /\ callback' = "locked"
  /\ UNCHANGED <<vars, status, timed_out, waiter>>

\* ... and, under the lock, cancels the operation unless it is completed or aborted.
Timeout_cbk_ends(cancel_operation) ==
  /\ callback = "locked"
  /\ Handler_returns(Timeout_timer, FALSE)
  /\ timed_out' = TRUE
  /\ status' = IF status = "active" /\ cancel_operation THEN "canceled" ELSE status
  /\ callback' = "none"
  /\ UNCHANGED <<done_handler, waiter>>

-----------------------------------------------------------------------------
\* The steps of module Timer that the timeout does not make itself.
TimerStep ==
  \/ Tick \/ ThreadStep \/ On_disable \/ DisableStep
  \/ \E t \in Timers : HandlerStep(t)
  \/ \E c \in Cancelers : Cancel_timer(c)
  \/ \E t \in Timers \ {Timeout_timer} :
        \/ Create_timer(t)
        \/ \E again \in BOOLEAN : Handler_returns(t, again)
        \/ \E c \in Cancelers \ {Done_thread} : Cancel(c, t)

TimeoutStep == \/ Timeout_nothing \/ Timeout \/ Timeout_sets_done_handler
               \/ Timeout_cbk
               \/ \E cancel_operation \in BOOLEAN : Timeout_cbk_ends(cancel_operation)

OpNext == \/ TimerStep /\ UNCHANGED op_vars
          \/ Operation /\ UNCHANGED <<vars, timed_out, waiter, callback>>
          \/ Request_done_cbk
          \/ TimeoutStep

\* Threads are scheduled, time passes and handlers return; the operation need not end.
OpFairness ==
  /\ WF_all_vars(Tick /\ UNCHANGED op_vars)
  /\ WF_all_vars(ThreadStep /\ UNCHANGED op_vars)
  /\ WF_all_vars(DisableStep /\ UNCHANGED op_vars)
  /\ \A t \in Timers : WF_all_vars(HandlerStep(t) /\ UNCHANGED op_vars)
  /\ \A t \in Timers \ {Timeout_timer} :
        WF_all_vars(Handler_returns(t, FALSE) /\ UNCHANGED op_vars)
  /\ \A c \in Cancelers : WF_all_vars(Cancel_timer(c) /\ UNCHANGED op_vars)
  /\ WF_all_vars(Request_done_cbk)
  /\ WF_all_vars(Timeout_cbk \/ \E b \in BOOLEAN : Timeout_cbk_ends(b))

OpSpec == OpInit /\ [][OpNext]_all_vars

OpFairSpec == OpSpec /\ OpFairness

-----------------------------------------------------------------------------
(* Properties.                                                             *)

\* A timeout is never left behind: when an operation is done, Timeout() has returned
\* and no done handler is being called, the timer is not armed any more, whether the
\* operation ended before, while or after Timeout() and Timeout_cbk changed the
\* done handler.
NoTimeoutLeft ==
  Is_done /\ waiter = "end" /\ done_handler # "calling" /\ canceler[Done_thread] = NoTimer
    => StageOf(Timeout_timer) # "armed"
=============================================================================
