------------------------ MODULE OperationWaiterProofs ------------------------
(***************************************************************************)
(* Proofs about module OperationWaiter: the timeout of an operation among  *)
(* any number of other timers and threads that cancel them.                *)
(***************************************************************************)
EXTENDS OperationWaiter, TimerProofs

USE TimeoutAssumption DEF timer_vars, vars, op_vars

\* The timer of the timeout is created by Timeout() and by nobody else, and its handler
\* never asks to be called again.
TimeoutTimerOK ==
  /\ waiter = "none" => ~is_running[Timeout_timer]
  /\ handler[Timeout_timer] \in {"idle", "running", "destroy"}

\* The done handler is set by Timeout() only, called only when the operation is done, and
\* never left set then.
DoneHandlerOK ==
  /\ waiter # "end" => done_handler = "unset"
  /\ done_handler \in {"calling", "called"} => Is_done
  /\ Is_done => done_handler # "set"

\* The thread of the done handler cancels the timer of the timeout, after the handler was
\* called, or the timer has stopped by then.
CancellationOK ==
  /\ done_handler # "called" => canceler[Done_thread] = NoTimer
  /\ done_handler = "called" =>
       canceler[Done_thread] = Timeout_timer \/ ~is_running[Timeout_timer]

\* When the done handler has been reset the timer has stopped or its handler is about to
\* stop it: Timeout_cbk, which resets it, is that handler.
ResetOK ==
  waiter = "end" /\ done_handler = "unset" =>
    ~is_running[Timeout_timer] \/ handler[Timeout_timer] \in {"running", "destroy"}

\* The inductive invariant, beside that of Timer.
OpInv == OpTypeOK /\ TimeoutTimerOK /\ DoneHandlerOK /\ CancellationOK /\ ResetOK

\* Operation and timeout are as in the beginning.
LEMMA OpInitLemma == OpInit => IndInv /\ OpInv
<1> SUFFICES ASSUME OpInit PROVE IndInv /\ OpInv
  OBVIOUS
<1>1. IndInv
  BY InitLemma DEF OpInit
<1>2. OpTypeOK
  BY <1>1 DEF OpInit, OpTypeOK, IndInv
<1>3. TimeoutTimerOK /\ DoneHandlerOK /\ CancellationOK /\ ResetOK
  BY DEF OpInit, Init, TimeoutTimerOK, DoneHandlerOK, CancellationOK, ResetOK, Is_done
<1> QED BY <1>1, <1>2, <1>3 DEF OpInv

-----------------------------------------------------------------------------
(* Every step is a step of Timer, or leaves the timers alone.              *)

\* The done handler's Cancel() is an ordinary one: its thread is not busy.
LEMMA DoneCancels ==
  ASSUME IndInv, OpInv, Request_done_cbk
  PROVE  [Next]_vars
<1>1. canceler[Done_thread] = NoTimer
  BY DEF OpInv, CancellationOK, Request_done_cbk
<1>2. CASE is_running[Timeout_timer]
  <2>1. Cancel(Done_thread, Timeout_timer)
    BY <1>1, <1>2 DEF Request_done_cbk, Cancel
  <2> QED BY <2>1 DEF Next
<1>3. CASE ~is_running[Timeout_timer]
  BY <1>3 DEF Request_done_cbk, vars
<1> QED BY <1>2, <1>3

\* An operation, its timeout and the other timers only do what Timer allows.
LEMMA TimerStepLemma ==
  ASSUME IndInv, OpInv, [OpNext]_all_vars
  PROVE  [Next]_vars
<1>1. CASE TimerStep
  BY <1>1 DEF TimerStep, Next
<1>2. CASE Operation /\ UNCHANGED <<vars, timed_out, waiter, callback>>
  BY <1>2
<1>3. CASE TimeoutStep
  BY <1>3 DEF TimeoutStep, Timeout_nothing, Timeout, Timeout_sets_done_handler, Timeout_cbk,
              Timeout_cbk_ends, Next
<1>4. CASE UNCHANGED all_vars
  BY <1>4 DEF all_vars
<1> QED BY <1>1, <1>2, <1>3, <1>4, DoneCancels DEF OpNext

-----------------------------------------------------------------------------
(* The steps of Timer that the timeout does not make itself.               *)

\* What such a step may do to the timer of the timeout and to the thread of the done
\* handler: the timer may be stopped, by Cancel_timer or by Timer_handler, but not armed.
TimeoutKept ==
  /\ is_running'[Timeout_timer] => is_running[Timeout_timer]
  /\ handler'[Timeout_timer] \in {"idle", "running", "destroy"}
  /\ handler'[Timeout_timer] = handler[Timeout_timer] \/ handler[Timeout_timer] = "idle"
       \/ ~is_running'[Timeout_timer]
  /\ \/ canceler'[Done_thread] = canceler[Done_thread]
     \/ canceler'[Done_thread] = NoTimer /\ ~is_running'[canceler[Done_thread]]

\* Canceling a timer stops that timer and arms none.
LEMMA DestroyStops ==
  ASSUME IndInv, NEW t \in Timers, Destroy(t)
  PROVE  /\ ~is_running'[t]
         /\ \A x \in Timers : is_running'[x] => is_running[x]
BY DEF Destroy, IndInv, TypeOK

\* The steps of the processor's thread, of users and of handlers.
LEMMA TimerStepKeeps ==
  ASSUME IndInv, OpInv, TimerStep
  PROVE  TimeoutKept
<1> USE DEF IndInv, TypeOK, OpInv, TimeoutTimerOK, TimeoutKept
<1>1. CASE Tick \/ On_disable \/ Join \/ Abort_requests
  BY <1>1 DEF Tick, On_disable, Join, Abort_requests
<1>2. CASE ThreadStep
  BY <1>2 DEF ThreadStep, Process_request, Timer_process_handler, Place_timer,
              On_wait_and_process
<1>3. CASE \E k \in Ticks : Cancel_first(k)
  <2>1. PICK k \in Ticks : Cancel_first(k)
    BY <1>3
  <2>2. tree[k] \in Timers /\ Destroy(tree[k]) /\ UNCHANGED <<handler, canceler>>
    BY <2>1 DEF Cancel_first, First, CancelSection
  <2> QED BY <2>2, DestroyStops
<1>4. CASE \E c \in Cancelers : Cancel_timer(c)
  <2>1. PICK c \in Cancelers : Cancel_timer(c)
    BY <1>4
  <2>2. /\ canceler[c] \in Timers /\ Destroy(canceler[c]) /\ UNCHANGED handler
        /\ canceler' = [canceler EXCEPT ![c] = NoTimer]
    BY <2>1 DEF Cancel_timer, CancelSection
  <2> QED BY <2>2, DestroyStops
<1>5. ASSUME NEW t \in Timers, HandlerStep(t) PROVE TimeoutKept
  <2>1. UNCHANGED canceler
    BY <1>5 DEF HandlerStep, Timer_handler, Check_running, Rearm, Create_request,
                Submit_request, Timer_handler_ends
  <2>2. CASE t # Timeout_timer
    BY <1>5, <2>1, <2>2 DEF HandlerStep, Timer_handler, Check_running, Rearm, Create_request,
                Submit_request, Timer_handler_ends
  <2>3. CASE t = Timeout_timer
    BY <1>5, <2>1, <2>3 DEF HandlerStep, Timer_handler, Check_running, Rearm, Create_request,
                Submit_request, Timer_handler_ends
  <2> QED BY <2>2, <2>3
<1>6. ASSUME NEW t \in Timers \ {Timeout_timer},
             \/ Create_timer(t)
             \/ \E again \in BOOLEAN : Handler_returns(t, again)
             \/ \E c \in Cancelers \ {Done_thread} : Cancel(c, t)
      PROVE  TimeoutKept
  BY <1>6 DEF Create_timer, Handler_returns, Cancel
<1> QED BY <1>1, <1>2, <1>3, <1>4, <1>5, <1>6 DEF TimerStep, DisableStep

\* They preserve the invariant of the timeout.
LEMMA TimerStepInv ==
  ASSUME IndInv, IndInv', OpInv, TimerStep, UNCHANGED op_vars
  PROVE  OpInv'
<1>1. TimeoutKept
  BY TimerStepKeeps
<1>2. UNCHANGED <<status, done_handler, timed_out, waiter, callback>>
  BY DEF op_vars
<1>3. OpTypeOK'
  BY <1>2 DEF OpInv, OpTypeOK, IndInv
<1>4. TimeoutTimerOK' /\ DoneHandlerOK'
  BY <1>1, <1>2 DEF OpInv, TimeoutTimerOK, DoneHandlerOK, TimeoutKept, Is_done
<1>5. CancellationOK'
  BY <1>1, <1>2, NoTimerAssumption DEF OpInv, CancellationOK, TimeoutKept
<1>6. ResetOK'
  BY <1>1, <1>2 DEF OpInv, ResetOK, TimeoutKept
<1> QED BY <1>3, <1>4, <1>5, <1>6 DEF OpInv

-----------------------------------------------------------------------------
(* The steps of the operation and of its timeout.                          *)

\* An operation that gets done has its done handler called.
LEMMA OperationInv ==
  ASSUME IndInv, IndInv', OpInv, Operation, UNCHANGED <<vars, timed_out, waiter, callback>>
  PROVE  OpInv'
<1>1. UNCHANGED <<is_running, handler, canceler>>
  BY DEF vars
<1> USE DEF Operation, Operation_cancel, Operation_complete, Operation_deliver,
            Operation_delivered, Operation_abort, Move, Called
<1>2. OpTypeOK'
  BY DEF OpInv, OpTypeOK, IndInv
<1>3. TimeoutTimerOK' /\ ResetOK'
  BY <1>1 DEF OpInv, TimeoutTimerOK, ResetOK
<1>4. DoneHandlerOK' /\ CancellationOK'
  BY <1>1 DEF OpInv, OpTypeOK, DoneHandlerOK, CancellationOK, Is_done
<1> QED BY <1>2, <1>3, <1>4 DEF OpInv

\* The done handler asks for the timer to be canceled, unless it has stopped.
LEMMA DoneInv ==
  ASSUME IndInv, IndInv', OpInv, Request_done_cbk
  PROVE  OpInv'
<1>1. OpTypeOK'
  BY DEF OpInv, OpTypeOK, IndInv, Request_done_cbk
<1>2. TimeoutTimerOK' /\ DoneHandlerOK' /\ ResetOK'
  BY DEF OpInv, TimeoutTimerOK, DoneHandlerOK, ResetOK, Request_done_cbk, Is_done
<1>3. CancellationOK'
  BY DEF OpInv, CancellationOK, Request_done_cbk, IndInv, TypeOK
<1> QED BY <1>1, <1>2, <1>3 DEF OpInv

\* Timeout() and Timeout_cbk.
LEMMA TimeoutInv ==
  ASSUME IndInv, IndInv', OpInv, TimeoutStep
  PROVE  OpInv'
<1>1. CASE Timeout_nothing
  BY <1>1 DEF Timeout_nothing, OpInv, OpTypeOK, IndInv, TimeoutTimerOK, DoneHandlerOK,
              CancellationOK, ResetOK, Is_done, vars
<1>2. CASE Timeout
  BY <1>2 DEF Timeout, Create_timer, OpInv, OpTypeOK, IndInv, TimeoutTimerOK, DoneHandlerOK,
              CancellationOK, ResetOK, Is_done
<1>3. CASE Timeout_sets_done_handler
  BY <1>3 DEF Timeout_sets_done_handler, Set_done_handler, OpInv, OpTypeOK, IndInv,
              TimeoutTimerOK, DoneHandlerOK, CancellationOK, ResetOK, Is_done, vars
<1>4. CASE Timeout_cbk
  BY <1>4 DEF Timeout_cbk, OpInv, OpTypeOK, IndInv, TimeoutTimerOK, DoneHandlerOK,
              CancellationOK, ResetOK, Is_done, vars
<1>5. ASSUME NEW b \in BOOLEAN, Timeout_cbk_ends(b) PROVE OpInv'
  <2>1. /\ handler[Timeout_timer] = "running" /\ handler'[Timeout_timer] = "destroy"
        /\ UNCHANGED <<is_running, canceler, done_handler, waiter>>
        /\ Is_done' <=> Is_done
    BY <1>5 DEF Timeout_cbk_ends, Handler_returns, IndInv, TypeOK, Is_done
  <2>2. OpTypeOK'
    BY <1>5 DEF Timeout_cbk_ends, OpInv, OpTypeOK, IndInv
  <2>3. TimeoutTimerOK' /\ DoneHandlerOK' /\ CancellationOK' /\ ResetOK'
    BY <2>1 DEF OpInv, TimeoutTimerOK, DoneHandlerOK, CancellationOK, ResetOK
  <2> QED BY <2>2, <2>3 DEF OpInv
<1> QED BY <1>1, <1>2, <1>3, <1>4, <1>5 DEF TimeoutStep

\* Every step preserves the invariants of the timers and of the timeout.
LEMMA OpNextLemma == IndInv /\ OpInv /\ [OpNext]_all_vars => IndInv' /\ OpInv'
<1> SUFFICES ASSUME IndInv, OpInv, [OpNext]_all_vars PROVE IndInv' /\ OpInv'
  OBVIOUS
<1>1. IndInv'
  BY TimerStepLemma, NextLemma
<1>2. CASE UNCHANGED all_vars
  BY <1>1, <1>2 DEF all_vars, op_vars, vars, OpInv, OpTypeOK, IndInv, TimeoutTimerOK,
                    DoneHandlerOK, CancellationOK, ResetOK, Is_done
<1> QED BY <1>1, <1>2, TimerStepInv, OperationInv, DoneInv, TimeoutInv DEF OpNext

\* The invariants hold in every state of an operation with a timeout.
THEOREM OpInvariance == OpSpec => [](IndInv /\ OpInv)
BY OpInitLemma, OpNextLemma, PTL DEF OpSpec

-----------------------------------------------------------------------------
(* Theorems.                                                               *)

\* Every variable of an operation with a timeout has its type, those of the timers included.
THEOREM OpTypeCorrect == OpSpec => []OpTypeOK
<1>1. OpInv => OpTypeOK
  BY DEF OpInv
<1> QED BY <1>1, OpInvariance, PTL

\* However the end of the operation, Timeout(), the timer and Timeout_cbk interleave, a
\* timer is never left armed behind an operation that is done.
THEOREM TimeoutNotLeft == OpSpec => []NoTimeoutLeft
<1>1. IndInv /\ OpInv => NoTimeoutLeft
  <2> SUFFICES ASSUME IndInv, OpInv, Is_done, waiter = "end", done_handler # "calling",
                      canceler[Done_thread] = NoTimer, StageOf(Timeout_timer) = "armed"
               PROVE  FALSE
    BY DEF NoTimeoutLeft
  <2>1. is_running[Timeout_timer] /\ handler[Timeout_timer] = "idle"
    BY DEF StageOf, IndInv, TypeOK
  <2>2. CASE done_handler = "unset"
    BY <2>1, <2>2 DEF OpInv, ResetOK
  <2>3. CASE done_handler = "called"
    BY <2>1, <2>3, NoTimerAssumption DEF OpInv, CancellationOK
  <2>4. done_handler # "set"
    BY DEF OpInv, DoneHandlerOK
  <2> QED BY <2>2, <2>3, <2>4 DEF OpInv, OpTypeOK
<1> QED BY <1>1, OpInvariance, PTL

\* Timeout() is an ordinary user of Timer_processor: it creates, cancels and returns from
\* the handler of its timer as every user may, so all that is proved of Timer holds here.
THEOREM TimeoutUsesTimers == OpSpec => Spec
<1>1. OpInit => Init
  BY DEF OpInit
<1>2. IndInv /\ OpInv /\ [OpNext]_all_vars => [Next]_vars
  BY TimerStepLemma
<1> QED BY <1>1, <1>2, OpInvariance, PTL DEF OpSpec, Spec
=============================================================================
