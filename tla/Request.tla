------------------------------ MODULE Request -------------------------------
(***************************************************************************)
(* Requests and the containers they travel through: src/request.cpp,       *)
(* src/request_container.cpp, src/request_worker.cpp.                       *)
(*                                                                         *)
(* A request is submitted to a container for processing, the processor     *)
(* calls Complete(), and the request is submitted a second time, to its    *)
(* completion context, where the completion handler runs.  Anyone may call *)
(* Cancel() or Abort() at any time, and any container may be disabled.     *)
(*                                                                         *)
(* One action is one critical section of Request::mutex or of the waiter's *)
(* mutex: what a thread does between an unlock and the next lock is a step *)
(* of its own.  Threads are not named: a thread in the middle of an        *)
(* operation is the location of the queue entry it holds, so any number of *)
(* workers, Wait_done() callers and aborting users is covered.  The order  *)
(* of the entries of one queue is left open here; module RequestContainer  *)
(* keeps it.                                                               *)
(***************************************************************************)
EXTENDS Naturals, FiniteSets

CONSTANTS Requests,
          Containers,
          Kind,        \* the type of each container
          NoContext    \* the null Request_container::Ptr

ASSUME KindAssumption ==
         Kind \in [Containers -> {"PROCESSOR", "COMPLETION_CONTEXT", "ANY"}]
ASSUME NoContextAssumption == NoContext \notin Containers

VARIABLES req,     \* the members of each Request
          entry,   \* where each of its queue entries is
          dest,    \* the container of each entry
          phase,   \* of each container: enabled, being disabled, ...
          owned,   \* requests whose processor has yet to call Complete()
          runs,    \* how often each handler of a request was started
          faults   \* exceptions thrown and assertions failed so far

vars == <<req, entry, dest, phase, owned, runs, faults>>

-----------------------------------------------------------------------------
Results == {"OK", "CANCELED"}

Status == {"PENDING", "CANCELLATION_PENDING", "CANCELING", "PROCESSING",
           "ABORT_PENDING", "ABORTED"} \cup Results

Contexts == Containers \cup {NoContext}

\* A request is queued by its user, by Complete() and by Abort().
Origins == {"user", "complete", "abort"}

\* none, about to be submitted, queued, popped by Process_requests() (and the
\* argument of Process() known), its completion handler running, moved out of
\* the queue by Abort_requests(), that thread's Abort() yet to submit, its
\* Process(false) yet to come, dropped, or refused by a disabled container.
Locations == {"none", "submitting", "queued", "popped", "process", "notify",
              "delivering", "taken", "resubmitting", "drain", "gone", "refused"}

\* A thread is about to call Process(false) for the entry.
Notifying == {"notify", "drain"}

Phases == {"off", "enabled", "stopping", "aborting", "disabled"}

Faults == {"process_state", "no_handler", "notify_state", "complete_state",
           "submit_disabled", "submit_state", "abort_assert", "abort_generated",
           "disable_not_empty", "handler_assert"}

RequestType == [status : Status, processing_handler : BOOLEAN,
                completion_handler : BOOLEAN, cancellation_handler : BOOLEAN,
                done_handler : {"unset", "set", "called"},
                completion_context : Contexts,
                completion_processed : BOOLEAN, completion_delivered : BOOLEAN]

\* No handler of a request is ever started twice.
HandlerRuns == [processing : {0, 1}, completion : {0, 1}, cancellation : {0, 1}]

\* Each variable has its type; of the handlers of a request, the processing, the
\* completion and the cancellation handler, each runs at most once.
TypeOK == /\ req \in [Requests -> RequestType]
          /\ entry \in [Requests -> [Origins -> Locations]]
          /\ dest \in [Requests -> [Origins -> Contexts]]
          /\ phase \in [Containers -> Phases]
          /\ owned \subseteq Requests
          /\ runs \in [Requests -> HandlerRuns]
          /\ faults \subseteq Faults

Init == /\ req = [r \in Requests |->
                    [status |-> "PENDING", processing_handler |-> FALSE,
                     completion_handler |-> FALSE, cancellation_handler |-> FALSE,
                     done_handler |-> "unset", completion_context |-> NoContext,
                     completion_processed |-> FALSE, completion_delivered |-> FALSE]]
        /\ entry = [r \in Requests |-> [o \in Origins |-> "none"]]
        /\ dest = [r \in Requests |-> [o \in Origins |-> NoContext]]
        /\ phase = [c \in Containers |-> "off"]
        /\ owned = {}
        /\ runs = [r \in Requests |->
                     [processing |-> 0, completion |-> 0, cancellation |-> 0]]
        /\ faults = {}

-----------------------------------------------------------------------------
(* The inquiries of a request.                                             *)

Is_completed(r) == req[r].status \in Results

Is_aborted(r) == req[r].status \in {"ABORTED", "ABORT_PENDING"}

\* Mutant: ABORT_PENDING is forgotten.
Is_request_processing_needed_Completed(r) == ~Is_completed(r)

Is_request_processing_needed(r) ==
  ~Is_completed(r) /\ req[r].status # "ABORT_PENDING"

Is_completion_delivering_started(r) ==
  req[r].completion_processed /\ ~req[r].completion_handler

Is_done(r) == req[r].completion_delivered \/ Is_aborted(r)

Fault(f) == faults' = faults \cup {f}

At(r, o, loc) == entry' = [entry EXCEPT ![r][o] = loc]

\* std::move(done_handler) under the lock; the handler is called after it.
Moved(h) == IF h = "set" THEN "called" ELSE h

-----------------------------------------------------------------------------
(* Preparing a request.  The setters throw unless the status is PENDING,   *)
(* and every caller in the SDK uses them before it submits the request.    *)

Preparing(r) == req[r].status = "PENDING" /\ entry[r]["user"] = "none"

Set_processing_handler(r) ==
  /\ Preparing(r)
  /\ req' = [req EXCEPT ![r].processing_handler = TRUE]
  /\ UNCHANGED <<entry, dest, phase, owned, runs, faults>>

Set_completion_handler(r, c) ==
  /\ Preparing(r)
  /\ Kind[c] # "PROCESSOR"
  /\ req' = [req EXCEPT ![r].completion_handler = TRUE, ![r].completion_context = c]
  /\ UNCHANGED <<entry, dest, phase, owned, runs, faults>>

Set_cancellation_handler(r) ==
  /\ Preparing(r)
  /\ req' = [req EXCEPT ![r].cancellation_handler = TRUE]
  /\ UNCHANGED <<entry, dest, phase, owned, runs, faults>>

\* h = "unset" is the null handler Operation_waiter::Timeout_cbk passes.  A done
\* request calls the handler at once.
Set_done_handler(r, h) ==
  /\ req[r].done_handler # "called"
  /\ req' = [req EXCEPT ![r].done_handler =
               IF ~Is_done(r) THEN h ELSE IF h = "set" THEN "called" ELSE @]
  /\ UNCHANGED <<entry, dest, phase, owned, runs, faults>>

-----------------------------------------------------------------------------
(* Submission.                                                             *)

\* What Submit_request_impl throws, if anything: a container that is not enabled
\* takes only requests in ABORT_PENDING, and only while it aborts its queue.
Refusal(r, c) ==
  CASE phase[c] = "enabled" -> {}
    [] phase[c] = "aborting" /\ req[r].status = "ABORT_PENDING" -> {}
    [] phase[c] = "aborting" /\ req[r].status # "ABORT_PENDING" -> {"submit_state"}
    [] OTHER -> {"submit_disabled"}

\* The user submits the request for processing.
Submit_request(r, c) ==
  /\ entry[r]["user"] = "none"
  /\ Kind[c] # "COMPLETION_CONTEXT"
  /\ req[r].processing_handler \/ Is_aborted(r)
  /\ dest' = [dest EXCEPT ![r]["user"] = c]
  /\ At(r, "user", IF Refusal(r, c) = {} THEN "queued" ELSE "none")
  /\ faults' = faults \cup Refusal(r, c)
  /\ UNCHANGED <<req, phase, owned, runs>>

\* The tail of Complete() and of Abort(), after the request was unlocked.  Abort()
\* asserts that the request is still ABORT_PENDING; a release build goes on.
Submit_to_completion(r, o) ==
  /\ o # "user"
  /\ entry[r][o] = "submitting"
  /\ LET refusal == Refusal(r, dest[r][o])
         assertion == IF o = "abort" /\ req[r].status # "ABORT_PENDING"
                      THEN {"abort_assert"} ELSE {}
     IN /\ At(r, o, IF refusal = {} THEN "queued" ELSE "refused")
        /\ faults' = faults \cup refusal \cup assertion
  /\ UNCHANGED <<req, dest, phase, owned, runs>>

-----------------------------------------------------------------------------
(* Processing.                                                             *)

\* Process_requests takes an entry off the queue.
Pop_request(r, o) ==
  /\ entry[r][o] = "queued"
  /\ At(r, o, "popped")
  /\ UNCHANGED <<req, dest, phase, owned, runs, faults>>

\* Process_request of a processor, a completion context and a worker choose the
\* argument of Process(); the worker's choice reads the status without the lock.
Process_request(r, o) ==
  /\ entry[r][o] = "popped"
  /\ LET kind == Kind[dest[r][o]]
         needed == kind = "PROCESSOR"
                   \/ (kind = "ANY" /\ Is_request_processing_needed(r))
     IN At(r, o, IF needed THEN "process" ELSE "notify")
  /\ UNCHANGED <<req, dest, phase, owned, runs, faults>>

\* Process() of an aborted request, for either argument.
ProcessAborted(r, o) ==
  /\ entry[r][o] \in {"process"} \cup Notifying
  /\ Is_aborted(r)
  /\ At(r, o, "gone")
  /\ IF req[r].status = "ABORT_PENDING" /\ entry[r][o] \in Notifying
     THEN /\ req' = [req EXCEPT ![r].status = "ABORTED", ![r].completion_handler = FALSE]
          /\ IF req[r].completion_handler /\ req[r].completion_context = NoContext
             THEN UNCHANGED faults ELSE Fault("handler_assert")
     ELSE /\ UNCHANGED req
          /\ IF req[r].status = "ABORTED" /\ req[r].completion_handler
             THEN Fault("handler_assert") ELSE UNCHANGED faults
  /\ UNCHANGED <<dest, phase, owned, runs>>

\* Process(true): the processing handler runs and the processor owns the request.
ProcessWork(r, o) ==
  /\ entry[r][o] = "process"
  /\ ~Is_aborted(r)
  /\ At(r, o, "gone")
  /\ IF req[r].status \notin {"PENDING", "CANCELLATION_PENDING"}
     THEN Fault("process_state") /\ UNCHANGED <<req, owned, runs>>
     ELSE IF ~req[r].processing_handler
     THEN Fault("no_handler") /\ UNCHANGED <<req, owned, runs>>
     ELSE /\ req' = [req EXCEPT ![r].processing_handler = FALSE,
                       ![r].status = IF @ = "PENDING" THEN "PROCESSING" ELSE "CANCELING"]
          /\ owned' = owned \cup {r}
          /\ runs' = [runs EXCEPT ![r].processing = @ + 1]
          /\ UNCHANGED faults
  /\ UNCHANGED <<dest, phase>>

\* Process(false): the completion handler is moved out and called without the lock.
ProcessNotification(r, o) ==
  /\ entry[r][o] \in Notifying
  /\ ~Is_aborted(r)
  /\ IF ~Is_completed(r)
     THEN Fault("notify_state") /\ At(r, o, "gone") /\ UNCHANGED <<req, runs>>
     ELSE IF req[r].completion_handler
     THEN /\ At(r, o, "delivering")
          /\ req' = [req EXCEPT ![r].completion_handler = FALSE,
                                ![r].completion_context = NoContext]
          /\ runs' = [runs EXCEPT ![r].completion = @ + 1]
          /\ UNCHANGED faults
     ELSE /\ At(r, o, "gone")
          /\ req' = [req EXCEPT ![r].done_handler = Moved(@)]
          /\ UNCHANGED <<runs, faults>>
  /\ UNCHANGED <<dest, phase, owned>>

\* Mutant: the done handler stays behind.
CompletionReturns_KeepsDone(r, o) ==
  /\ entry[r][o] = "delivering"
  /\ At(r, o, "gone")
  /\ req' = [req EXCEPT ![r].completion_delivered = TRUE]
  /\ UNCHANGED <<dest, phase, owned, runs, faults>>

\* The completion handler returns and Process(false) locks the request again.
CompletionReturns(r, o) ==
  /\ entry[r][o] = "delivering"
  /\ At(r, o, "gone")
  /\ req' = [req EXCEPT ![r].completion_delivered = TRUE, ![r].done_handler = Moved(@)]
  /\ UNCHANGED <<dest, phase, owned, runs, faults>>

-----------------------------------------------------------------------------
(* Completing, canceling, aborting.                                        *)

\* What Complete() does to a request it may complete.
CompleteSection(r, s) ==
  IF req[r].completion_context # NoContext
  THEN /\ req' = [req EXCEPT ![r].status = s, ![r].cancellation_handler = FALSE,
                             ![r].completion_processed = TRUE]
       /\ At(r, "complete", "submitting")
       /\ dest' = [dest EXCEPT ![r]["complete"] = req[r].completion_context]
  ELSE /\ req' = [req EXCEPT ![r].status = s, ![r].cancellation_handler = FALSE,
                             ![r].completion_processed = TRUE,
                             ![r].completion_delivered = TRUE,
                             ![r].done_handler = Moved(@)]
       /\ UNCHANGED <<entry, dest>>

\* Mutant: an aborted request is not ignored.
Complete_Aborted(r, s) ==
  /\ r \in owned
  /\ owned' = owned \ {r}
  /\ IF req[r].status \notin {"PROCESSING", "CANCELING"}
     THEN Fault("complete_state") /\ UNCHANGED <<req, entry, dest>>
     ELSE CompleteSection(r, s) /\ UNCHANGED faults
  /\ UNCHANGED <<phase, runs>>

\* Mutant: the status is not looked at.
Complete_Unchecked(r, s) ==
  /\ r \in owned
  /\ owned' = owned \ {r}
  /\ CompleteSection(r, s)
  /\ UNCHANGED <<phase, runs, faults>>

\* Mutant: the request is not submitted to its completion context.
Complete_NoSubmit(r, s) ==
  /\ r \in owned
  /\ owned' = owned \ {r}
  /\ IF Is_aborted(r)
     THEN UNCHANGED req
     ELSE req' = [req EXCEPT ![r].status = s, ![r].completion_processed = TRUE]
  /\ UNCHANGED <<entry, dest, phase, runs, faults>>

\* The processor, or its cancellation handler, calls Complete(s): once.
Complete(r, s) ==
  /\ r \in owned
  /\ owned' = owned \ {r}
  /\ IF Is_aborted(r)
     THEN UNCHANGED <<req, entry, dest, faults>>
     ELSE IF req[r].status \notin {"PROCESSING", "CANCELING"} \/ req[r].completion_processed
     THEN Fault("complete_state") /\ UNCHANGED <<req, entry, dest>>
     ELSE CompleteSection(r, s) /\ UNCHANGED faults
  /\ UNCHANGED <<phase, runs>>

\* Mutant: the cancellation handler is called, but not moved out.
Cancel_HandlerKept(r) ==
  /\ \/ /\ req[r].status = "PENDING"
        /\ req' = [req EXCEPT ![r].status = "CANCELLATION_PENDING"]
        /\ UNCHANGED runs
     \/ /\ req[r].status = "PROCESSING" /\ req[r].cancellation_handler
        /\ runs' = [runs EXCEPT ![r].cancellation = @ + 1]
        /\ UNCHANGED req
  /\ UNCHANGED <<entry, dest, phase, owned, faults>>

Cancel(r) ==
  /\ \/ /\ req[r].status = "PENDING"
        /\ req' = [req EXCEPT ![r].status = "CANCELLATION_PENDING"]
        /\ UNCHANGED runs
     \/ /\ req[r].status = "PROCESSING" /\ req[r].cancellation_handler
        /\ req' = [req EXCEPT ![r].cancellation_handler = FALSE]
        /\ runs' = [runs EXCEPT ![r].cancellation = @ + 1]
  /\ UNCHANGED <<entry, dest, phase, owned, faults>>

\* Mutant: a running completion handler does not stop Abort().
Abortable_Delivering(r) == ~Is_done(r)

\* Abort() returns at once when the completion handler has started or the request
\* is done.
Abortable(r) == ~Is_completion_delivering_started(r) /\ ~Is_done(r)

\* Mutants: Abort() submits whatever Complete() did; Abort() never submits.
AbortSubmits_Always(r) == req[r].completion_handler
AbortSubmits_Never(r) == FALSE

\* Abort() must submit the request itself if Complete() has not.
AbortSubmits(r) == req[r].completion_handler /\ ~req[r].completion_processed

\* The critical section of Abort() on an abortable request.  The cancellation
\* handler is looked at after the status was overwritten.
AbortSection(r) ==
  LET status == IF req[r].completion_handler THEN "ABORT_PENDING" ELSE "ABORTED"
  IN /\ req' = [req EXCEPT ![r].status = status,
                           ![r].processing_handler = FALSE,
                           ![r].completion_context = NoContext,
                           ![r].cancellation_handler = FALSE,
                           ![r].done_handler = Moved(@)]
     /\ runs' = IF req[r].cancellation_handler /\ status = "PROCESSING"
                THEN [runs EXCEPT ![r].cancellation = @ + 1] ELSE runs
     /\ dest' = IF AbortSubmits(r)
                THEN [dest EXCEPT ![r]["abort"] = req[r].completion_context] ELSE dest

\* A user aborts the request.
Abort(r) ==
  /\ Abortable(r)
  /\ AbortSection(r)
  /\ IF AbortSubmits(r) THEN At(r, "abort", "submitting") ELSE UNCHANGED entry
  /\ UNCHANGED <<phase, owned, faults>>

-----------------------------------------------------------------------------
(* Enabling and disabling containers.                                      *)

Enable(c) ==
  /\ phase[c] = "off"
  /\ phase' = [phase EXCEPT ![c] = "enabled"]
  /\ UNCHANGED <<req, entry, dest, owned, runs, faults>>

\* On_disable: Set_disabled under the waiter's lock.
Disable(c) ==
  /\ phase[c] = "enabled"
  /\ phase' = [phase EXCEPT ![c] = "stopping"]
  /\ UNCHANGED <<req, entry, dest, owned, runs, faults>>

EntriesAt(c, locs) ==
  {e \in Requests \X Origins : dest[e[1]][e[2]] = c /\ entry[e[1]][e[2]] \in locs}

\* The whole queue is moved out of the container.
TakeQueue(c) ==
  entry' = [r \in Requests |-> [o \in Origins |->
              IF dest[r][o] = c /\ entry[r][o] = "queued" THEN "taken" ELSE entry[r][o]]]

\* Abort_requests starts.  A worker has joined its thread before, but what has been popped
\* may be in the hands of a Wait_done() caller, who is not waited for.
Abort_requests(c) ==
  /\ phase[c] = "stopping"
  /\ IF EntriesAt(c, {"queued"}) = {}
     THEN phase' = [phase EXCEPT ![c] = "disabled"] /\ UNCHANGED entry
     ELSE phase' = [phase EXCEPT ![c] = "aborting"] /\ TakeQueue(c)
  /\ UNCHANGED <<req, dest, owned, runs, faults>>

\* req->Abort() of an entry moved out of the queue; Process(false) follows, after
\* the submission if this Abort() makes one.
AbortTaken(r, o) ==
  /\ entry[r][o] = "taken"
  /\ IF ~Abortable(r)
     THEN At(r, o, "drain") /\ UNCHANGED <<req, dest, runs>>
     ELSE /\ AbortSection(r)
          /\ entry' = IF AbortSubmits(r)
                      THEN [entry EXCEPT ![r][o] = "resubmitting", ![r]["abort"] = "submitting"]
                      ELSE [entry EXCEPT ![r][o] = "drain"]
  /\ UNCHANGED <<phase, owned, faults>>

AbortResumes(r, o) ==
  /\ entry[r][o] = "resubmitting"
  /\ entry[r]["abort"] # "submitting"
  /\ At(r, o, "drain")
  /\ UNCHANGED <<req, dest, phase, owned, runs, faults>>

\* The end of a round of Abort_requests: another one if the queue has filled up
\* with requests that are not fully aborted, else Disable() ends and throws if
\* the queue is not empty.
AbortRoundEnds(c) ==
  /\ phase[c] = "aborting"
  /\ EntriesAt(c, {"taken", "resubmitting", "drain"}) = {}
  /\ LET queued == EntriesAt(c, {"queued"})
     IN IF \E e \in queued : req[e[1]].status # "ABORTED"
        THEN TakeQueue(c) /\ Fault("abort_generated") /\ UNCHANGED phase
        ELSE /\ phase' = [phase EXCEPT ![c] = "disabled"]
             /\ IF queued = {} THEN UNCHANGED faults ELSE Fault("disable_not_empty")
             /\ UNCHANGED entry
  /\ UNCHANGED <<req, dest, owned, runs>>

-----------------------------------------------------------------------------
\* Steps the SDK's own threads take; the fairness assumption is about them.
EntryStep(r, o) ==
  \/ Submit_to_completion(r, o) \/ Pop_request(r, o) \/ Process_request(r, o)
  \/ ProcessAborted(r, o) \/ ProcessWork(r, o) \/ ProcessNotification(r, o)
  \/ CompletionReturns(r, o) \/ AbortTaken(r, o) \/ AbortResumes(r, o)

\* Calls of the users of the SDK.
UserStep(r) ==
  \/ Set_processing_handler(r) \/ Set_cancellation_handler(r)
  \/ \E h \in {"set", "unset"} : Set_done_handler(r, h)
  \/ \E c \in Containers : Set_completion_handler(r, c) \/ Submit_request(r, c)
  \/ Cancel(r) \/ Abort(r)

DisableStep(c) == Abort_requests(c) \/ AbortRoundEnds(c)

Next ==
  \/ \E r \in Requests : \/ UserStep(r)
                         \/ \E s \in Results : Complete(r, s)
                         \/ \E o \in Origins : EntryStep(r, o)
  \/ \E c \in Containers : Enable(c) \/ Disable(c) \/ DisableStep(c)

Spec == Init /\ [][Next]_vars

\* Threads are scheduled, and every processor completes what it accepted.
Fairness == /\ \A r \in Requests, o \in Origins : WF_vars(EntryStep(r, o))
            /\ \A r \in Requests : WF_vars(\E s \in Results : Complete(r, s))
            /\ \A c \in Containers : WF_vars(DisableStep(c))

FairSpec == Spec /\ Fairness

-----------------------------------------------------------------------------
(* Properties.                                                             *)

\* Process() and Complete() are never called out of sequence: however Cancel(),
\* Abort(), Complete() and the containers interleave, none of their
\* Invalid_op_exceptions is thrown and none of Process()'s assertions fails.
NoInvalidCall ==
  faults \cap {"process_state", "no_handler", "notify_state", "complete_state",
               "handler_assert"} = {}

\* A request is submitted to its completion context at most once: Complete() and
\* Abort() agree on which of them does it, though neither holds the lock then.
SubmittedOnce ==
  \A r \in Requests : entry[r]["complete"] = "none" \/ entry[r]["abort"] = "none"

\* A done handler is never left behind on a request that is done ("The handler is
\* always called - in both normal completion or abortion scenario").
DoneHandlerCalled ==
  \A r \in Requests : Is_done(r) => req[r].done_handler # "set"

\* Somebody still holds the request: a queue, a thread or its processor.
Held(r) == \/ r \in owned
           \/ \E o \in Origins : entry[r][o] \notin {"none", "gone", "refused"}

Refused(r) == \E o \in Origins : entry[r][o] = "refused"

\* The assertions of ~Request: once nobody holds a submitted request it is done and
\* has released its handlers, unless its completion context refused it.
DestructorAssertions ==
  \A r \in Requests :
     entry[r]["user"] # "none" /\ ~Held(r) /\ ~Refused(r) =>
        /\ Is_done(r)
        /\ ~req[r].processing_handler
        /\ ~req[r].completion_handler
        /\ req[r].completion_context = NoContext

\* Abort is final: an aborted request stays aborted and none of its handlers is
\* started any more, though it may still be in two queues and with its processor.
AbortIsFinal ==
  [][\A r \in Requests : Is_aborted(r) => Is_aborted(r)' /\ runs'[r] = runs[r]]_vars

\* The requests implement RequestLifecycle.
StageOf(r) ==
  CASE Is_aborted(r) -> "aborted"
    [] ~Is_aborted(r) /\ req[r].completion_delivered -> "delivered"
    [] ~Is_done(r) /\ Is_completion_delivering_started(r) -> "delivering"
    [] ~Is_done(r) /\ Is_completed(r) /\ req[r].completion_handler -> "finished"
    [] req[r].status \in {"PROCESSING", "CANCELING"} -> "processing"
    [] OTHER -> "created"

Lifecycle == INSTANCE RequestLifecycle
               WITH stage <- [r \in Requests |-> StageOf(r)],
                    callbacks <- [r \in Requests |-> runs[r].completion]

ImplementsLifecycle == Lifecycle!Spec

\* Every request that was queued gets done, by completion or by abort, unless its
\* completion context refused it: no interleaving strands a request.
QueuedGetsDone ==
  \A r \in Requests : entry[r]["user"] = "queued" ~> Is_done(r) \/ Refused(r)

\* The completion handler of an aborted request is released: ABORT_PENDING, once
\* entered, is always left.
AbortGetsFinalized ==
  \A r \in Requests :
     req[r].status = "ABORT_PENDING" ~> req[r].status = "ABORTED" \/ Refused(r)

\* What request_container.h says of the cancellation handler: it "is fired when
\* Abort() method is called between request processing started and Complete() is
\* called".
CancellationFiredOnAbort ==
  [][\A r \in Requests :
       /\ req[r].status = "PROCESSING" /\ req[r].cancellation_handler
       /\ Is_aborted(r)'
       => runs'[r].cancellation = runs[r].cancellation + 1]_vars

\* The assertion in Abort(), ASSERT(status == Status::ABORT_PENDING), holds.
AbortAssertion == "abort_assert" \notin faults
=============================================================================
