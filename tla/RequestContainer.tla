-------------------------- MODULE RequestContainer --------------------------
(***************************************************************************)
(* Containers that share a waiter, and the threads that sleep on it:       *)
(* src/request_container.cpp, src/request_waiter.cpp,                      *)
(* src/request_worker.cpp and Request::Wait_done().                         *)
(*                                                                         *)
(* A consumer is a thread in Wait_and_process(): a Processing_loop(), or a *)
(* Wait_done() caller that drains the completion context of the request it *)
(* waits for.  The waiter's mutex is a variable, because a consumer keeps  *)
(* it from one container to the next and on into the condition variable;   *)
(* every other critical section of it is one action.  Users abort requests *)
(* and disable containers at any time, several of them at once.  What a    *)
(* handler does to a request in detail is in module Request, which also    *)
(* shows that Process() and Complete() are called in sequence.  Every      *)
(* caller in the SDK passes requests_limit = 0, so there is no limit here. *)
(***************************************************************************)
EXTENDS Naturals, Sequences, FiniteSets

CONSTANTS Requests, Containers, Consumers,
          Aborters,    \* threads of users that call Abort()
          None,        \* no request, no container, no thread
          Kind,        \* the type of each container, as in module Request
          First,       \* the container that processes a request
          Second,      \* its completion context, or None
          Serves,      \* the containers of a consumer, in order
          Own,         \* the container whose thread a consumer is, or None
          Target,      \* the request a Wait_done() waits for, or None
          Victim       \* the request a user aborts

\* The user of a request and the thread that disables a container go by the name of
\* the request and of the container.
Threads == Requests \cup Containers \cup Consumers \cup Aborters

ASSUME ThreadAssumption ==
  /\ Requests \cap Containers = {}
  /\ Requests \cap Consumers = {}
  /\ Containers \cap Consumers = {}
  /\ Aborters \cap (Requests \cup Containers \cup Consumers) = {}
  /\ None \notin Threads

ASSUME RouteAssumption == /\ First \in [Requests -> Containers]
                          /\ Second \in [Requests -> Containers \cup {None}]
                          /\ Victim \in [Aborters -> Requests]

ASSUME KindAssumption ==
  /\ Kind \in [Containers -> {"PROCESSOR", "COMPLETION_CONTEXT", "ANY"}]
  /\ \A r \in Requests : /\ Kind[First[r]] # "COMPLETION_CONTEXT"
                         /\ Second[r] # None => Kind[Second[r]] # "PROCESSOR"

ASSUME ConsumerAssumption ==
  /\ Serves \in [Consumers -> Seq(Containers)]
  /\ Own \in [Consumers -> Containers \cup {None}]
  /\ Target \in [Consumers -> Requests \cup {None}]
  /\ \A t \in Consumers : (Own[t] = None) # (Target[t] = None)
  /\ \A t \in Consumers : Target[t] # None =>
        Second[Target[t]] # None /\ Serves[t] = <<Second[Target[t]]>>

VARIABLES request_queue,  \* of each container
          is_enabled,     \* of each container
          abort_ongoing,  \* of each container
          taken,          \* the requests_copy of each Abort_requests()
          mutex,          \* the consumer that holds the waiter's mutex, or None
          pc, ret,        \* where each thread is, and goes after its Notify()
          scan,           \* the locals of each consumer's predicate
          hand,           \* the request each consumer has popped
          processed,      \* requests with completion_processed set
          done,           \* requests with Is_done()
          aborted,        \* requests in ABORT_PENDING or ABORTED
          finalized,      \* requests in ABORTED
          faults          \* exceptions thrown and assertions failed so far

vars == <<request_queue, is_enabled, abort_ongoing, taken, mutex, pc, ret, scan, hand,
          processed, done, aborted, finalized, faults>>

containers == <<request_queue, is_enabled, abort_ongoing, taken>>
requests == <<processed, done, aborted, finalized>>

-----------------------------------------------------------------------------
Locations == {"off", "start", "notify", "end", "thrown", "complete", "completing",
              "submitting", "loop", "lock", "scan", "popped", "process", "deliver",
              "delivering", "relock", "decide", "sleep", "asleep", "cond", "disable",
              "join", "abort", "aborting", "resubmit", "drain", "finish"}

\* pos is the container looked at, and inside whether its Process_requests() has been
\* entered; cur, num and dis are cur_processed > 0, num_processed > 0 and is_disabled.
Scan == [pos : Nat, inside : BOOLEAN, cur : BOOLEAN, num : BOOLEAN, dis : BOOLEAN]

NewScan == [pos |-> 1, inside |-> FALSE, cur |-> FALSE, num |-> FALSE, dis |-> FALSE]

Faults == {"submit", "abort_generated", "disable_not_empty"}

\* Each variable has its type, and only a consumer inside its predicate holds the mutex.
TypeOK == /\ request_queue \in [Containers -> Seq(Requests)]
          /\ is_enabled \in [Containers -> BOOLEAN]
          /\ abort_ongoing \in [Containers -> BOOLEAN]
          /\ taken \in [Containers -> Seq(Requests)]
          /\ pc \in [Threads -> Locations]
          /\ ret \in [Threads -> Locations]
          /\ scan \in [Consumers -> Scan]
          /\ hand \in [Consumers -> Requests \cup {None}]
          /\ processed \subseteq Requests
          /\ done \subseteq Requests
          /\ aborted \subseteq done
          /\ finalized \subseteq aborted
          /\ faults \subseteq Faults
          /\ mutex \in Consumers \cup {None}
          /\ \A t \in Consumers : mutex = t <=> pc[t] \in {"scan", "decide", "sleep"}

Init == /\ request_queue = [c \in Containers |-> <<>>]
        /\ is_enabled = [c \in Containers |-> FALSE]
        /\ abort_ongoing = [c \in Containers |-> FALSE]
        /\ taken = [c \in Containers |-> <<>>]
        /\ mutex = None
        /\ pc = [t \in Threads |-> IF t \in Requests \cup Aborters THEN "start"
                                                     ELSE "off"]
        /\ ret = [t \in Threads |-> "end"]
        /\ scan = [t \in Consumers |-> NewScan]
        /\ hand = [t \in Consumers |-> None]
        /\ processed = {} /\ done = {} /\ aborted = {} /\ finalized = {}
        /\ faults = {}

-----------------------------------------------------------------------------
Goto(t, loc) == pc' = [pc EXCEPT ![t] = loc]

\* The Locker that Lock_notify() returns is released: Notify(), then go on at loc.
NotifyThen(t, loc) == /\ pc' = [pc EXCEPT ![t] = "notify"]
                      /\ ret' = [ret EXCEPT ![t] = loc]

\* Mutant: Notify() does not take the mutex.
Notify_Unlocked(t) ==
  /\ pc[t] = "notify"
  /\ pc' = [s \in Threads |-> IF s = t THEN ret[t]
                              ELSE IF pc[s] = "asleep" THEN "lock" ELSE pc[s]]
  /\ UNCHANGED <<containers, requests, mutex, ret, scan, hand, faults>>

\* Request_waiter::Notify: every sleeper wakes up and goes for the mutex.
Notify(t) ==
  /\ pc[t] = "notify"
  /\ mutex = None
  /\ pc' = [s \in Threads |-> IF s = t THEN ret[t]
                              ELSE IF pc[s] = "asleep" THEN "lock" ELSE pc[s]]
  /\ UNCHANGED <<containers, requests, mutex, ret, scan, hand, faults>>

\* A container that is not enabled takes only requests in ABORT_PENDING, and only
\* while it aborts its queue.
Accepts(c, r) == is_enabled[c] \/ (abort_ongoing[c] /\ r \in aborted \ finalized)

\* Mutant: the Locker does not notify.
Submit_Silent(t, r, c, loc) ==
  /\ mutex = None
  /\ IF Accepts(c, r)
     THEN /\ request_queue' = [request_queue EXCEPT ![c] = Append(@, r)]
          /\ Goto(t, loc)
          /\ UNCHANGED faults
     ELSE /\ faults' = faults \cup {"submit"}
          /\ Goto(t, "thrown")
          /\ UNCHANGED request_queue
  /\ UNCHANGED <<is_enabled, abort_ongoing, taken, mutex, ret, scan, hand>>

\* Submit_request_impl by thread t, which goes on at loc.
Submit(t, r, c, loc) ==
  /\ mutex = None
  /\ IF Accepts(c, r)
     THEN /\ request_queue' = [request_queue EXCEPT ![c] = Append(@, r)]
          /\ NotifyThen(t, loc)
          /\ UNCHANGED faults
     ELSE /\ faults' = faults \cup {"submit"}
          /\ NotifyThen(t, "thrown")
          /\ UNCHANGED request_queue
  /\ UNCHANGED <<is_enabled, abort_ongoing, taken, mutex, scan, hand>>

\* Users come in once every container has been enabled.
IsSetUp == \A c \in Containers : pc[c] # "off"

\* The user of a request submits it for processing, also if it is aborted by then.
Submit_request(r) ==
  /\ pc[r] = "start"
  /\ IsSetUp
  /\ Submit(r, r, First[r], "end")
  /\ UNCHANGED requests

-----------------------------------------------------------------------------
(* A consumer in Wait_and_process().                                       *)

\* Processing_loop: the thread ends when its container is disabled.
Processing_loop(t) ==
  /\ pc[t] = "loop"
  /\ Own[t] # None
  /\ Goto(t, IF is_enabled[Own[t]] THEN "lock" ELSE "end")
  /\ UNCHANGED <<containers, requests, mutex, ret, scan, hand, faults>>

\* Handler and context of the completion of r have been moved out, and it is not done.
Delivering(r) == \E t \in Consumers : pc[t] = "delivering" /\ hand[t] = r

\* Wait_done waits on the waiter of the completion context, or, when that has been moved
\* out already, on the request.
Wait_done(t) ==
  /\ pc[t] = "loop"
  /\ Target[t] # None
  /\ Goto(t, IF Target[t] \in done THEN "end"
             ELSE IF Delivering(Target[t]) THEN "cond" ELSE "lock")
  /\ UNCHANGED <<containers, requests, mutex, ret, scan, hand, faults>>

\* The wait on the request ends.
Wait_done_request(t) ==
  /\ pc[t] = "cond"
  /\ Target[t] \in done
  /\ Goto(t, "end")
  /\ UNCHANGED <<containers, requests, mutex, ret, scan, hand, faults>>

\* The predicate starts: at first, and after every wake up.
Lock(t) ==
  /\ pc[t] = "lock"
  /\ mutex = None
  /\ mutex' = t
  /\ Goto(t, "scan")
  /\ scan' = [scan EXCEPT ![t] = NewScan]
  /\ UNCHANGED <<containers, requests, ret, hand, faults>>

Container(t) == Serves[t][scan[t].pos]

\* Process_requests goes on until the queue is empty, enabled or not, once entered.
Inspects(t) == scan[t].inside \/ is_enabled[Container(t)]

\* Mutants: the request stays in the queue; it is processed under the lock.
Process_requests_Kept(t) ==
  /\ pc[t] = "scan"
  /\ scan[t].pos <= Len(Serves[t])
  /\ Inspects(t)
  /\ request_queue[Container(t)] # <<>>
  /\ hand' = [hand EXCEPT ![t] = Head(request_queue[Container(t)])]
  /\ scan' = [scan EXCEPT ![t].inside = TRUE]
  /\ mutex' = None
  /\ Goto(t, "popped")
  /\ UNCHANGED <<containers, requests, ret, faults>>

Process_requests_Locked(t) ==
  /\ pc[t] = "scan"
  /\ scan[t].pos <= Len(Serves[t])
  /\ Inspects(t)
  /\ request_queue[Container(t)] # <<>>
  /\ hand' = [hand EXCEPT ![t] = Head(request_queue[Container(t)])]
  /\ request_queue' = [request_queue EXCEPT ![Container(t)] = Tail(@)]
  /\ scan' = [scan EXCEPT ![t].inside = TRUE]
  /\ Goto(t, "popped")
  /\ UNCHANGED <<is_enabled, abort_ongoing, taken, requests, mutex, ret, faults>>

\* Process_requests takes a request off the queue and unlocks.
Process_requests(t) ==
  /\ pc[t] = "scan"
  /\ scan[t].pos <= Len(Serves[t])
  /\ Inspects(t)
  /\ request_queue[Container(t)] # <<>>
  /\ hand' = [hand EXCEPT ![t] = Head(request_queue[Container(t)])]
  /\ request_queue' = [request_queue EXCEPT ![Container(t)] = Tail(@)]
  /\ scan' = [scan EXCEPT ![t].inside = TRUE]
  /\ mutex' = None
  /\ Goto(t, "popped")
  /\ UNCHANGED <<is_enabled, abort_ongoing, taken, requests, ret, faults>>

\* Process_requests locks again after the request was processed.
Relock(t) ==
  /\ pc[t] = "relock"
  /\ mutex = None
  /\ mutex' = t
  /\ Goto(t, "scan")
  /\ scan' = [scan EXCEPT ![t].cur = TRUE]
  /\ hand' = [hand EXCEPT ![t] = None]
  /\ UNCHANGED <<containers, requests, ret, faults>>

\* The next container: this one is disabled, or its queue is empty.
NextContainer(t) ==
  /\ pc[t] = "scan"
  /\ scan[t].pos <= Len(Serves[t])
  /\ Inspects(t) => request_queue[Container(t)] = <<>>
  /\ scan' = [scan EXCEPT ![t].pos = @ + 1, ![t].inside = FALSE,
                          ![t].dis = @ \/ ~Inspects(t)]
  /\ UNCHANGED <<containers, requests, mutex, pc, ret, hand, faults>>

\* The end of a round: another one if this one has processed something.
RoundEnds(t) ==
  /\ pc[t] = "scan"
  /\ scan[t].pos > Len(Serves[t])
  /\ IF scan[t].cur
     THEN /\ scan' = [scan EXCEPT ![t] = [NewScan EXCEPT !.num = TRUE, !.dis = scan[t].dis]]
          /\ UNCHANGED pc
     ELSE Goto(t, "decide") /\ UNCHANGED scan
  /\ UNCHANGED <<containers, requests, mutex, ret, hand, faults>>

\* What the predicate returns.
Satisfied(t) ==
  IF Target[t] # None THEN Target[t] \in done ELSE scan[t].num \/ scan[t].dis

Decide(t) ==
  /\ pc[t] = "decide"
  /\ IF Satisfied(t) THEN Goto(t, "loop") /\ mutex' = None
                     ELSE Goto(t, "sleep") /\ UNCHANGED mutex
  /\ UNCHANGED <<containers, requests, ret, scan, hand, faults>>

\* cond_var.wait unlocks the mutex and falls asleep in one step.
Sleep(t) ==
  /\ pc[t] = "sleep"
  /\ Goto(t, "asleep")
  /\ mutex' = None
  /\ UNCHANGED <<containers, requests, ret, scan, hand, faults>>

SpuriousWakeup(t) ==
  /\ pc[t] = "asleep"
  /\ Goto(t, "lock")
  /\ UNCHANGED <<containers, requests, mutex, ret, scan, hand, faults>>

-----------------------------------------------------------------------------
(* Process_request(), by a consumer that has popped a request.             *)

\* Is_request_processing_needed: neither completed nor ABORT_PENDING.
Is_request_processing_needed(r) == r \in finalized \/ r \notin processed \cup aborted

\* Process_request chooses the argument of Process(), a worker without the request's lock.
Process_request(t) ==
  LET kind == Kind[Container(t)]
      needed == kind = "PROCESSOR"
                \/ (kind = "ANY" /\ Is_request_processing_needed(hand[t]))
  IN /\ pc[t] = "popped"
     /\ Goto(t, IF needed THEN "process" ELSE "deliver")
     /\ UNCHANGED <<containers, requests, mutex, ret, scan, hand, faults>>

\* Process(true): the processing handler of a request that is not aborted runs, and
\* Complete() is called by it, or later.
Process(t) ==
  /\ pc[t] = "process"
  /\ IF hand[t] \in aborted THEN Goto(t, "relock")
     ELSE \/ Goto(t, "completing")
          \/ pc' = [pc EXCEPT ![t] = "relock", ![hand[t]] = "complete"]
  /\ UNCHANGED <<containers, requests, mutex, ret, scan, hand, faults>>

\* Process(false) finalizes an abort, or moves the completion handler out and runs it.
Process_notification(t) ==
  /\ pc[t] = "deliver"
  /\ IF hand[t] \in aborted
     THEN finalized' = finalized \cup {hand[t]} /\ Goto(t, "relock")
     ELSE UNCHANGED finalized /\ Goto(t, "delivering")
  /\ UNCHANGED <<containers, mutex, ret, scan, hand, processed, done, aborted, faults>>

\* Mutant: a delivered request does not wake up its Wait_done().
Deliver_Silent(t) ==
  /\ pc[t] = "delivering"
  /\ done' = done \cup {hand[t]}
  /\ Goto(t, "relock")
  /\ UNCHANGED <<containers, mutex, ret, scan, hand, processed, aborted, finalized, faults>>

\* The completion handler has returned: completion_delivered is set, the waiter notified.
Deliver(t) ==
  /\ pc[t] = "delivering"
  /\ done' = done \cup {hand[t]}
  /\ NotifyThen(t, "relock")
  /\ UNCHANGED <<containers, mutex, scan, hand, processed, aborted, finalized, faults>>

\* The critical section of Complete(r) by thread t, which goes on at loc unless there is
\* a completion context to submit to.
Complete(t, r, loc) ==
  /\ IF r \in aborted THEN Goto(t, loc) /\ UNCHANGED <<processed, done>>
     ELSE /\ processed' = processed \cup {r}
          /\ IF Second[r] = None THEN done' = done \cup {r} /\ Goto(t, loc)
                                ELSE UNCHANGED done /\ Goto(t, "submitting")
  /\ UNCHANGED <<containers, mutex, ret, scan, hand, aborted, finalized, faults>>

Complete_now(t) == pc[t] = "completing" /\ Complete(t, hand[t], "relock")

Complete_later(r) == pc[r] = "complete" /\ Complete(r, r, "end")

\* Complete() submits, the request being aborted by now or not.
Complete_submits(t, r, loc) ==
  pc[t] = "submitting" /\ Submit(t, r, Second[r], loc) /\ UNCHANGED requests

-----------------------------------------------------------------------------
(* Request::Abort().                                                       *)

\* The critical section of Abort(r) by thread t: unless the completion handler has been
\* moved out the request is done, whoever waits for it is notified, and t goes on at submit
\* when there is a completion context that Complete() will not submit to, else at loc.
Abort(t, r, submit, loc) ==
  /\ IF r \in done \/ Delivering(r)
     THEN Goto(t, loc) /\ UNCHANGED <<ret, done, aborted, finalized>>
     ELSE /\ done' = done \cup {r}
          /\ aborted' = aborted \cup {r}
          /\ IF Second[r] = None
             THEN finalized' = finalized \cup {r} /\ Goto(t, loc) /\ UNCHANGED ret
             ELSE UNCHANGED finalized /\ NotifyThen(t, IF r \in processed THEN loc ELSE submit)
  /\ UNCHANGED <<containers, mutex, scan, hand, processed, faults>>

\* Abort() submits the request for its abort to be finalized.
Abort_submits(t, r, loc) ==
  pc[t] = "resubmit" /\ Submit(t, r, Second[r], loc) /\ UNCHANGED requests

\* A user calls Abort(), whatever has become of the request.
Abort_request(a) == pc[a] = "start" /\ IsSetUp /\ Abort(a, Victim[a], "resubmit", "end")

-----------------------------------------------------------------------------
(* Enabling and disabling a container.                                     *)

\* Enable and On_enable, which starts the thread of the container.
Enable(c) ==
  /\ pc[c] = "off"
  /\ is_enabled' = [is_enabled EXCEPT ![c] = TRUE]
  /\ pc' = [t \in Threads |->
              IF t = c THEN "start"
              ELSE IF t \in Consumers /\ pc[t] = "off" /\ (Own[t] = c \/ Own[t] = None)
              THEN "loop" ELSE pc[t]]
  /\ UNCHANGED <<request_queue, abort_ongoing, taken, requests, mutex, ret, scan, hand, faults>>

\* Disable: containers may be disabled at the same time.  A call that finds
\* disable_ongoing set only notifies, like a spurious wakeup.
Disable(c) ==
  /\ pc[c] = "start"
  /\ mutex = None
  /\ NotifyThen(c, "disable")
  /\ UNCHANGED <<containers, requests, mutex, scan, hand, faults>>

\* Mutant: nobody is told.
Set_disabled_Silent(c) ==
  /\ pc[c] = "disable"
  /\ mutex = None
  /\ is_enabled' = [is_enabled EXCEPT ![c] = FALSE]
  /\ Goto(c, "join")
  /\ UNCHANGED <<request_queue, abort_ongoing, taken, requests, mutex, ret, scan, hand, faults>>

\* On_disable calls Set_disabled ...
Set_disabled(c) ==
  /\ pc[c] = "disable"
  /\ mutex = None
  /\ is_enabled' = [is_enabled EXCEPT ![c] = FALSE]
  /\ NotifyThen(c, "join")
  /\ UNCHANGED <<request_queue, abort_ongoing, taken, requests, mutex, scan, hand, faults>>

\* ... and joins the thread of the container.  Disable calls Set_disabled once more and
\* notifies when it ends; both wake sleepers like SpuriousWakeup, and change nothing.
Join(c) ==
  /\ pc[c] = "join"
  /\ \A t \in Consumers : Own[t] = c => pc[t] = "end"
  /\ Goto(c, "abort")
  /\ UNCHANGED <<containers, requests, mutex, ret, scan, hand, faults>>

\* Abort_requests moves the queue out, if there is anything in it.
TakeQueue(c) == /\ taken' = [taken EXCEPT ![c] = request_queue[c]]
                /\ request_queue' = [request_queue EXCEPT ![c] = <<>>]
                /\ abort_ongoing' = [abort_ongoing EXCEPT ![c] = TRUE]
                /\ Goto(c, "aborting")

\* Mutant: Abort_requests leaves the flag set.
AbortEnds_Ongoing(c) == /\ Goto(c, "finish")
                        /\ UNCHANGED <<taken, request_queue, abort_ongoing>>

AbortEnds(c) == /\ abort_ongoing' = [abort_ongoing EXCEPT ![c] = FALSE]
                /\ Goto(c, "finish")
                /\ UNCHANGED <<taken, request_queue>>

Abort_requests(c) ==
  /\ pc[c] = "abort"
  /\ mutex = None
  /\ IF request_queue[c] = <<>> THEN AbortEnds(c) ELSE TakeQueue(c)
  /\ UNCHANGED <<is_enabled, requests, mutex, ret, scan, hand, faults>>

\* Abort() of the next request.
Abort_taken(c) ==
  /\ pc[c] = "aborting"
  /\ taken[c] # <<>>
  /\ Abort(c, Head(taken[c]), "resubmit", "drain")

\* Process(false) turns ABORT_PENDING into ABORTED.
Drain(c) ==
  /\ pc[c] = "drain"
  /\ finalized' = finalized \cup ({Head(taken[c])} \cap aborted)
  /\ taken' = [taken EXCEPT ![c] = Tail(@)]
  /\ Goto(c, "aborting")
  /\ UNCHANGED <<request_queue, is_enabled, abort_ongoing, mutex, ret, scan, hand,
                 processed, done, aborted, faults>>

\* Mutant: there is no other round.
Abort_round_Once(c) ==
  /\ pc[c] = "aborting"
  /\ taken[c] = <<>>
  /\ mutex = None
  /\ AbortEnds(c)
  /\ UNCHANGED <<is_enabled, requests, mutex, ret, scan, hand, faults>>

\* Another round, if the queue holds a request that is not fully aborted.
Abort_round(c) ==
  /\ pc[c] = "aborting"
  /\ taken[c] = <<>>
  /\ mutex = None
  /\ IF \E i \in DOMAIN request_queue[c] : request_queue[c][i] \notin finalized
     THEN TakeQueue(c) /\ faults' = faults \cup {"abort_generated"}
     ELSE AbortEnds(c) /\ UNCHANGED faults
  /\ UNCHANGED <<is_enabled, requests, mutex, ret, scan, hand>>

\* The end of Disable.
Disable_ends(c) ==
  /\ pc[c] = "finish"
  /\ mutex = None
  /\ Goto(c, "end")
  /\ faults' = IF request_queue[c] = <<>> THEN faults ELSE faults \cup {"disable_not_empty"}
  /\ UNCHANGED <<containers, requests, mutex, ret, scan, hand>>

-----------------------------------------------------------------------------
ConsumerStep(t) ==
  \/ Processing_loop(t) \/ Wait_done(t) \/ Wait_done_request(t) \/ Lock(t)
  \/ Process_requests(t) \/ Relock(t) \/ NextContainer(t) \/ RoundEnds(t)
  \/ Decide(t) \/ Sleep(t) \/ Process_request(t) \/ Process(t) \/ Process_notification(t)
  \/ Deliver(t) \/ Complete_now(t) \/ Complete_submits(t, hand[t], "relock") \/ Notify(t)

UserStep(r) ==
  Submit_request(r) \/ Complete_later(r) \/ Complete_submits(r, r, "end") \/ Notify(r)

AborterStep(a) == Abort_request(a) \/ Abort_submits(a, Victim[a], "end") \/ Notify(a)

DisableStep(c) ==
  \/ Set_disabled(c) \/ Join(c) \/ Abort_requests(c) \/ Abort_taken(c)
  \/ Abort_submits(c, Head(taken[c]), "drain") \/ Drain(c) \/ Abort_round(c)
  \/ Disable_ends(c) \/ Notify(c)

Next == \/ \E t \in Consumers : ConsumerStep(t) \/ SpuriousWakeup(t)
        \/ \E r \in Requests : UserStep(r)
        \/ \E a \in Aborters : AborterStep(a)
        \/ \E c \in Containers : Enable(c) \/ Disable(c) \/ DisableStep(c)

Spec == Init /\ [][Next]_vars

\* The threads of the SDK are scheduled and its mutexes are fair: a thread that wants
\* one again and again gets it.  Users complete what they accepted, but need not abort.
Fairness == /\ \A t \in Consumers : SF_vars(ConsumerStep(t))
            /\ \A r \in Requests : SF_vars(UserStep(r) /\ pc[r] # "start")
            /\ \A a \in Aborters : SF_vars(AborterStep(a) /\ pc[a] # "start")
            /\ \A c \in Containers : SF_vars(DisableStep(c))

FairSpec == Spec /\ Fairness

-----------------------------------------------------------------------------
(* Properties.                                                             *)

\* There is something the predicate of t would not sleep through.
Work(t) == \/ \E i \in DOMAIN Serves[t] : /\ is_enabled[Serves[t][i]]
                                          /\ request_queue[Serves[t][i]] # <<>>
           \/ Target[t] = None /\ \E i \in DOMAIN Serves[t] : ~is_enabled[Serves[t][i]]
           \/ Target[t] # None /\ Target[t] \in done

\* No wakeup is lost: whenever a consumer sleeps and there is something for it to do,
\* some thread is about to call Notify().
NoLostWakeup ==
  \A t \in Consumers :
     pc[t] = "asleep" /\ Work(t) => \E s \in Threads : pc[s] = "notify"

\* Once Disable() has gone beyond Abort_requests() nothing enters the container any
\* more, though requests are still completed and aborted by others, and containers are
\* disabled, at the same time: at most a consumer that is inside takes a request out.
DisabledForGood ==
  [][\A c \in Containers : pc[c] \in {"finish", "end"} =>
       \/ request_queue'[c] = request_queue[c]
       \/ request_queue[c] # <<>> /\ request_queue'[c] = Tail(request_queue[c])]_vars

\* What a disabled container has left in its queue is fully aborted: an Abort() by a user
\* may submit to it while it aborts its queue, but no handler is left behind.
OnlyAbortedLeft ==
  \A c \in Containers : pc[c] \in {"finish", "end"} =>
     \A i \in DOMAIN request_queue[c] : request_queue[c][i] \in finalized

\* A consumer works on the request it has popped.
Handling == {"popped", "process", "deliver", "delivering", "completing", "submitting"}

\* A request is in one queue or one thread at a time, unless it is aborted: two
\* consumers of one container never run its handlers twice.
Places(r) == {<<"queue", c>> : c \in {c \in Containers :
                 \E i \in DOMAIN request_queue[c] : request_queue[c][i] = r}}
             \cup {<<"taken", c>> : c \in {c \in Containers :
                     \E i \in DOMAIN taken[c] : taken[c][i] = r}}
             \cup {<<"hand", t>> : t \in {t \in Consumers :
                     hand[t] = r /\ pc[t] \in Handling}}
             \cup {<<"user", r>> : x \in {x \in {r} : pc[r] \in {"complete", "submitting"}}}

OnePlace == \A r \in Requests : r \notin aborted => Cardinality(Places(r)) <= 1

\* The thread that serves container c has ended while c is still enabled: its owner
\* was disabled before it.
Unserved(c) == /\ is_enabled[c]
               /\ \A t \in Consumers :
                     Own[t] # None /\ (\E i \in DOMAIN Serves[t] : Serves[t][i] = c)
                       => pc[t] = "end"

\* Every request that was submitted gets done, by a handler or by Abort_requests(),
\* unless a disabled container refused one or the worker ended before its containers.
SubmittedGetsDone ==
  \A r \in Requests :
     pc[r] = "end"
       ~> (r \in done \/ "submit" \in faults \/ Unserved(First[r]))

\* Disable() returns: the thread of the container leaves Wait_and_process() and the
\* requests left are aborted.
DisableReturns ==
  \A c \in Containers :
     pc[c] = "disable" ~> (pc[c] = "end" \/ "submit" \in faults)

\* Wait_done() returns when its request gets done, whichever thread does it.
WaitDoneReturns ==
  \A t \in Consumers :
     Target[t] # None =>
       ((pc[t] # "off" /\ Target[t] \in done) ~> (pc[t] = "end" \/ "submit" \in faults))
=============================================================================
