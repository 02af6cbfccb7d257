----------------------- MODULE RequestContainerProofs -----------------------
(***************************************************************************)
(* Proofs about module RequestContainer, for any number of requests,       *)
(* containers, consumers and users that abort, however requests are routed *)
(* and containers served.                                                  *)
(***************************************************************************)
EXTENDS RequestContainer, FiniteSetTheorems, TLAPS

USE ThreadAssumption DEF Threads, containers, requests, Goto, NotifyThen

-----------------------------------------------------------------------------
(* Types.                                                                  *)

\* Where a thread is, or goes after its Notify().
Loc(t) == IF pc[t] = "notify" THEN ret[t] ELSE pc[t]

\* The user of a request submits it, and to a completion context only if there is one.
UserOK(r) ==
  /\ pc[r] \in {"start", "notify", "end", "thrown", "complete", "submitting"}
  /\ ret[r] \in {"end", "thrown"}
  /\ pc[r] = "submitting" => Second[r] # None

\* A user submits only a request that is aborted and has a completion context.
AborterOK(a) ==
  /\ pc[a] \in {"start", "notify", "resubmit", "end", "thrown"}
  /\ ret[a] \in {"end", "resubmit", "thrown"}
  /\ Loc(a) = "resubmit" => Victim[a] \in aborted /\ Second[Victim[a]] # None

\* A consumer that handles a request has popped one, and looks at a container it serves.
ConsumerOK(t) ==
  /\ pc[t] \in {"off", "loop", "lock", "cond", "scan", "popped", "process", "deliver",
                "delivering", "completing", "submitting", "notify", "relock", "decide",
                "sleep", "asleep", "end", "thrown"}
  /\ ret[t] \in {"end", "relock", "thrown"}
  /\ scan[t].pos # 0
  /\ pc[t] \in Handling => hand[t] \in Requests
  /\ pc[t] = "submitting" => Second[hand[t]] # None

\* Abort_requests() submits only a request that it has just aborted and that has a
\* completion context.
DisablerOK(c) ==
  /\ pc[c] \in {"off", "start", "notify", "disable", "join", "abort", "aborting",
                "resubmit", "drain", "finish", "end", "thrown"}
  /\ pc[c] = "notify" => ret[c] \in {"disable", "join", "resubmit", "drain", "thrown"}
  /\ Loc(c) \in {"resubmit", "drain"} => taken[c] # <<>>
  /\ Loc(c) = "resubmit" => Head(taken[c]) \in aborted /\ Second[Head(taken[c])] # None

ThreadOK(s) == /\ s \in Requests => UserOK(s)
               /\ s \in Aborters => AborterOK(s)
               /\ s \in Consumers => ConsumerOK(s)
               /\ s \in Containers => DisablerOK(s)

\* The types of everything but the locations and the mutex.
DataOK == /\ request_queue \in [Containers -> Seq(Requests)]
          /\ is_enabled \in [Containers -> BOOLEAN]
          /\ abort_ongoing \in [Containers -> BOOLEAN]
          /\ taken \in [Containers -> Seq(Requests)]
          /\ scan \in [Consumers -> Scan]
          /\ hand \in [Consumers -> Requests \cup {None}]
          /\ processed \subseteq Requests
          /\ done \subseteq Requests
          /\ aborted \subseteq done
          /\ finalized \subseteq aborted
          /\ faults \subseteq Faults

InPredicate == {"scan", "decide", "sleep"}

MutexOK == /\ mutex \in Consumers \cup {None}
           /\ \A t \in Consumers : mutex = t <=> pc[t] \in InPredicate

PlacesOK == pc \in [Threads -> Locations] /\ ret \in [Threads -> Locations]

\* The part of the inductive invariant that gives every expression its type.
TypeInv == DataOK /\ PlacesOK /\ MutexOK /\ \A s \in Threads : ThreadOK(s)

LEMMA TypeInvType == TypeInv => TypeOK
BY DEF TypeInv, DataOK, PlacesOK, MutexOK, InPredicate, TypeOK

LEMMA TypeInit == Init => TypeInv
<1> SUFFICES ASSUME Init PROVE TypeInv
  OBVIOUS
<1>1. DataOK
  BY DEF Init, DataOK, NewScan, Scan
<1>2. PlacesOK /\ MutexOK
  BY DEF Init, PlacesOK, MutexOK, InPredicate, Locations
<1>3. \A s \in Threads : ThreadOK(s)
  BY DEF Init, ThreadOK, UserOK, AborterOK, ConsumerOK, DisablerOK, Loc, NewScan, Handling
<1> QED BY <1>1, <1>2, <1>3 DEF TypeInv

\* Thread s goes to loc, and is to go on at l after a Notify().
Moves(s, loc) == /\ pc' \in [Threads -> Locations]
                 /\ pc'[s] = loc
                 /\ \A t \in Threads \ {s} : pc'[t] = pc[t]

Returns(s, l) == /\ ret' \in [Threads -> Locations]
                 /\ ret'[s] = l
                 /\ \A t \in Threads \ {s} : ret'[t] = ret[t]

LEMMA MovesLemma ==
  ASSUME TypeInv, NEW s \in Threads, NEW loc \in Locations, pc' = [pc EXCEPT ![s] = loc]
  PROVE  Moves(s, loc)
BY DEF TypeInv, PlacesOK, Moves

LEMMA ReturnsLemma ==
  ASSUME TypeInv, NEW s \in Threads, NEW l \in Locations, ret' = [ret EXCEPT ![s] = l]
  PROVE  Returns(s, l)
BY DEF TypeInv, PlacesOK, Returns

LEMMA StaysLemma ==
  ASSUME TypeInv, NEW s \in Threads
  PROVE  /\ pc' = pc => Moves(s, pc[s])
         /\ ret' = ret => Returns(s, ret[s])
BY DEF TypeInv, PlacesOK, Moves, Returns

\* The locals of the threads other than s are left alone.
OthersKept(s) == /\ \A t \in Consumers \ {s} : scan'[t] = scan[t] /\ hand'[t] = hand[t]
                 /\ \A c \in Containers \ {s} : taken'[c] = taken[c]
                 /\ aborted \subseteq aborted'

\* Thread s takes the mutex, gives it back, or leaves it alone.
MutexMoves(s, loc) ==
  \/ mutex' = mutex /\ (s \in Consumers => (loc \in InPredicate <=> pc[s] \in InPredicate))
  \/ mutex = None /\ mutex' = s /\ s \in Consumers /\ loc \in InPredicate
  \/ mutex = s /\ mutex' = None /\ s \in Consumers /\ loc \notin InPredicate

\* A step of one thread keeps the types, if that thread comes out right.
LEMMA TypeMove ==
  ASSUME TypeInv, NEW s \in Threads, NEW loc, NEW l, Moves(s, loc), Returns(s, l),
         OthersKept(s), MutexMoves(s, loc), DataOK', ThreadOK(s)'
  PROVE  TypeInv'
<1>1. PlacesOK'
  BY DEF Moves, Returns, PlacesOK
<1>2. MutexOK'
  BY DEF TypeInv, MutexOK, MutexMoves, Moves
<1>3. ASSUME NEW t \in Threads, t # s PROVE ThreadOK(t)'
  <2>1. pc'[t] = pc[t] /\ ret'[t] = ret[t] /\ Loc(t)' = Loc(t) /\ ThreadOK(t)
    BY <1>3 DEF Moves, Returns, Loc, TypeInv
  <2>2. CASE t \in Requests
    BY <2>1, <2>2 DEF ThreadOK, UserOK
  <2>3. CASE t \in Aborters
    BY <2>1, <2>3 DEF ThreadOK, AborterOK, OthersKept
  <2>4. CASE t \in Consumers
    BY <1>3, <2>1, <2>4 DEF ThreadOK, ConsumerOK, OthersKept
  <2>5. CASE t \in Containers
    BY <1>3, <2>1, <2>5 DEF ThreadOK, DisablerOK, OthersKept
  <2> QED BY <2>2, <2>3, <2>4, <2>5
<1> QED BY <1>1, <1>2, <1>3 DEF TypeInv

\* The types of what a step leaves alone.
LEMMA Types ==
  ASSUME TypeInv
  PROVE  /\ request_queue \in [Containers -> Seq(Requests)]
         /\ taken \in [Containers -> Seq(Requests)]
         /\ is_enabled \in [Containers -> BOOLEAN] /\ abort_ongoing \in [Containers -> BOOLEAN]
         /\ scan \in [Consumers -> Scan] /\ hand \in [Consumers -> Requests \cup {None}]
         /\ processed \subseteq Requests /\ done \subseteq Requests /\ aborted \subseteq done
         /\ finalized \subseteq aborted /\ faults \subseteq Faults
         /\ \A t \in Consumers : mutex = t <=> pc[t] \in InPredicate
BY DEF TypeInv, DataOK, MutexOK

\* What is known of one thread.
LEMMA OwnTypes ==
  ASSUME TypeInv
  PROVE  /\ \A r \in Requests : UserOK(r)
         /\ \A a \in Aborters : AborterOK(a)
         /\ \A t \in Consumers : ConsumerOK(t)
         /\ \A c \in Containers : DisablerOK(c)
BY DEF TypeInv, ThreadOK

LEMMA OneKind ==
  /\ \A s \in Requests : ThreadOK(s)' <=> UserOK(s)'
  /\ \A s \in Aborters : ThreadOK(s)' <=> AborterOK(s)'
  /\ \A s \in Consumers : ThreadOK(s)' <=> ConsumerOK(s)'
  /\ \A s \in Containers : ThreadOK(s)' <=> DisablerOK(s)'
BY DEF ThreadOK

LEMMA SomeLocations ==
  {"start", "notify", "end", "thrown", "complete", "completing", "submitting", "loop",
   "lock", "scan", "popped", "process", "deliver", "delivering", "relock", "decide", "sleep",
   "asleep", "cond", "disable", "join", "abort", "aborting", "resubmit", "drain", "finish"}
    \subseteq Locations
BY DEF Locations

\* The containers of a consumer.
LEMMA ContainerType ==
  ASSUME TypeInv, NEW t \in Consumers, scan[t].pos <= Len(Serves[t])
  PROVE  Container(t) \in Containers
BY ConsumerAssumption, OwnTypes DEF TypeInv, DataOK, ConsumerOK, Container, Scan

-----------------------------------------------------------------------------
(* Every step keeps the types.                                             *)

\* Notify() wakes the sleepers and goes on.
LEMMA NotifyEffect ==
  ASSUME TypeInv, NEW t \in Threads, Notify(t)
  PROVE  /\ pc[t] = "notify" /\ mutex = None
         /\ pc' \in [Threads -> Locations] /\ pc'[t] = ret[t]
         /\ \A s \in Threads \ {t} : pc'[s] = IF pc[s] = "asleep" THEN "lock" ELSE pc[s]
         /\ UNCHANGED <<containers, requests, mutex, ret, scan, hand, faults>>
BY SomeLocations DEF Notify, TypeInv, PlacesOK

LEMMA TypeNotify ==
  ASSUME TypeInv, NEW t \in Threads, Notify(t)
  PROVE  TypeInv'
<1>1. DataOK'
  BY NotifyEffect DEF TypeInv, DataOK
<1>2. PlacesOK'
  BY NotifyEffect DEF TypeInv, PlacesOK
<1>3. \A s \in Consumers : ret[s] \in {"end", "relock", "thrown"}
  BY OwnTypes DEF ConsumerOK
<1>4. MutexOK'
  BY <1>3, NotifyEffect DEF TypeInv, MutexOK, InPredicate
<1>5. ASSUME NEW s \in Threads PROVE ThreadOK(s)'
  <2>1. /\ UNCHANGED <<taken, aborted, scan, hand, ret>>
        /\ \/ pc'[s] = pc[s]
           \/ s = t /\ pc[s] = "notify" /\ pc'[s] = ret[s]
           \/ pc[s] = "asleep" /\ pc'[s] = "lock"
    BY NotifyEffect
  <2>2. CASE s \in Requests
    BY <2>1, <2>2, OwnTypes, OneKind DEF UserOK
  <2>3. CASE s \in Aborters
    BY <2>1, <2>3, OwnTypes, OneKind DEF AborterOK, Loc
  <2>4. CASE s \in Consumers
    BY <2>1, <2>4, OwnTypes, OneKind DEF ConsumerOK, Handling
  <2>5. CASE s \in Containers
    BY <2>1, <2>5, OwnTypes, OneKind DEF DisablerOK, Loc
  <2> QED BY <2>2, <2>3, <2>4, <2>5
<1> QED BY <1>1, <1>2, <1>4, <1>5 DEF TypeInv

\* What Submit changes.
LEMMA SubmitEffect ==
  ASSUME TypeInv, NEW t \in Threads, NEW r \in Requests, NEW c \in Containers,
         NEW loc \in Locations, Submit(t, r, c, loc)
  PROVE  /\ mutex = None
         /\ UNCHANGED <<is_enabled, abort_ongoing, taken, mutex, scan, hand>>
         /\ Moves(t, "notify")
         /\ \/ /\ Accepts(c, r)
               /\ request_queue' = [request_queue EXCEPT ![c] = Append(@, r)]
               /\ Returns(t, loc)
               /\ UNCHANGED faults
            \/ /\ UNCHANGED request_queue
               /\ Returns(t, "thrown")
               /\ faults' = faults \cup {"submit"}
<1>1. /\ mutex = None /\ UNCHANGED <<is_enabled, abort_ongoing, taken, mutex, scan, hand>>
      /\ pc' = [pc EXCEPT ![t] = "notify"]
  BY DEF Submit
<1>2. Moves(t, "notify")
  BY <1>1, MovesLemma, SomeLocations
<1>3. CASE Accepts(c, r)
  BY <1>1, <1>2, <1>3, ReturnsLemma DEF Submit
<1>4. CASE ~Accepts(c, r)
  BY <1>1, <1>2, <1>4, ReturnsLemma, SomeLocations DEF Submit
<1> QED BY <1>3, <1>4

\* Submit, by a thread that does not hold the mutex.
LEMMA TypeSubmit ==
  ASSUME TypeInv, NEW t \in Threads, NEW r \in Requests, NEW c \in Containers,
         NEW loc \in {"end", "relock", "drain"}, Submit(t, r, c, loc), UNCHANGED requests,
         t \in Requests \cup Aborters => loc = "end",
         t \in Consumers => loc = "relock" /\ pc[t] \notin InPredicate,
         t \in Containers => loc = "drain" /\ pc[t] = "resubmit"
  PROVE  TypeInv'
<1>1. loc \in Locations
  BY SomeLocations
<1>2. /\ UNCHANGED <<is_enabled, abort_ongoing, taken, mutex, scan, hand>>
      /\ Moves(t, "notify")
  BY <1>1, SubmitEffect
<1>3. PICK l \in {loc, "thrown"} : Returns(t, l)
  BY <1>1, SubmitEffect
<1>4. DataOK'
  <2>1. faults' = faults \/ faults' = faults \cup {"submit"}
    BY <1>1, SubmitEffect
  <2>2. \/ request_queue' = [request_queue EXCEPT ![c] = Append(@, r)]
        \/ request_queue' = request_queue
    BY <1>1, SubmitEffect
  <2>3. request_queue' \in [Containers -> Seq(Requests)]
    <3>1. request_queue \in [Containers -> Seq(Requests)] /\ request_queue[c] \in Seq(Requests)
      BY Types
    <3>2. Append(request_queue[c], r) \in Seq(Requests)
      BY <3>1
    <3> QED BY <2>2, <3>1, <3>2
  <2> QED BY <1>2, <2>1, <2>3 DEF TypeInv, DataOK, Faults
<1>5. OthersKept(t) /\ MutexMoves(t, "notify")
  BY <1>2 DEF OthersKept, MutexMoves, InPredicate
<1>6. ThreadOK(t)'
  <2>1. pc'[t] = "notify" /\ ret'[t] = l /\ Loc(t)' = l
    BY <1>2, <1>3 DEF Moves, Returns, Loc
  <2>2. CASE t \in Requests \cup Aborters
    BY <2>1, <2>2, OneKind DEF UserOK, AborterOK
  <2>3. CASE t \in Consumers
    BY <1>2, <2>1, <2>3, OneKind, OwnTypes DEF ConsumerOK, Handling
  <2>4. CASE t \in Containers
    BY <1>2, <2>1, <2>4, OneKind, OwnTypes DEF DisablerOK, Loc
  <2> QED BY <2>2, <2>3, <2>4
<1> QED BY <1>2, <1>3, <1>4, <1>5, <1>6, TypeMove

\* What the critical section of Complete() changes.
LEMMA CompleteEffect ==
  ASSUME TypeInv, NEW t \in Threads, NEW r \in Requests, NEW loc \in Locations,
         Complete(t, r, loc)
  PROVE  /\ UNCHANGED <<containers, mutex, ret, scan, hand, aborted, finalized, faults>>
         /\ processed' = processed \/ processed' = processed \cup {r}
         /\ \/ Moves(t, loc) /\ UNCHANGED done
            \/ Moves(t, loc) /\ done' = done \cup {r} /\ Second[r] = None
            \/ Moves(t, "submitting") /\ UNCHANGED done /\ Second[r] # None
<1>1. UNCHANGED <<containers, mutex, ret, scan, hand, aborted, finalized, faults>>
  BY DEF Complete
<1>2. processed' = processed \/ processed' = processed \cup {r}
  BY DEF Complete
<1>3. \/ pc' = [pc EXCEPT ![t] = loc] /\ UNCHANGED done
      \/ pc' = [pc EXCEPT ![t] = loc] /\ done' = done \cup {r} /\ Second[r] = None
      \/ pc' = [pc EXCEPT ![t] = "submitting"] /\ UNCHANGED done /\ Second[r] # None
  BY DEF Complete
<1> QED BY <1>1, <1>2, <1>3, MovesLemma, SomeLocations

LEMMA TypeComplete ==
  ASSUME TypeInv, NEW t \in Requests \cup Consumers, NEW r \in Requests,
         NEW loc \in {"end", "relock"}, Complete(t, r, loc),
         t \in Requests => r = t /\ loc = "end",
         t \in Consumers => r = hand[t] /\ loc = "relock" /\ pc[t] \notin InPredicate
  PROVE  TypeInv'
<1>1. loc \in Locations /\ t \in Threads
  BY SomeLocations
<1>2. /\ UNCHANGED <<containers, mutex, ret, scan, hand, aborted, finalized, faults>>
      /\ processed' \subseteq Requests /\ done \subseteq done' /\ done' \subseteq Requests
  <2>1. /\ processed' = processed \/ processed' = processed \cup {r}
        /\ done' = done \/ done' = done \cup {r}
        /\ UNCHANGED <<containers, mutex, ret, scan, hand, aborted, finalized, faults>>
    BY <1>1, CompleteEffect
  <2> QED BY <2>1, Types
<1>3. PICK l \in {loc, "submitting"} : Moves(t, l) /\ (l = "submitting" => Second[r] # None)
  BY <1>1, CompleteEffect
<1>4. DataOK'
  BY <1>2, Types DEF DataOK
<1>5. OthersKept(t) /\ MutexMoves(t, l)
  BY <1>2, <1>3 DEF OthersKept, MutexMoves, InPredicate
<1>6. ThreadOK(t)'
  <2>1. pc'[t] = l /\ ret'[t] = ret[t]
    BY <1>2, <1>3 DEF Moves
  <2>2. CASE t \in Requests
    BY <1>3, <2>1, <2>2, OneKind, OwnTypes DEF UserOK
  <2>3. CASE t \in Consumers
    BY <1>2, <1>3, <2>1, <2>3, OneKind, OwnTypes DEF ConsumerOK, Handling
  <2> QED BY <2>2, <2>3
<1> QED BY <1>1, <1>2, <1>3, <1>4, <1>5, <1>6, StaysLemma, TypeMove

\* What the critical section of Abort() changes.
LEMMA AbortEffect ==
  ASSUME TypeInv, NEW t \in Threads, NEW r \in Requests, NEW submit \in Locations,
         NEW loc \in Locations, Abort(t, r, submit, loc)
  PROVE  /\ UNCHANGED <<containers, mutex, scan, hand, processed, faults>>
         /\ \/ Moves(t, loc) /\ UNCHANGED <<ret, done, aborted, finalized>>
            \/ /\ Moves(t, loc) /\ UNCHANGED ret /\ Second[r] = None
               /\ done' = done \cup {r} /\ aborted' = aborted \cup {r}
               /\ finalized' = finalized \cup {r}
            \/ /\ Moves(t, "notify") /\ Second[r] # None
               /\ Returns(t, loc) \/ Returns(t, submit)
               /\ done' = done \cup {r} /\ aborted' = aborted \cup {r} /\ UNCHANGED finalized
<1>1. UNCHANGED <<containers, mutex, scan, hand, processed, faults>>
  BY DEF Abort
<1>2. CASE r \in done \/ Delivering(r)
  BY <1>1, <1>2, MovesLemma DEF Abort
<1>3. CASE ~(r \in done \/ Delivering(r)) /\ Second[r] = None
  BY <1>1, <1>3, MovesLemma DEF Abort
<1>4. CASE ~(r \in done \/ Delivering(r)) /\ Second[r] # None
  <2>1. /\ pc' = [pc EXCEPT ![t] = "notify"]
        /\ ret' = [ret EXCEPT ![t] = IF r \in processed THEN loc ELSE submit]
        /\ done' = done \cup {r} /\ aborted' = aborted \cup {r} /\ UNCHANGED finalized
    BY <1>4 DEF Abort
  <2>2. Moves(t, "notify") /\ (Returns(t, loc) \/ Returns(t, submit))
    BY <2>1, MovesLemma, ReturnsLemma, SomeLocations
  <2> QED BY <1>1, <1>4, <2>1, <2>2
<1> QED BY <1>2, <1>3, <1>4

LEMMA TypeAbort ==
  ASSUME TypeInv, NEW t \in Aborters \cup Containers, NEW r \in Requests,
         NEW loc \in {"end", "drain"}, Abort(t, r, "resubmit", loc),
         t \in Aborters => r = Victim[t] /\ loc = "end",
         t \in Containers => taken[t] # <<>> /\ r = Head(taken[t]) /\ loc = "drain"
  PROVE  TypeInv'
<1>1. loc \in Locations /\ "resubmit" \in Locations /\ t \in Threads
  BY SomeLocations
<1>2. /\ UNCHANGED <<containers, mutex, scan, hand, processed, faults>>
      /\ aborted' = aborted \/ aborted' = aborted \cup {r}
  BY <1>1, AbortEffect
<1>3. DataOK'
  <2>1. done' \subseteq Requests /\ aborted' \subseteq done' /\ finalized' \subseteq aborted'
    BY <1>1, AbortEffect, Types
  <2> QED BY <1>2, <2>1 DEF TypeInv, DataOK
<1>4. OthersKept(t) /\ \A l : MutexMoves(t, l)
  BY <1>2 DEF OthersKept, MutexMoves
<1>5. CASE Moves(t, loc) /\ UNCHANGED ret
  <2>1. pc'[t] = loc /\ Loc(t)' = loc /\ ret'[t] = ret[t]
    BY <1>5 DEF Moves, Loc
  <2>2. ThreadOK(t)'
    BY <1>2, <2>1, OneKind, OwnTypes DEF AborterOK, DisablerOK
  <2> QED BY <1>1, <1>3, <1>4, <1>5, <2>2, StaysLemma, TypeMove
<1>6. ASSUME NEW l \in {loc, "resubmit"}, Moves(t, "notify"), Returns(t, l), Second[r] # None,
             aborted' = aborted \cup {r}
      PROVE  TypeInv'
  <2>1. pc'[t] = "notify" /\ Loc(t)' = l /\ ret'[t] = l
    BY <1>6 DEF Moves, Returns, Loc
  <2>2. ThreadOK(t)'
    BY <1>2, <1>6, <2>1, OneKind DEF AborterOK, DisablerOK
  <2> QED BY <1>1, <1>3, <1>4, <1>6, <2>2, TypeMove
<1> QED BY <1>1, <1>5, <1>6, AbortEffect

\* A consumer that goes to loc, with new locals, or finalizes or delivers a request.
LEMMA TypeConsumer ==
  ASSUME TypeInv, NEW t \in Consumers, NEW loc, Moves(t, loc), UNCHANGED ret,
         loc \in {"loop", "lock", "cond", "scan", "popped", "process", "deliver", "delivering",
                  "completing", "relock", "decide", "sleep", "asleep", "end"},
         OthersKept(t), MutexMoves(t, loc), DataOK', scan'[t].pos # 0,
         loc \in Handling => hand'[t] \in Requests
  PROVE  TypeInv'
<1>1. pc'[t] = loc /\ ret'[t] = ret[t] /\ ret[t] \in {"end", "relock", "thrown"}
  BY OwnTypes DEF Moves, ConsumerOK
<1>2. ThreadOK(t)'
  BY <1>1, OneKind DEF ConsumerOK
<1> QED BY <1>2, StaysLemma, TypeMove

\* A consumer that waits, sleeps, wakes up or chooses how to process its request.
LEMMA IdleEffect ==
  ASSUME TypeInv, NEW t \in Consumers,
         \/ Processing_loop(t) \/ Wait_done(t) \/ Wait_done_request(t) \/ SpuriousWakeup(t)
         \/ Decide(t) \/ Sleep(t) \/ Process_request(t)
  PROVE  /\ UNCHANGED <<containers, requests, ret, scan, hand, faults>>
         /\ \/ /\ pc[t] \in {"loop", "cond", "asleep"} /\ UNCHANGED mutex
               /\ \E loc \in {"end", "lock", "cond"} : Moves(t, loc)
            \/ pc[t] = "decide" /\ mutex' = None /\ Moves(t, "loop")
            \/ pc[t] = "decide" /\ UNCHANGED mutex /\ Moves(t, "sleep") /\ ~Satisfied(t)
            \/ pc[t] = "sleep" /\ mutex' = None /\ Moves(t, "asleep")
            \/ /\ pc[t] = "popped" /\ UNCHANGED mutex
               /\ \E loc \in {"process", "deliver"} : Moves(t, loc)
<1> USE SomeLocations, MovesLemma
<1>1. CASE Processing_loop(t)
  BY <1>1 DEF Processing_loop
<1>2. CASE Wait_done(t)
  BY <1>2 DEF Wait_done
<1>3. CASE Wait_done_request(t)
  BY <1>3 DEF Wait_done_request
<1>4. CASE SpuriousWakeup(t)
  BY <1>4 DEF SpuriousWakeup
<1>5. CASE Decide(t)
  BY <1>5 DEF Decide
<1>6. CASE Sleep(t)
  BY <1>6 DEF Sleep
<1>7. CASE Process_request(t)
  BY <1>7 DEF Process_request
<1> QED BY <1>1, <1>2, <1>3, <1>4, <1>5, <1>6, <1>7

LEMMA TypeIdle ==
  ASSUME TypeInv, NEW t \in Consumers,
         \/ Processing_loop(t) \/ Wait_done(t) \/ Wait_done_request(t) \/ SpuriousWakeup(t)
         \/ Decide(t) \/ Sleep(t) \/ Process_request(t)
  PROVE  TypeInv'
<1>1. UNCHANGED <<containers, requests, ret, scan, hand, faults>>
  BY IdleEffect
<1>2. /\ OthersKept(t) /\ DataOK' /\ scan'[t].pos # 0
      /\ pc[t] \in Handling => hand'[t] \in Requests
  BY <1>1, OwnTypes DEF OthersKept, TypeInv, DataOK, ConsumerOK
<1>3. \E loc \in {"end", "lock", "cond", "loop", "sleep", "asleep", "process", "deliver"} :
        /\ Moves(t, loc) /\ MutexMoves(t, loc)
        /\ loc \in Handling => pc[t] \in Handling
  <2>1. mutex = t <=> pc[t] \in InPredicate
    BY Types
  <2>2. CASE pc[t] \in {"loop", "cond", "asleep"}
    BY <2>2, IdleEffect DEF MutexMoves, InPredicate, Handling
  <2>3. CASE pc[t] = "decide"
    BY <2>1, <2>3, IdleEffect DEF MutexMoves, InPredicate, Handling
  <2>4. CASE pc[t] = "sleep"
    BY <2>1, <2>4, IdleEffect DEF MutexMoves, InPredicate, Handling
  <2>5. CASE pc[t] = "popped"
    BY <2>5, IdleEffect DEF MutexMoves, InPredicate, Handling
  <2> QED BY <2>2, <2>3, <2>4, <2>5, IdleEffect
<1> QED BY <1>1, <1>2, <1>3, TypeConsumer

\* The fields of a predicate's locals.
LEMMA ScanFields ==
  ASSUME NEW s \in Scan, s.pos # 0
  PROVE  /\ s.pos \in Nat /\ s.dis \in BOOLEAN
         /\ [s EXCEPT !.inside = TRUE] \in Scan /\ [s EXCEPT !.inside = TRUE].pos # 0
         /\ [s EXCEPT !.cur = TRUE] \in Scan /\ [s EXCEPT !.cur = TRUE].pos # 0
BY DEF Scan

\* The next container.
LEMMA NextFields ==
  ASSUME NEW s \in Scan, NEW b \in BOOLEAN, NEW n \in Nat, n # 0
  PROVE  /\ [s EXCEPT !.pos = n, !.inside = FALSE, !.dis = b] \in Scan
         /\ [s EXCEPT !.pos = n, !.inside = FALSE, !.dis = b].pos # 0
<1>1. [s EXCEPT !.pos = n, !.inside = FALSE, !.dis = b] \in Scan
  BY DEF Scan
<1>2. [s EXCEPT !.pos = n, !.inside = FALSE, !.dis = b].pos # 0
  BY DEF Scan
<1> QED BY <1>1, <1>2

\* The first round, and another one.
LEMMA RoundFields ==
  /\ NewScan \in Scan /\ NewScan.pos # 0
  /\ \A b \in BOOLEAN : /\ [NewScan EXCEPT !.num = TRUE, !.dis = b] \in Scan
                        /\ [NewScan EXCEPT !.num = TRUE, !.dis = b].pos # 0
<1>1. NewScan \in Scan /\ NewScan.pos # 0
  BY DEF Scan, NewScan
<1>2. ASSUME NEW b \in BOOLEAN
      PROVE  [NewScan EXCEPT !.num = TRUE, !.dis = b] \in Scan
  BY DEF Scan, NewScan
<1>3. ASSUME NEW b \in BOOLEAN
      PROVE  [NewScan EXCEPT !.num = TRUE, !.dis = b].pos # 0
  BY DEF Scan, NewScan
<1> QED BY <1>1, <1>2, <1>3

\* What a consumer does that goes through its containers: v is what becomes of its locals.
LEMMA ScanEffect ==
  ASSUME TypeInv, NEW t \in Consumers,
         Lock(t) \/ Relock(t) \/ NextContainer(t) \/ RoundEnds(t)
  PROVE  /\ UNCHANGED <<containers, requests, ret, faults>>
         /\ hand' = hand \/ hand' = [hand EXCEPT ![t] = None]
         /\ \E v \in Scan : v.pos # 0 /\ scan' = [scan EXCEPT ![t] = v]
         /\ \/ mutex = None /\ mutex' = t /\ Moves(t, "scan") /\ pc[t] \in {"lock", "relock"}
            \/ /\ pc[t] = "scan" /\ UNCHANGED mutex
               /\ Moves(t, "scan") \/ Moves(t, "decide")
<1>1. scan[t] \in Scan /\ scan[t].pos # 0 /\ scan \in [Consumers -> Scan]
  BY Types, OwnTypes DEF ConsumerOK
<1> USE SomeLocations, MovesLemma, StaysLemma
<1>2. CASE Lock(t)
  BY <1>2, RoundFields DEF Lock
<1>3. CASE Relock(t)
  BY <1>1, <1>3, ScanFields DEF Relock
<1>4. CASE NextContainer(t)
  <2> DEFINE v == [scan[t] EXCEPT !.pos = scan[t].pos + 1, !.inside = FALSE,
                                  !.dis = scan[t].dis \/ ~Inspects(t)]
  <2>1. /\ scan[t].pos + 1 \in Nat /\ scan[t].pos + 1 # 0
        /\ (scan[t].dis \/ ~Inspects(t)) \in BOOLEAN
    BY <1>1 DEF Scan
  <2>2. v \in Scan /\ v.pos # 0
    BY <1>1, <2>1, NextFields
  <2>3. scan' = [scan EXCEPT ![t] = v]
    BY <1>1, <1>4 DEF NextContainer
  <2> HIDE DEF v
  <2> QED BY <1>4, <2>2, <2>3 DEF NextContainer
<1>5. CASE RoundEnds(t) /\ scan[t].cur
  <2> DEFINE v == [NewScan EXCEPT !.num = TRUE, !.dis = scan[t].dis]
  <2>1. v \in Scan /\ v.pos # 0
    BY <1>1, ScanFields, RoundFields
  <2>2. scan' = [scan EXCEPT ![t] = v]
    BY <1>5 DEF RoundEnds
  <2> HIDE DEF v
  <2> QED BY <1>5, <2>1, <2>2 DEF RoundEnds
<1>6. CASE RoundEnds(t) /\ ~scan[t].cur
  <2>1. scan' = [scan EXCEPT ![t] = scan[t]]
    BY <1>1, <1>6 DEF RoundEnds
  <2> QED BY <1>1, <1>6, <2>1 DEF RoundEnds
<1> QED BY <1>2, <1>3, <1>4, <1>5, <1>6

LEMMA TypeScan ==
  ASSUME TypeInv, NEW t \in Consumers,
         Lock(t) \/ Relock(t) \/ NextContainer(t) \/ RoundEnds(t)
  PROVE  TypeInv'
<1>1. UNCHANGED <<containers, requests, ret, faults>>
  BY ScanEffect
<1>2. PICK v \in Scan : v.pos # 0 /\ scan' = [scan EXCEPT ![t] = v]
  BY ScanEffect
<1>3. /\ scan' \in [Consumers -> Scan] /\ scan'[t].pos # 0
      /\ \A u \in Consumers \ {t} : scan'[u] = scan[u]
  BY <1>2, Types
<1>4. /\ hand' \in [Consumers -> Requests \cup {None}]
      /\ \A u \in Consumers \ {t} : hand'[u] = hand[u]
  <2>1. hand' = hand \/ hand' = [hand EXCEPT ![t] = None]
    BY ScanEffect
  <2>2. hand \in [Consumers -> Requests \cup {None}]
    BY Types
  <2> QED BY <2>1, <2>2
<1>5. DataOK' /\ OthersKept(t)
  BY <1>1, <1>3, <1>4 DEF TypeInv, DataOK, OthersKept
<1>6. \E loc \in {"scan", "decide"} : Moves(t, loc) /\ MutexMoves(t, loc)
  BY ScanEffect DEF MutexMoves, InPredicate
<1> QED BY <1>1, <1>3, <1>5, <1>6, TypeConsumer DEF Handling

\* What Process_requests changes.
LEMMA PopEffect ==
  ASSUME TypeInv, NEW t \in Consumers, Process_requests(t)
  PROVE  /\ pc[t] = "scan" /\ mutex = t /\ mutex' = None /\ Moves(t, "popped")
         /\ UNCHANGED <<is_enabled, abort_ongoing, taken, requests, ret, faults>>
         /\ scan' \in [Consumers -> Scan] /\ scan'[t].pos # 0
         /\ \A u \in Consumers \ {t} : scan'[u] = scan[u]
         /\ \E c \in Containers :
              /\ request_queue[c] # <<>>
              /\ hand' = [hand EXCEPT ![t] = Head(request_queue[c])]
              /\ request_queue' = [request_queue EXCEPT ![c] = Tail(@)]
<1>1. /\ pc[t] = "scan" /\ mutex' = None /\ pc' = [pc EXCEPT ![t] = "popped"]
      /\ UNCHANGED <<is_enabled, abort_ongoing, taken, requests, ret, faults>>
      /\ scan' = [scan EXCEPT ![t] = [scan[t] EXCEPT !.inside = TRUE]]
  BY DEF Process_requests
<1>2. mutex = t /\ Moves(t, "popped")
  BY <1>1, Types, MovesLemma, SomeLocations DEF InPredicate
<1>3. scan[t] \in Scan /\ scan[t].pos # 0 /\ scan \in [Consumers -> Scan]
  BY Types, OwnTypes DEF ConsumerOK
<1>4. [scan[t] EXCEPT !.inside = TRUE] \in Scan /\ [scan[t] EXCEPT !.inside = TRUE].pos # 0
  BY <1>3, ScanFields
<1>5. /\ scan' \in [Consumers -> Scan] /\ scan'[t].pos # 0
      /\ \A u \in Consumers \ {t} : scan'[u] = scan[u]
  BY <1>1, <1>3, <1>4
<1>6. /\ Container(t) \in Containers /\ request_queue[Container(t)] # <<>>
      /\ hand' = [hand EXCEPT ![t] = Head(request_queue[Container(t)])]
      /\ request_queue' = [request_queue EXCEPT ![Container(t)] = Tail(@)]
  BY ContainerType DEF Process_requests
<1> QED BY <1>1, <1>2, <1>5, <1>6

LEMMA TypePop ==
  ASSUME TypeInv, NEW t \in Consumers, Process_requests(t)
  PROVE  TypeInv'
<1>1. PICK c \in Containers :
        /\ request_queue[c] # <<>>
        /\ hand' = [hand EXCEPT ![t] = Head(request_queue[c])]
        /\ request_queue' = [request_queue EXCEPT ![c] = Tail(@)]
  BY PopEffect
<1>2. /\ request_queue \in [Containers -> Seq(Requests)] /\ request_queue[c] \in Seq(Requests)
      /\ hand \in [Consumers -> Requests \cup {None}]
  BY Types
<1>3. Head(request_queue[c]) \in Requests /\ Tail(request_queue[c]) \in Seq(Requests)
  BY <1>1, <1>2
<1>4. /\ request_queue' \in [Containers -> Seq(Requests)]
      /\ hand' \in [Consumers -> Requests \cup {None}] /\ hand'[t] \in Requests
      /\ \A u \in Consumers \ {t} : hand'[u] = hand[u]
  BY <1>1, <1>2, <1>3
<1>5. DataOK' /\ OthersKept(t) /\ MutexMoves(t, "popped")
  BY <1>4, PopEffect, Types DEF DataOK, OthersKept, MutexMoves, InPredicate
<1> QED BY <1>4, <1>5, PopEffect, TypeConsumer

\* What the parts of Process() change.
LEMMA ProcessEffect ==
  ASSUME TypeInv, NEW t \in Consumers,
         Process(t) \/ Process_notification(t) \/ Deliver(t)
  PROVE  /\ UNCHANGED <<containers, mutex, scan, hand, processed, aborted, faults>>
         /\ hand[t] \in Requests /\ pc[t] \in {"process", "deliver", "delivering"}
         /\ \/ /\ UNCHANGED <<ret, done>>
               /\ \E loc \in {"relock", "completing", "delivering"} : Moves(t, loc)
               /\ finalized' = finalized \cup ({hand[t]} \cap aborted) \/ UNCHANGED finalized
            \/ /\ UNCHANGED <<ret, done, finalized>> /\ hand[t] \notin aborted
               /\ pc' = [pc EXCEPT ![t] = "relock", ![hand[t]] = "complete"]
            \/ /\ Moves(t, "notify") /\ Returns(t, "relock") /\ UNCHANGED finalized
               /\ done' = done \cup {hand[t]}
<1>1. hand[t] \in Requests /\ pc[t] \in {"process", "deliver", "delivering"}
  BY OwnTypes DEF ConsumerOK, Handling, Process, Process_notification, Deliver
<1> USE SomeLocations, MovesLemma
<1>2. CASE Process(t)
  BY <1>1, <1>2 DEF Process
<1>3. CASE Process_notification(t)
  BY <1>1, <1>3 DEF Process_notification
<1>4. CASE Deliver(t)
  BY <1>1, <1>4, ReturnsLemma DEF Deliver
<1> QED BY <1>2, <1>3, <1>4

\* The processing handler leaves Complete() for later.
LEMMA LaterMoves ==
  ASSUME TypeInv, NEW t \in Consumers, NEW r \in Requests,
         pc' = [pc EXCEPT ![t] = "relock", ![r] = "complete"]
  PROVE  /\ pc' \in [Threads -> Locations] /\ pc'[t] = "relock" /\ pc'[r] = "complete"
         /\ \A s \in Threads \ {t, r} : pc'[s] = pc[s]
<1>1. pc \in [Threads -> Locations] /\ t \in Threads /\ r \in Threads /\ t # r
  BY DEF TypeInv, PlacesOK
<1>2. "relock" \in Locations /\ "complete" \in Locations
  BY SomeLocations
<1> QED BY <1>1, <1>2

LEMMA TypeProcess ==
  ASSUME TypeInv, NEW t \in Consumers,
         Process(t) \/ Process_notification(t) \/ Deliver(t)
  PROVE  TypeInv'
<1>1. /\ UNCHANGED <<containers, mutex, scan, hand, processed, aborted, faults>>
      /\ hand[t] \in Requests /\ pc[t] \notin InPredicate /\ pc[t] \in Handling
  BY ProcessEffect DEF InPredicate, Handling
<1>2. done \subseteq done' /\ done' \subseteq Requests /\ finalized' \subseteq aborted
  BY <1>1, ProcessEffect, Types
<1>3. DataOK' /\ OthersKept(t) /\ scan'[t].pos # 0
  BY <1>1, <1>2, OwnTypes DEF TypeInv, DataOK, OthersKept, ConsumerOK
<1>4. ASSUME NEW loc \in {"relock", "completing", "delivering"}, Moves(t, loc), UNCHANGED ret
      PROVE  TypeInv'
  BY <1>1, <1>3, <1>4, TypeConsumer DEF MutexMoves, InPredicate
<1>5. CASE UNCHANGED ret /\ pc' = [pc EXCEPT ![t] = "relock", ![hand[t]] = "complete"]
  <2>1. PICK r \in Requests : r = hand[t]
    BY <1>1
  <2>2. /\ pc' \in [Threads -> Locations] /\ pc'[t] = "relock" /\ pc'[r] = "complete"
        /\ \A s \in Threads \ {t, r} : pc'[s] = pc[s]
    BY <1>5, <2>1, LaterMoves
  <2>3. PlacesOK' /\ MutexOK'
    BY <1>1, <1>5, <2>2 DEF TypeInv, PlacesOK, MutexOK, InPredicate
  <2>4. ASSUME NEW s \in Threads PROVE ThreadOK(s)'
    <3>1. UNCHANGED <<taken, aborted, scan, hand, ret>>
      BY <1>1, <1>5
    <3>2. CASE s = t
      BY <2>2, <3>1, <3>2, OneKind, OwnTypes DEF ConsumerOK, Handling
    <3>3. CASE s = r
      BY <2>2, <3>1, <3>3, OneKind, OwnTypes DEF UserOK
    <3>4. CASE s \notin {t, r}
      BY <2>2, <3>1, <3>4 DEF TypeInv, ThreadOK, UserOK, AborterOK, ConsumerOK, DisablerOK, Loc
    <3> QED BY <3>2, <3>3, <3>4
  <2> QED BY <1>3, <2>3, <2>4 DEF TypeInv
<1>6. CASE Moves(t, "notify") /\ Returns(t, "relock")
  <2>1. pc'[t] = "notify" /\ ret'[t] = "relock"
    BY <1>6 DEF Moves, Returns
  <2>2. ThreadOK(t)'
    BY <1>3, <2>1, OneKind DEF ConsumerOK, Handling
  <2>3. MutexMoves(t, "notify")
    BY <1>1 DEF MutexMoves, InPredicate
  <2> QED BY <1>3, <1>6, <2>2, <2>3, TypeMove
<1> QED BY <1>4, <1>5, <1>6, ProcessEffect

\* What Enable changes.
LEMMA EnableEffect ==
  ASSUME TypeInv, NEW c \in Containers, Enable(c)
  PROVE  /\ pc[c] = "off" /\ is_enabled' = [is_enabled EXCEPT ![c] = TRUE]
         /\ UNCHANGED <<request_queue, abort_ongoing, taken, requests, mutex, ret, scan, hand,
                        faults>>
         /\ pc' \in [Threads -> Locations] /\ pc'[c] = "start"
         /\ \A t \in Threads \ {c} : \/ pc'[t] = pc[t]
                                     \/ t \in Consumers /\ pc[t] = "off" /\ pc'[t] = "loop"
<1>1. /\ pc[c] = "off" /\ is_enabled' = [is_enabled EXCEPT ![c] = TRUE]
      /\ UNCHANGED <<request_queue, abort_ongoing, taken, requests, mutex, ret, scan, hand,
                     faults>>
  BY DEF Enable
<1>2. pc' = [t \in Threads |->
              IF t = c THEN "start"
              ELSE IF t \in Consumers /\ pc[t] = "off" /\ (Own[t] = c \/ Own[t] = None)
              THEN "loop" ELSE pc[t]]
  BY DEF Enable
<1>3. pc \in [Threads -> Locations] /\ "start" \in Locations /\ "loop" \in Locations
  BY SomeLocations DEF TypeInv, PlacesOK
<1>4. pc' \in [Threads -> Locations] /\ pc'[c] = "start"
  BY <1>2, <1>3
<1>5. ASSUME NEW t \in Threads \ {c}
      PROVE  pc'[t] = pc[t] \/ (t \in Consumers /\ pc[t] = "off" /\ pc'[t] = "loop")
  <2>1. pc'[t] = IF t \in Consumers /\ pc[t] = "off" /\ (Own[t] = c \/ Own[t] = None)
                 THEN "loop" ELSE pc[t]
    BY <1>2
  <2> QED BY <2>1
<1> QED BY <1>1, <1>4, <1>5

LEMMA TypeEnable ==
  ASSUME TypeInv, NEW c \in Containers, Enable(c)
  PROVE  TypeInv'
<1>1. DataOK'
  <2>1. is_enabled' = [is_enabled EXCEPT ![c] = TRUE]
    BY EnableEffect
  <2>2. is_enabled' \in [Containers -> BOOLEAN]
    BY <2>1, Types
  <2> QED BY <2>2, EnableEffect DEF TypeInv, DataOK
<1>2. PlacesOK' /\ MutexOK'
  BY EnableEffect DEF TypeInv, PlacesOK, MutexOK, InPredicate
<1>3. ASSUME NEW s \in Threads PROVE ThreadOK(s)'
  <2>1. /\ UNCHANGED <<taken, aborted, scan, hand, ret>>
        /\ \/ pc'[s] = pc[s]
           \/ s = c /\ pc'[s] = "start"
           \/ s \in Consumers /\ pc'[s] = "loop"
    BY EnableEffect
  <2>2. CASE s \in Requests
    BY <2>1, <2>2, OwnTypes, OneKind DEF UserOK
  <2>3. CASE s \in Aborters
    BY <2>1, <2>3, OwnTypes, OneKind DEF AborterOK, Loc
  <2>4. CASE s \in Consumers
    BY <2>1, <2>4, OwnTypes, OneKind DEF ConsumerOK, Handling
  <2>5. CASE s \in Containers
    BY <2>1, <2>5, OwnTypes, OneKind DEF DisablerOK, Loc
  <2> QED BY <2>2, <2>3, <2>4, <2>5
<1> QED BY <1>1, <1>2, <1>3 DEF TypeInv

\* The thread that disables container c, outside Abort_requests().
LEMMA DisableEffect ==
  ASSUME TypeInv, NEW c \in Containers,
         Disable(c) \/ Set_disabled(c) \/ Join(c) \/ Disable_ends(c)
  PROVE  /\ UNCHANGED <<request_queue, abort_ongoing, taken, requests, mutex, scan, hand>>
         /\ is_enabled' \in [Containers -> BOOLEAN] /\ faults' \subseteq Faults
         /\ \A d \in Containers \ {c} : is_enabled'[d] = is_enabled[d]
         /\ \/ pc[c] = "start" /\ Moves(c, "notify") /\ Returns(c, "disable")
               /\ UNCHANGED is_enabled
            \/ pc[c] = "disable" /\ Moves(c, "notify") /\ Returns(c, "join")
               /\ ~is_enabled'[c] /\ mutex = None
            \/ pc[c] = "join" /\ Moves(c, "abort") /\ UNCHANGED <<ret, is_enabled>>
            \/ pc[c] = "finish" /\ Moves(c, "end") /\ UNCHANGED <<ret, is_enabled>>
<1>1. is_enabled \in [Containers -> BOOLEAN] /\ faults \subseteq Faults
  BY Types
<1> USE SomeLocations, MovesLemma, ReturnsLemma
<1>2. CASE Disable(c)
  BY <1>1, <1>2 DEF Disable
<1>3. CASE Set_disabled(c)
  BY <1>1, <1>3 DEF Set_disabled
<1>4. CASE Join(c)
  BY <1>1, <1>4 DEF Join
<1>5. CASE Disable_ends(c)
  BY <1>1, <1>5 DEF Disable_ends, Faults
<1> QED BY <1>2, <1>3, <1>4, <1>5

LEMMA TypeDisable ==
  ASSUME TypeInv, NEW c \in Containers,
         Disable(c) \/ Set_disabled(c) \/ Join(c) \/ Disable_ends(c)
  PROVE  TypeInv'
<1>1. DataOK' /\ OthersKept(c) /\ \A loc : MutexMoves(c, loc)
  BY DisableEffect DEF TypeInv, DataOK, OthersKept, MutexMoves
<1>2. CASE \E l \in {"disable", "join"} : Moves(c, "notify") /\ Returns(c, l)
  <2>1. PICK l \in {"disable", "join"} : Moves(c, "notify") /\ Returns(c, l)
    BY <1>2
  <2>2. pc'[c] = "notify" /\ ret'[c] = l /\ Loc(c)' = l
    BY <2>1 DEF Moves, Returns, Loc
  <2>3. ThreadOK(c)'
    BY <2>2, OneKind DEF DisablerOK
  <2> QED BY <1>1, <2>1, <2>3, TypeMove
<1>3. CASE \E loc \in {"abort", "end"} : Moves(c, loc) /\ UNCHANGED ret
  <2>1. PICK loc \in {"abort", "end"} : Moves(c, loc) /\ UNCHANGED ret
    BY <1>3
  <2>2. pc'[c] = loc /\ Loc(c)' = loc
    BY <2>1 DEF Moves, Loc
  <2>3. ThreadOK(c)'
    BY <2>2, OneKind DEF DisablerOK
  <2> QED BY <1>1, <2>1, <2>3, StaysLemma, TypeMove
<1> QED BY <1>2, <1>3, DisableEffect

\* A round of Abort_requests() starts, or Abort_requests() ends.
LEMMA RoundEffect ==
  ASSUME TypeInv, NEW c \in Containers, Abort_requests(c) \/ Abort_round(c)
  PROVE  /\ UNCHANGED <<is_enabled, requests, mutex, ret, scan, hand>> /\ mutex = None
         /\ pc[c] \in {"abort", "aborting"} /\ faults' \subseteq Faults
         /\ request_queue' \in [Containers -> Seq(Requests)]
         /\ taken' \in [Containers -> Seq(Requests)]
         /\ abort_ongoing' \in [Containers -> BOOLEAN]
         /\ \A d \in Containers \ {c} :
              /\ request_queue'[d] = request_queue[d] /\ taken'[d] = taken[d]
              /\ abort_ongoing'[d] = abort_ongoing[d]
         /\ \/ /\ Moves(c, "aborting") /\ request_queue'[c] = <<>>
               /\ taken'[c] = request_queue[c]
            \/ /\ Moves(c, "finish") /\ UNCHANGED <<request_queue, taken>> /\ ~abort_ongoing'[c]
               /\ \A i \in DOMAIN request_queue[c] : request_queue[c][i] \in finalized
<1>1. /\ UNCHANGED <<is_enabled, requests, mutex, ret, scan, hand>> /\ mutex = None
      /\ pc[c] \in {"abort", "aborting"}
  BY DEF Abort_requests, Abort_round
<1>2. faults' \subseteq Faults
  <2>1. faults' = faults \/ faults' = faults \cup {"abort_generated"}
    BY DEF Abort_requests, Abort_round
  <2> QED BY <2>1, Types DEF Faults
<1>3. \/ TakeQueue(c)
      \/ AbortEnds(c) /\ \A i \in DOMAIN request_queue[c] : request_queue[c][i] \in finalized
  BY DEF Abort_requests, Abort_round
<1>4. /\ request_queue \in [Containers -> Seq(Requests)] /\ taken \in [Containers -> Seq(Requests)]
      /\ abort_ongoing \in [Containers -> BOOLEAN] /\ <<>> \in Seq(Requests)
      /\ request_queue[c] \in Seq(Requests)
  BY Types
<1>5. CASE TakeQueue(c)
  <2>1. /\ taken' = [taken EXCEPT ![c] = request_queue[c]]
        /\ request_queue' = [request_queue EXCEPT ![c] = <<>>]
        /\ abort_ongoing' = [abort_ongoing EXCEPT ![c] = TRUE]
        /\ Moves(c, "aborting")
    BY <1>5, MovesLemma, SomeLocations DEF TakeQueue
  <2>2. request_queue' \in [Containers -> Seq(Requests)] /\ taken' \in [Containers -> Seq(Requests)]
    BY <1>4, <2>1
  <2>3. request_queue'[c] = <<>> /\ taken'[c] = request_queue[c]
    BY <1>4, <2>1
  <2>4. \A d \in Containers \ {c} : /\ request_queue'[d] = request_queue[d] /\ taken'[d] = taken[d]
                                    /\ abort_ongoing'[d] = abort_ongoing[d]
    BY <1>4, <2>1
  <2>5. abort_ongoing' \in [Containers -> BOOLEAN]
    BY <1>4, <2>1
  <2> QED BY <1>1, <1>2, <2>1, <2>2, <2>3, <2>4, <2>5
<1>6. CASE AbortEnds(c) /\ \A i \in DOMAIN request_queue[c] : request_queue[c][i] \in finalized
  <2>1. /\ abort_ongoing' = [abort_ongoing EXCEPT ![c] = FALSE] /\ UNCHANGED <<taken, request_queue>>
        /\ Moves(c, "finish")
    BY <1>6, MovesLemma, SomeLocations DEF AbortEnds
  <2>2. /\ abort_ongoing' \in [Containers -> BOOLEAN] /\ ~abort_ongoing'[c]
        /\ \A d \in Containers \ {c} : abort_ongoing'[d] = abort_ongoing[d]
    BY <1>4, <2>1
  <2> QED BY <1>1, <1>2, <1>4, <1>6, <2>1, <2>2
<1> QED BY <1>3, <1>5, <1>6

LEMMA TypeRound ==
  ASSUME TypeInv, NEW c \in Containers, Abort_requests(c) \/ Abort_round(c)
  PROVE  TypeInv'
<1>1. DataOK'
  BY RoundEffect, Types DEF DataOK
<1>2. OthersKept(c) /\ UNCHANGED ret /\ \A loc : MutexMoves(c, loc)
  BY RoundEffect DEF OthersKept, MutexMoves
<1>3. PICK loc \in {"aborting", "finish"} : Moves(c, loc)
  BY RoundEffect
<1>4. pc'[c] = loc /\ Loc(c)' = loc
  BY <1>3 DEF Moves, Loc
<1>5. ThreadOK(c)'
  BY <1>4, OneKind DEF DisablerOK
<1> QED BY <1>1, <1>2, <1>3, <1>5, StaysLemma, TypeMove

\* The first request that Abort_requests() has moved out.
LEMMA TakenHead ==
  ASSUME TypeInv, NEW c \in Containers, taken[c] # <<>>
  PROVE  Head(taken[c]) \in Requests /\ Tail(taken[c]) \in Seq(Requests)
<1>1. taken[c] \in Seq(Requests)
  BY Types
<1> QED BY <1>1

\* Process(false) of a request that has been moved out.
LEMMA DrainEffect ==
  ASSUME TypeInv, NEW c \in Containers, Drain(c)
  PROVE  /\ pc[c] = "drain" /\ taken[c] # <<>> /\ Moves(c, "aborting")
         /\ taken' = [taken EXCEPT ![c] = Tail(@)] /\ taken' \in [Containers -> Seq(Requests)]
         /\ \A d \in Containers \ {c} : taken'[d] = taken[d]
         /\ finalized \subseteq finalized' /\ finalized' \subseteq aborted
         /\ UNCHANGED <<request_queue, is_enabled, abort_ongoing, mutex, ret, scan, hand,
                        processed, done, aborted, faults>>
<1>1. /\ pc[c] = "drain" /\ taken' = [taken EXCEPT ![c] = Tail(@)]
      /\ finalized' = finalized \cup ({Head(taken[c])} \cap aborted)
      /\ pc' = [pc EXCEPT ![c] = "aborting"]
      /\ UNCHANGED <<request_queue, is_enabled, abort_ongoing, mutex, ret, scan, hand,
                     processed, done, aborted, faults>>
  BY DEF Drain
<1>2. taken[c] # <<>>
  BY <1>1, OwnTypes DEF DisablerOK, Loc
<1>3. taken \in [Containers -> Seq(Requests)] /\ Tail(taken[c]) \in Seq(Requests)
  BY <1>2, TakenHead, Types
<1>4. taken' \in [Containers -> Seq(Requests)] /\ \A d \in Containers \ {c} : taken'[d] = taken[d]
  BY <1>1, <1>3
<1>5. Moves(c, "aborting")
  BY <1>1, MovesLemma, SomeLocations
<1>6. finalized \subseteq finalized' /\ finalized' \subseteq aborted
  BY <1>1, Types
<1> QED BY <1>1, <1>2, <1>4, <1>5, <1>6

LEMMA TypeDrain ==
  ASSUME TypeInv, NEW c \in Containers, Drain(c)
  PROVE  TypeInv'
<1>1. DataOK'
  BY DrainEffect, Types DEF DataOK
<1>2. OthersKept(c) /\ UNCHANGED ret /\ MutexMoves(c, "aborting") /\ Moves(c, "aborting")
  BY DrainEffect DEF OthersKept, MutexMoves
<1>3. pc'[c] = "aborting" /\ Loc(c)' = "aborting"
  BY <1>2 DEF Moves, Loc
<1>4. ThreadOK(c)'
  BY <1>3, OneKind DEF DisablerOK
<1> QED BY <1>1, <1>2, <1>4, StaysLemma, TypeMove

\* What each thread submits, aborts and completes.
LEMMA UserSteps ==
  ASSUME TypeInv, NEW r \in Requests, UserStep(r)
  PROVE  \/ Notify(r)
         \/ pc[r] = "start" /\ Submit(r, r, First[r], "end") /\ UNCHANGED requests
            /\ First[r] \in Containers
         \/ pc[r] = "complete" /\ Complete(r, r, "end")
         \/ pc[r] = "submitting" /\ Submit(r, r, Second[r], "end") /\ UNCHANGED requests
            /\ Second[r] \in Containers
<1>1. pc[r] = "submitting" => Second[r] \in Containers
  BY OwnTypes, RouteAssumption DEF UserOK
<1> QED BY <1>1, RouteAssumption DEF UserStep, Submit_request, Complete_later, Complete_submits

LEMMA AborterSteps ==
  ASSUME TypeInv, NEW a \in Aborters, AborterStep(a)
  PROVE  /\ Victim[a] \in Requests
         /\ \/ Notify(a)
            \/ pc[a] = "start" /\ Abort(a, Victim[a], "resubmit", "end")
            \/ /\ pc[a] = "resubmit" /\ Submit(a, Victim[a], Second[Victim[a]], "end")
               /\ UNCHANGED requests
               /\ Victim[a] \in aborted /\ Second[Victim[a]] \in Containers
<1>1. Victim[a] \in Requests
  BY RouteAssumption
<1>2. pc[a] = "resubmit" => Victim[a] \in aborted /\ Second[Victim[a]] \in Containers
  BY <1>1, OwnTypes, RouteAssumption DEF AborterOK, Loc
<1> QED BY <1>1, <1>2 DEF AborterStep, Abort_request, Abort_submits

LEMMA HandSteps ==
  ASSUME TypeInv, NEW t \in Consumers,
         Complete_now(t) \/ Complete_submits(t, hand[t], "relock")
  PROVE  /\ hand[t] \in Requests /\ pc[t] \in Handling /\ pc[t] \notin InPredicate
         /\ \/ Complete(t, hand[t], "relock")
            \/ /\ Submit(t, hand[t], Second[hand[t]], "relock") /\ UNCHANGED requests
               /\ Second[hand[t]] \in Containers
<1>1. pc[t] \in {"completing", "submitting"} => hand[t] \in Requests
  BY OwnTypes DEF ConsumerOK, Handling
<1>2. pc[t] = "submitting" => Second[hand[t]] \in Containers
  BY <1>1, OwnTypes, RouteAssumption DEF ConsumerOK
<1> QED BY <1>1, <1>2 DEF Complete_now, Complete_submits, Handling, InPredicate

LEMMA TakenSteps ==
  ASSUME TypeInv, NEW c \in Containers,
         Abort_taken(c) \/ Abort_submits(c, Head(taken[c]), "drain")
  PROVE  /\ taken[c] # <<>> /\ Head(taken[c]) \in Requests
         /\ \/ pc[c] = "aborting" /\ Abort(c, Head(taken[c]), "resubmit", "drain")
            \/ /\ pc[c] = "resubmit"
               /\ Submit(c, Head(taken[c]), Second[Head(taken[c])], "drain")
               /\ UNCHANGED requests
               /\ Head(taken[c]) \in aborted /\ Second[Head(taken[c])] \in Containers
<1>1. pc[c] = "resubmit" => /\ taken[c] # <<>> /\ Head(taken[c]) \in aborted
                            /\ Second[Head(taken[c])] # None
  BY OwnTypes DEF DisablerOK, Loc
<1>2. taken[c] # <<>>
  BY <1>1 DEF Abort_taken, Abort_submits
<1>3. Head(taken[c]) \in Requests
  BY <1>2, TakenHead
<1>4. pc[c] = "resubmit" => Second[Head(taken[c])] \in Containers
  BY <1>1, <1>3, RouteAssumption
<1> QED BY <1>1, <1>2, <1>3, <1>4 DEF Abort_taken, Abort_submits

\* Every step keeps the types.
LEMMA TypeNext ==
  ASSUME TypeInv, [Next]_vars
  PROVE  TypeInv'
<1>1. CASE UNCHANGED vars
  BY <1>1 DEF vars, TypeInv, DataOK, PlacesOK, MutexOK, ThreadOK, UserOK, AborterOK,
              ConsumerOK, DisablerOK, Loc
<1>2. ASSUME NEW r \in Requests, UserStep(r) PROVE TypeInv'
  BY <1>2, UserSteps, TypeNotify, TypeSubmit, TypeComplete
<1>3. ASSUME NEW a \in Aborters, AborterStep(a) PROVE TypeInv'
  BY <1>3, AborterSteps, TypeNotify, TypeSubmit, TypeAbort
<1>4. ASSUME NEW t \in Consumers, ConsumerStep(t) \/ SpuriousWakeup(t) PROVE TypeInv'
  <2>1. CASE Complete_now(t) \/ Complete_submits(t, hand[t], "relock")
    BY <2>1, HandSteps, TypeComplete, TypeSubmit
  <2> QED BY <1>4, <2>1, TypeNotify, TypeIdle, TypeScan, TypePop, TypeProcess DEF ConsumerStep
<1>5. ASSUME NEW c \in Containers, Enable(c) \/ Disable(c) \/ DisableStep(c) PROVE TypeInv'
  <2>1. CASE Abort_taken(c) \/ Abort_submits(c, Head(taken[c]), "drain")
    BY <2>1, TakenSteps, TypeAbort, TypeSubmit
  <2> QED BY <1>5, <2>1, TypeNotify, TypeEnable, TypeDisable, TypeRound, TypeDrain
          DEF DisableStep
<1> QED BY <1>1, <1>2, <1>3, <1>4, <1>5 DEF Next

-----------------------------------------------------------------------------
(* One place at a time.                                                    *)

\* Sequence s holds r, and no more than once.
Has(s, r) == \E i \in DOMAIN s : s[i] = r

Once(s, r) == \A i, j \in DOMAIN s : s[i] = r /\ s[j] = r => i = j

InQueue(r, c) == Has(request_queue[c], r)

InTaken(r, c) == Has(taken[c], r)

WithUser == {"start", "complete", "submitting"}

\* Request r is in the queue of x, in the requests_copy of x, in the hands of consumer x,
\* or with its user x.
At(r, k, x) ==
  \/ k = "queue" /\ x \in Containers /\ InQueue(r, x)
  \/ k = "taken" /\ x \in Containers /\ InTaken(r, x)
  \/ k = "hand" /\ x \in Consumers /\ hand[x] = r /\ pc[x] \in Handling
  \/ k = "user" /\ x = r /\ pc[r] \in WithUser

\* A request that is not aborted is in one place, and there once.
PlaceInv ==
  \A r \in Requests \ aborted :
     /\ \A k, x, l, y : At(r, k, x) /\ At(r, l, y) => k = l /\ x = y
     /\ \A c \in Containers : Once(request_queue[c], r) /\ Once(taken[c], r)

\* Sequences that grow and shrink.
LEMMA HasAppend ==
  ASSUME NEW s \in Seq(Requests), NEW x \in Requests, NEW r
  PROVE  /\ Has(Append(s, x), r) => Has(s, r) \/ r = x
         /\ Once(s, r) /\ ~(r = x /\ Has(s, r)) => Once(Append(s, x), r)
<1>1. /\ DOMAIN Append(s, x) = DOMAIN s \cup {Len(s) + 1}
      /\ Len(s) + 1 \notin DOMAIN s
      /\ \A i \in DOMAIN s : Append(s, x)[i] = s[i]
      /\ Append(s, x)[Len(s) + 1] = x
  OBVIOUS
<1> QED BY <1>1 DEF Has, Once

LEMMA HasTail ==
  ASSUME NEW s \in Seq(Requests), s # <<>>, NEW r
  PROVE  /\ Head(s) \in Requests /\ Tail(s) \in Seq(Requests) /\ Has(s, Head(s))
         /\ Has(Tail(s), r) => Has(s, r)
         /\ Once(s, r) => Once(Tail(s), r) /\ ~(r = Head(s) /\ Has(Tail(s), r))
<1>1. /\ Head(s) \in Requests /\ Tail(s) \in Seq(Requests)
      /\ 1 \in DOMAIN s /\ s[1] = Head(s)
      /\ \A i \in DOMAIN Tail(s) : i \in Nat /\ i + 1 \in DOMAIN s /\ i + 1 # 1 /\ Tail(s)[i] = s[i + 1]
  OBVIOUS
<1> QED BY <1>1 DEF Has, Once

LEMMA HasEmpty == \A r : ~Has(<<>>, r) /\ Once(<<>>, r)
BY DEF Has, Once

\* Nothing is brought to request q, as far as that matters.
Kept(q) == /\ q \notin aborted
           /\ \A k, x : At(q, k, x)' => At(q, k, x)
           /\ \A c \in Containers : /\ Once(request_queue[c], q) => Once(request_queue'[c], q)
                                    /\ Once(taken[c], q) => Once(taken'[c], q)

\* Request q is brought to one place, and is nowhere else.
Brought(q, k1, x1) ==
  /\ q \notin aborted
  /\ \A k, x : At(q, k, x)' => k = k1 /\ x = x1
  /\ \A c \in Containers : Once(request_queue'[c], q) /\ Once(taken'[c], q)

LEMMA PlaceMove ==
  ASSUME PlaceInv,
         \A q \in Requests \ aborted' : Kept(q) \/ \E k, x : Brought(q, k, x)
  PROVE  PlaceInv'
<1> SUFFICES ASSUME NEW q \in Requests \ aborted'
             PROVE  /\ \A k, x, l, y : At(q, k, x)' /\ At(q, l, y)' => k = l /\ x = y
                    /\ \A c \in Containers : Once(request_queue'[c], q) /\ Once(taken'[c], q)
  BY DEF PlaceInv
<1>1. CASE Kept(q)
  BY <1>1 DEF PlaceInv, Kept
<1>2. CASE \E k, x : Brought(q, k, x)
  BY <1>2 DEF Brought
<1> QED BY <1>1, <1>2

\* A step that leaves the queues alone and pops nothing.
LEMMA StillPlaces ==
  ASSUME PlaceInv, UNCHANGED <<request_queue, taken>>, aborted \subseteq aborted',
         \A t \in Consumers : pc'[t] \in Handling => pc[t] \in Handling /\ hand'[t] = hand[t],
         \A r \in Requests : pc'[r] \in WithUser => pc[r] \in WithUser
  PROVE  PlaceInv'
<1>1. ASSUME NEW q \in Requests \ aborted' PROVE Kept(q)
  <2>1. \A k, x : At(q, k, x)' => At(q, k, x)
    BY DEF At, InQueue, InTaken
  <2> QED BY <2>1 DEF Kept
<1> QED BY <1>1, PlaceMove

\* Submit brings r into the queue of c, from the hands of the thread unless r is aborted.
LEMMA SubmitPlaces ==
  ASSUME TypeInv, PlaceInv, NEW t \in Threads, NEW r \in Requests, NEW c \in Containers,
         NEW loc \in {"end", "relock", "drain"}, Submit(t, r, c, loc), UNCHANGED aborted,
         \/ r \in aborted
         \/ t = r /\ pc[t] \in WithUser
         \/ t \in Consumers /\ hand[t] = r /\ pc[t] \in Handling
  PROVE  PlaceInv'
<1>0. loc \in Locations
  BY SomeLocations
<1>1. UNCHANGED <<taken, hand>> /\ Moves(t, "notify")
  BY <1>0, SubmitEffect
<1>2. \/ request_queue' = [request_queue EXCEPT ![c] = Append(@, r)]
      \/ request_queue' = request_queue
  BY <1>0, SubmitEffect
<1>3. request_queue \in [Containers -> Seq(Requests)] /\ request_queue[c] \in Seq(Requests)
  BY Types
<1>4. \A d \in Containers : \/ request_queue'[d] = request_queue[d]
                            \/ d = c /\ request_queue'[d] = Append(request_queue[c], r)
  BY <1>2, <1>3
<1>5. pc'[t] = "notify" /\ \A s \in Threads \ {t} : pc'[s] = pc[s]
  BY <1>1 DEF Moves
<1>6. ASSUME NEW q \in Requests \ aborted, q # r PROVE Kept(q)
  <2>1. /\ Has(Append(request_queue[c], r), q) => Has(request_queue[c], q)
        /\ Once(request_queue[c], q) => Once(Append(request_queue[c], r), q)
    BY <1>3, <1>6, HasAppend, Zenon
  <2>2. \A k, x : At(q, k, x)' => At(q, k, x)
    BY <1>1, <1>4, <1>5, <2>1 DEF At, InQueue, InTaken, Handling, WithUser
  <2>3. \A d \in Containers : Once(request_queue[d], q) => Once(request_queue'[d], q)
    BY <1>4, <2>1
  <2> QED BY <1>1, <2>2, <2>3 DEF Kept
<1>7. CASE r \notin aborted
  <2>1. PICK k0 \in {"user", "hand"} : At(r, k0, t) /\ ~At(r, k0, t)'
    BY <1>5, <1>7 DEF At, Handling, WithUser
  <2>2. \A k, x : At(r, k, x) => k = k0 /\ x = t
    BY <1>7, <2>1 DEF PlaceInv
  <2>3. \A d \in Containers : ~InQueue(r, d) /\ ~InTaken(r, d)
    BY <2>1, <2>2 DEF At
  <2>4. Once(Append(request_queue[c], r), r)
    <3>1. Once(request_queue[c], r) /\ ~Has(request_queue[c], r)
      BY <1>7, <2>3 DEF PlaceInv, InQueue
    <3> QED BY <1>3, <3>1, HasAppend, Zenon
  <2>5. \A k, x : At(r, k, x)' => k = "queue" /\ x = c
    <3>1. \A k, x : At(r, k, x)' => At(r, k, x) \/ (k = "queue" /\ x = c)
      BY <1>1, <1>4, <1>5 DEF At, InQueue, InTaken, Handling, WithUser
    <3> QED BY <2>1, <2>2, <3>1
  <2>6. \A d \in Containers : Once(request_queue'[d], r) /\ Once(taken'[d], r)
    BY <1>1, <1>4, <1>7, <2>4 DEF PlaceInv
  <2>7. Brought(r, "queue", c)
    BY <1>7, <2>5, <2>6 DEF Brought
  <2> QED BY <1>6, <2>7, PlaceMove
<1>8. CASE r \in aborted
  BY <1>6, <1>8, PlaceMove
<1> QED BY <1>7, <1>8

\* Notify() takes no request anywhere.
LEMMA NotifyPlaces ==
  ASSUME TypeInv, PlaceInv, NEW t \in Threads, Notify(t)
  PROVE  PlaceInv'
<1>1. UNCHANGED <<containers, requests, hand, ret>>
  BY NotifyEffect
<1>2. \A s \in Threads : \/ pc'[s] = pc[s]
                         \/ s = t /\ pc[s] = "notify" /\ pc'[s] = ret[s]
                         \/ pc[s] = "asleep" /\ pc'[s] = "lock"
  BY NotifyEffect
<1>3. /\ \A s \in Consumers : ret[s] \notin Handling
      /\ \A s \in Requests : ret[s] \notin WithUser /\ pc[s] # "asleep"
  BY OwnTypes DEF ConsumerOK, UserOK, Handling, WithUser
<1>4. /\ \A s \in Consumers : pc'[s] \in Handling => pc[s] \in Handling
      /\ \A s \in Requests : pc'[s] \in WithUser => pc[s] \in WithUser
  BY <1>2, <1>3 DEF Handling, WithUser
<1> QED BY <1>1, <1>4, StillPlaces

\* A thread goes on, and takes no request anywhere.
LEMMA MovePlaces ==
  ASSUME PlaceInv, NEW s \in Threads, NEW loc, Moves(s, loc),
         UNCHANGED <<request_queue, taken>>, aborted \subseteq aborted',
         \A t \in Consumers \ {s} : hand'[t] = hand[t],
         s \in Consumers /\ loc \in Handling => pc[s] \in Handling /\ hand'[s] = hand[s],
         s \in Requests /\ loc \in WithUser => pc[s] \in WithUser
  PROVE  PlaceInv'
BY StillPlaces DEF Moves

\* Complete() and Abort(), by any thread.
LEMMA CompletePlaces ==
  ASSUME TypeInv, PlaceInv, NEW t \in Requests \cup Consumers, NEW r \in Requests,
         NEW loc \in {"end", "relock"}, Complete(t, r, loc),
         t \in Requests => pc[t] \in WithUser, t \in Consumers => pc[t] \in Handling
  PROVE  PlaceInv'
<1>0. t \in Threads /\ loc \in Locations
  BY SomeLocations
<1>1. UNCHANGED <<containers, hand, aborted>>
  BY <1>0, CompleteEffect
<1>2. PICK l \in {loc, "submitting"} : Moves(t, l)
  BY <1>0, CompleteEffect
<1>3. t \in Consumers /\ l \in Handling => pc[t] \in Handling /\ hand'[t] = hand[t]
  BY <1>1
<1>4. t \in Requests /\ l \in WithUser => pc[t] \in WithUser
  OBVIOUS
<1> QED BY <1>0, <1>1, <1>2, <1>3, <1>4, MovePlaces

LEMMA AbortPlaces ==
  ASSUME TypeInv, PlaceInv, NEW t \in Aborters \cup Containers, NEW r \in Requests,
         NEW loc \in {"end", "drain"}, Abort(t, r, "resubmit", loc)
  PROVE  PlaceInv'
<1>0. t \in Threads /\ loc \in Locations /\ "resubmit" \in Locations
  BY SomeLocations
<1>1. UNCHANGED <<containers, hand>> /\ aborted \subseteq aborted'
  BY <1>0, AbortEffect
<1>2. PICK l \in {loc, "notify"} : Moves(t, l)
  BY <1>0, AbortEffect
<1>3. t \notin Consumers /\ t \notin Requests
  OBVIOUS
<1> QED BY <1>0, <1>1, <1>2, <1>3, MovePlaces

\* Process_requests takes the first request of a queue into the hands of a consumer.
LEMMA PopPlaces ==
  ASSUME TypeInv, PlaceInv, NEW t \in Consumers, Process_requests(t)
  PROVE  PlaceInv'
<1>1. PICK c \in Containers :
        /\ request_queue[c] # <<>>
        /\ hand' = [hand EXCEPT ![t] = Head(request_queue[c])]
        /\ request_queue' = [request_queue EXCEPT ![c] = Tail(@)]
  BY PopEffect
<1>2. /\ UNCHANGED <<taken, aborted>> /\ pc[t] = "scan" /\ pc'[t] = "popped"
      /\ \A s \in Threads \ {t} : pc'[s] = pc[s]
  BY PopEffect DEF Moves
<1>3. /\ request_queue \in [Containers -> Seq(Requests)] /\ request_queue[c] \in Seq(Requests)
      /\ hand \in [Consumers -> Requests \cup {None}]
  BY Types
<1>4. PICK r \in Requests : r = Head(request_queue[c]) /\ Has(request_queue[c], r)
  BY <1>1, <1>3, HasTail, Zenon
<1>5. ASSUME NEW q
      PROVE  /\ Has(Tail(request_queue[c]), q) => Has(request_queue[c], q)
             /\ Once(request_queue[c], q) =>
                  Once(Tail(request_queue[c]), q) /\ ~(q = r /\ Has(Tail(request_queue[c]), q))
  BY <1>1, <1>3, <1>4, HasTail, Zenon
<1>6. \A d \in Containers : \/ request_queue'[d] = request_queue[d] /\ d # c
                            \/ d = c /\ request_queue'[d] = Tail(request_queue[c])
  BY <1>1, <1>3
<1>7. hand'[t] = r /\ \A u \in Consumers \ {t} : hand'[u] = hand[u]
  BY <1>1, <1>3, <1>4
<1>8. \A q \in Requests : \A k, x : At(q, k, x)' => At(q, k, x) \/ (q = r /\ k = "hand" /\ x = t)
  BY <1>2, <1>5, <1>6, <1>7 DEF At, InQueue, InTaken, Handling
<1>9. \A q \in Requests, d \in Containers :
         Once(request_queue[d], q) => Once(request_queue'[d], q)
  BY <1>5, <1>6
<1>10. ASSUME NEW q \in Requests \ aborted, q # r PROVE Kept(q)
  BY <1>2, <1>8, <1>9, <1>10 DEF Kept
<1>11. CASE r \notin aborted
  <2>1. At(r, "queue", c)
    BY <1>4 DEF At, InQueue
  <2>2. \A k, x : At(r, k, x) => k = "queue" /\ x = c
    BY <1>11, <2>1 DEF PlaceInv
  <2>3. ~At(r, "queue", c)'
    BY <1>5, <1>6, <1>11 DEF At, InQueue, PlaceInv
  <2>4. Brought(r, "hand", t)
    BY <1>2, <1>8, <1>9, <1>11, <2>2, <2>3 DEF Brought, PlaceInv
  <2> QED BY <1>2, <1>10, <2>4, PlaceMove
<1>12. CASE r \in aborted
  BY <1>2, <1>10, <1>12, PlaceMove
<1> QED BY <1>11, <1>12

\* Process(): r leaves the hands of the consumer, perhaps for its user.
LEMMA ProcessPlaces ==
  ASSUME TypeInv, PlaceInv, NEW t \in Consumers,
         Process(t) \/ Process_notification(t) \/ Deliver(t)
  PROVE  PlaceInv'
<1>1. /\ UNCHANGED <<containers, hand, aborted>> /\ pc[t] \in Handling
  BY ProcessEffect DEF Handling
<1>2. PICK r \in Requests : r = hand[t]
  BY ProcessEffect
<1>3. CASE \E loc \in {"relock", "completing", "delivering", "notify"} : Moves(t, loc)
  BY <1>1, <1>3, MovePlaces
<1>4. CASE r \notin aborted /\ pc' = [pc EXCEPT ![t] = "relock", ![r] = "complete"]
  <2>1. /\ pc'[t] = "relock" /\ pc'[r] = "complete"
        /\ \A s \in Threads \ {t, r} : pc'[s] = pc[s]
    BY <1>4, LaterMoves
  <2>2. At(r, "hand", t)
    BY <1>1, <1>2 DEF At
  <2>3. \A k, x : At(r, k, x) => k = "hand" /\ x = t
    BY <1>4, <2>2 DEF PlaceInv
  <2>4. \A q \in Requests : \A k, x :
           At(q, k, x)' => \/ At(q, k, x) /\ ~(k = "hand" /\ x = t)
                           \/ q = r /\ k = "user" /\ x = r
    BY <1>1, <2>1 DEF At, InQueue, InTaken, Handling
  <2>5. Brought(r, "user", r)
    BY <1>1, <1>4, <2>3, <2>4 DEF Brought, PlaceInv
  <2>6. \A q \in Requests \ aborted : q # r => Kept(q)
    BY <1>1, <2>4 DEF Kept
  <2> QED BY <1>1, <2>5, <2>6, PlaceMove
<1> QED BY <1>2, <1>3, <1>4, ProcessEffect

\* Abort_requests() moves the queue out, and takes one request off after another.
LEMMA RoundPlaces ==
  ASSUME TypeInv, PlaceInv, NEW c \in Containers, Abort_requests(c) \/ Abort_round(c)
  PROVE  PlaceInv'
<1>1. /\ UNCHANGED <<aborted, hand>>
      /\ \A d \in Containers \ {c} : request_queue'[d] = request_queue[d] /\ taken'[d] = taken[d]
      /\ \A s \in Threads \ {c} : pc'[s] = pc[s]
  BY RoundEffect DEF Moves
<1>2. CASE request_queue'[c] = <<>> /\ taken'[c] = request_queue[c]
  <2>1. ASSUME NEW q \in Requests, NEW k, NEW x, At(q, k, x)'
        PROVE  \/ At(q, k, x) /\ ~(k = "queue" /\ x = c) /\ ~(k = "taken" /\ x = c)
               \/ k = "taken" /\ x = c /\ At(q, "queue", c)
    BY <1>1, <1>2, <2>1, HasEmpty DEF At, InQueue, InTaken
  <2>2. ASSUME NEW q \in Requests \ aborted PROVE Kept(q) \/ Brought(q, "taken", c)
    <3>1. \A d \in Containers : Once(request_queue'[d], q) /\ Once(taken'[d], q)
      BY <1>1, <1>2, HasEmpty DEF PlaceInv
    <3>2. CASE At(q, "queue", c)
      BY <2>1, <3>1, <3>2 DEF PlaceInv, Brought
    <3>3. CASE ~At(q, "queue", c)
      BY <2>1, <3>1, <3>3 DEF Kept
    <3> QED BY <3>2, <3>3
  <2> QED BY <1>1, <2>2, PlaceMove
<1>3. CASE Moves(c, "finish") /\ UNCHANGED <<request_queue, taken>>
  BY <1>1, <1>3, MovePlaces
<1> QED BY <1>2, <1>3, RoundEffect

LEMMA DrainPlaces ==
  ASSUME TypeInv, PlaceInv, NEW c \in Containers, Drain(c)
  PROVE  PlaceInv'
<1>1. /\ UNCHANGED <<request_queue, hand, aborted>> /\ taken[c] # <<>>
      /\ taken' = [taken EXCEPT ![c] = Tail(@)]
      /\ \A s \in Threads \ {c} : pc'[s] = pc[s]
  BY DrainEffect DEF Moves
<1>2. taken \in [Containers -> Seq(Requests)] /\ taken[c] \in Seq(Requests)
  BY Types
<1>3. ASSUME NEW q \in Requests, NEW d \in Containers
      PROVE  /\ Has(taken'[d], q) => Has(taken[d], q)
             /\ Once(taken[d], q) => Once(taken'[d], q)
  <2>1. /\ Has(Tail(taken[c]), q) => Has(taken[c], q)
        /\ Once(taken[c], q) => Once(Tail(taken[c]), q)
    BY <1>1, <1>2, HasTail, Zenon
  <2> QED BY <1>1, <1>2, <2>1
<1>4. ASSUME NEW q \in Requests \ aborted PROVE Kept(q)
  <2>1. \A k, x : At(q, k, x)' => At(q, k, x)
    BY <1>1, <1>3 DEF At, InQueue, InTaken
  <2> QED BY <1>1, <1>3, <2>1 DEF Kept
<1> QED BY <1>1, <1>4, PlaceMove

\* Every step takes a request from one place to one other, or leaves it where it is.
LEMMA PlaceNext ==
  ASSUME TypeInv, PlaceInv, [Next]_vars
  PROVE  PlaceInv'
<1>1. CASE UNCHANGED vars
  <2>1. UNCHANGED <<request_queue, taken, hand, pc, requests>>
    BY <1>1 DEF vars
  <2> QED BY <2>1, StillPlaces
<1>2. ASSUME NEW r \in Requests, UserStep(r) PROVE PlaceInv'
  <2>1. \/ Notify(r)
        \/ \E c \in Containers : pc[r] \in WithUser /\ Submit(r, r, c, "end") /\ UNCHANGED requests
        \/ pc[r] \in WithUser /\ Complete(r, r, "end")
    BY <1>2, UserSteps DEF WithUser
  <2> QED BY <2>1, NotifyPlaces, SubmitPlaces, CompletePlaces
<1>3. ASSUME NEW a \in Aborters, AborterStep(a) PROVE PlaceInv'
  BY <1>3, AborterSteps, NotifyPlaces, SubmitPlaces, AbortPlaces
<1>4. ASSUME NEW t \in Consumers, ConsumerStep(t) \/ SpuriousWakeup(t) PROVE PlaceInv'
  <2>1. CASE Complete_now(t) \/ Complete_submits(t, hand[t], "relock")
    BY <2>1, HandSteps, CompletePlaces, SubmitPlaces
  <2>2. CASE \/ Processing_loop(t) \/ Wait_done(t) \/ Wait_done_request(t) \/ SpuriousWakeup(t)
             \/ Decide(t) \/ Sleep(t) \/ Process_request(t)
    <3>1. UNCHANGED <<containers, requests, hand>>
      BY <2>2, IdleEffect
    <3>2. \E loc : Moves(t, loc) /\ (loc \in Handling => pc[t] \in Handling)
      BY <2>2, IdleEffect DEF Handling
    <3> QED BY <3>1, <3>2, MovePlaces
  <2>3. CASE Lock(t) \/ Relock(t) \/ NextContainer(t) \/ RoundEnds(t)
    <3>1. UNCHANGED <<containers, requests>> /\ \E loc \in {"scan", "decide"} : Moves(t, loc)
      BY <2>3, ScanEffect
    <3>2. hand' = hand \/ hand' = [hand EXCEPT ![t] = None]
      BY <2>3, ScanEffect
    <3>3. \A u \in Consumers \ {t} : hand'[u] = hand[u]
      BY <3>2, Types
    <3> QED BY <3>1, <3>3, MovePlaces DEF Handling
  <2> QED BY <1>4, <2>1, <2>2, <2>3, NotifyPlaces, PopPlaces, ProcessPlaces DEF ConsumerStep
<1>5. ASSUME NEW c \in Containers, Enable(c) \/ Disable(c) \/ DisableStep(c) PROVE PlaceInv'
  <2>1. CASE Abort_taken(c) \/ Abort_submits(c, Head(taken[c]), "drain")
    BY <2>1, TakenSteps, AbortPlaces, SubmitPlaces
  <2>2. CASE Enable(c)
    <3>1. /\ UNCHANGED <<request_queue, taken, requests, hand>>
          /\ \A r \in Requests : pc'[r] = pc[r]
          /\ \A t \in Consumers : pc'[t] \in {pc[t], "loop"}
      BY <2>2, EnableEffect
    <3> QED BY <3>1, StillPlaces DEF Handling
  <2>3. CASE Disable(c) \/ Set_disabled(c) \/ Join(c) \/ Disable_ends(c)
    <3>1. UNCHANGED <<request_queue, taken, requests, hand>> /\ \E loc : Moves(c, loc)
      BY <2>3, DisableEffect
    <3> QED BY <3>1, MovePlaces
  <2> QED BY <1>5, <2>1, <2>2, <2>3, NotifyPlaces, RoundPlaces, DrainPlaces DEF DisableStep
<1> QED BY <1>1, <1>2, <1>3, <1>4, <1>5 DEF Next

\* Every request is with its user in the beginning.
LEMMA PlaceInit == Init => PlaceInv
<1> SUFFICES ASSUME Init PROVE PlaceInv
  OBVIOUS
<1>1. \A c \in Containers : request_queue[c] = <<>> /\ taken[c] = <<>>
  BY DEF Init
<1>2. \A t \in Consumers : pc[t] \notin Handling
  BY DEF Init, Handling
<1>3. \A r \in Requests : \A k, x : At(r, k, x) => k = "user" /\ x = r
  BY <1>1, <1>2, HasEmpty DEF At, InQueue, InTaken
<1> QED BY <1>1, <1>3, HasEmpty DEF PlaceInv

-----------------------------------------------------------------------------
(* Disabling.                                                              *)

Aborting == {"aborting", "resubmit", "drain", "thrown"}

\* A container is enabled until its Set_disabled(), and lets aborted requests in while
\* Abort_requests() runs, or after that has thrown.
FlagsOK ==
  \A c \in Containers :
     /\ is_enabled[c] => Loc(c) \in {"start", "disable"}
     /\ pc[c] = "off" => request_queue[c] = <<>>
     /\ abort_ongoing[c] => Loc(c) \in Aborting

LeftOK == \A c \in Containers : pc[c] \in {"finish", "end"} =>
             \A r \in Requests : InQueue(r, c) => r \in finalized

DisableInv == FlagsOK /\ LeftOK

\* The queue of c is left alone, or loses its first request.
QueueKept(c) ==
  \/ request_queue'[c] = request_queue[c]
  \/ request_queue[c] # <<>> /\ request_queue'[c] = Tail(request_queue[c])

\* A step that neither enables nor disables anything: a container that is not enabled and
\* does not abort its queue takes no request.
ClientStep ==
  /\ UNCHANGED <<is_enabled, abort_ongoing>>
  /\ \A c \in Containers : /\ Loc(c)' = Loc(c) \/ (Loc(c) \in Aborting /\ Loc(c)' \in Aborting)
                           /\ pc'[c] \in {"off", "finish", "end"} => pc'[c] = pc[c]
                           /\ is_enabled[c] \/ abort_ongoing[c] \/ QueueKept(c)
  /\ finalized \subseteq finalized'

LEMMA ClientKeeps ==
  ASSUME TypeInv, DisableInv, ClientStep
  PROVE  DisableInv'
<1>1. ASSUME NEW c \in Containers, pc[c] \in {"off", "finish", "end"}
      PROVE  /\ \A r \in Requests : InQueue(r, c)' => InQueue(r, c)
             /\ request_queue[c] = <<>> => request_queue'[c] = <<>>
  <2>1. QueueKept(c)
    BY <1>1 DEF DisableInv, FlagsOK, Loc, Aborting, ClientStep
  <2>2. request_queue[c] \in Seq(Requests)
    BY Types
  <2>3. \A r \in Requests :
           request_queue[c] # <<>> => (Has(Tail(request_queue[c]), r) => Has(request_queue[c], r))
    BY <2>2, HasTail, Zenon
  <2> QED BY <2>1, <2>3 DEF QueueKept, InQueue
<1>2. FlagsOK'
  BY <1>1 DEF DisableInv, FlagsOK, ClientStep, Aborting
<1>3. LeftOK'
  BY <1>1 DEF DisableInv, LeftOK, ClientStep
<1> QED BY <1>2, <1>3 DEF DisableInv

\* Submit.
LEMMA SubmitIsClient ==
  ASSUME TypeInv, NEW t \in Threads, NEW r \in Requests, NEW c \in Containers,
         NEW loc \in {"end", "relock", "drain"}, Submit(t, r, c, loc), UNCHANGED finalized,
         t \in Containers => pc[t] = "resubmit" /\ loc = "drain"
  PROVE  ClientStep
<1>0. loc \in Locations
  BY SomeLocations
<1>1. UNCHANGED <<is_enabled, abort_ongoing>> /\ Moves(t, "notify")
  BY <1>0, SubmitEffect
<1>2. PICK l \in {loc, "thrown"} : Returns(t, l)
  BY <1>0, SubmitEffect
<1>3. \/ /\ is_enabled[c] \/ abort_ongoing[c]
         /\ request_queue' = [request_queue EXCEPT ![c] = Append(@, r)]
      \/ UNCHANGED request_queue
  BY <1>0, SubmitEffect DEF Accepts
<1>4. \A d \in Containers : is_enabled[d] \/ abort_ongoing[d] \/ QueueKept(d)
  BY <1>3, Types DEF QueueKept
<1>5. ASSUME NEW d \in Containers
      PROVE  /\ Loc(d)' = Loc(d) \/ (Loc(d) \in Aborting /\ Loc(d)' \in Aborting)
             /\ pc'[d] \in {"off", "finish", "end"} => pc'[d] = pc[d]
  BY <1>1, <1>2 DEF Moves, Returns, Loc, Aborting
<1> QED BY <1>1, <1>4, <1>5 DEF ClientStep

\* A step that leaves the containers and their threads alone.
LEMMA StillIsClient ==
  ASSUME UNCHANGED containers, finalized \subseteq finalized',
         \A c \in Containers : pc'[c] = pc[c] /\ ret'[c] = ret[c]
  PROVE  ClientStep
BY DEF ClientStep, Loc, QueueKept

LEMMA NotifyIsClient ==
  ASSUME TypeInv, NEW t \in Threads, Notify(t)
  PROVE  ClientStep
<1>1. UNCHANGED <<containers, requests, ret>>
  BY NotifyEffect
<1>2. \A c \in Containers : pc'[c] = pc[c] \/ (pc[c] = "notify" /\ pc'[c] = ret[c])
  BY NotifyEffect, OwnTypes DEF DisablerOK
<1>3. \A c \in Containers :
        pc[c] = "notify" => ret[c] \in {"disable", "join", "resubmit", "drain", "thrown"}
  BY OwnTypes DEF DisablerOK
<1> QED BY <1>1, <1>2, <1>3 DEF ClientStep, Loc, QueueKept

\* Every step of a user and of a consumer.
LEMMA UserIsClient ==
  ASSUME TypeInv, NEW r \in Requests, UserStep(r)
  PROVE  ClientStep
<1>1. CASE Complete(r, r, "end")
  <2>1. UNCHANGED <<containers, ret, finalized>> /\ \E loc : Moves(r, loc)
    BY <1>1, CompleteEffect, SomeLocations
  <2>2. \A c \in Containers : pc'[c] = pc[c]
    BY <2>1 DEF Moves
  <2> QED BY <2>1, <2>2, StillIsClient
<1> QED BY <1>1, UserSteps, NotifyIsClient, SubmitIsClient

LEMMA AborterIsClient ==
  ASSUME TypeInv, NEW a \in Aborters, AborterStep(a)
  PROVE  ClientStep
<1>1. CASE Abort(a, Victim[a], "resubmit", "end")
  <2>0. Victim[a] \in Requests
    BY AborterSteps
  <2>1. UNCHANGED containers /\ finalized \subseteq finalized' /\ \E loc : Moves(a, loc)
    BY <1>1, <2>0, AbortEffect, SomeLocations
  <2>2. UNCHANGED ret \/ \E l : Returns(a, l)
    BY <1>1, <2>0, AbortEffect, SomeLocations
  <2>3. \A c \in Containers : pc'[c] = pc[c] /\ ret'[c] = ret[c]
    BY <2>1, <2>2 DEF Moves, Returns
  <2> QED BY <2>1, <2>3, StillIsClient
<1> QED BY <1>1, AborterSteps, NotifyIsClient, SubmitIsClient

LEMMA ConsumerIsClient ==
  ASSUME TypeInv, NEW t \in Consumers, ConsumerStep(t) \/ SpuriousWakeup(t)
  PROVE  ClientStep
<1>1. CASE \/ Processing_loop(t) \/ Wait_done(t) \/ Wait_done_request(t) \/ SpuriousWakeup(t)
           \/ Decide(t) \/ Sleep(t) \/ Process_request(t)
           \/ Lock(t) \/ Relock(t) \/ NextContainer(t) \/ RoundEnds(t)
  <2>1. UNCHANGED <<containers, requests, ret>> /\ \E loc : Moves(t, loc)
    BY <1>1, IdleEffect, ScanEffect
  <2>2. \A c \in Containers : pc'[c] = pc[c]
    BY <2>1 DEF Moves
  <2> QED BY <2>1, <2>2, StillIsClient
<1>2. CASE Process_requests(t)
  <2>1. /\ UNCHANGED <<is_enabled, abort_ongoing, finalized, ret>>
        /\ \A c \in Containers : pc'[c] = pc[c]
    BY <1>2, PopEffect DEF Moves
  <2>2. PICK d \in Containers : /\ request_queue[d] # <<>>
                                /\ request_queue' = [request_queue EXCEPT ![d] = Tail(@)]
    BY <1>2, PopEffect
  <2>3. \A c \in Containers : QueueKept(c)
    BY <2>2, Types DEF QueueKept
  <2> QED BY <2>1, <2>3 DEF ClientStep, Loc
<1>3. CASE Process(t) \/ Process_notification(t) \/ Deliver(t)
  <2>1. UNCHANGED containers /\ finalized \subseteq finalized' /\ hand[t] \in Requests
    BY <1>3, ProcessEffect
  <2>2. \/ UNCHANGED ret /\ \E loc : Moves(t, loc)
        \/ UNCHANGED ret /\ pc' = [pc EXCEPT ![t] = "relock", ![hand[t]] = "complete"]
        \/ Returns(t, "relock") /\ Moves(t, "notify")
    BY <1>3, ProcessEffect
  <2>3. \A c \in Containers : pc'[c] = pc[c] /\ ret'[c] = ret[c]
    BY <2>1, <2>2, LaterMoves DEF Moves, Returns
  <2> QED BY <2>1, <2>3, StillIsClient
<1>4. CASE Complete_now(t) \/ Complete_submits(t, hand[t], "relock")
  <2>1. CASE Complete(t, hand[t], "relock")
    <3>1. UNCHANGED <<containers, ret, finalized>> /\ \E loc : Moves(t, loc)
      BY <1>4, <2>1, HandSteps, CompleteEffect, SomeLocations
    <3>2. \A c \in Containers : pc'[c] = pc[c]
      BY <3>1 DEF Moves
    <3> QED BY <3>1, <3>2, StillIsClient
  <2> QED BY <1>4, <2>1, HandSteps, SubmitIsClient
<1> QED BY <1>1, <1>2, <1>3, <1>4, NotifyIsClient DEF ConsumerStep

\* Inside a round of Abort_requests().
LEMMA AbortIsClient ==
  ASSUME TypeInv, NEW c \in Containers,
         Abort_taken(c) \/ Abort_submits(c, Head(taken[c]), "drain") \/ Drain(c) \/ Notify(c)
  PROVE  ClientStep
<1>1. CASE Drain(c)
  <2>1. /\ UNCHANGED <<is_enabled, abort_ongoing, request_queue, ret>> /\ pc[c] = "drain"
        /\ finalized \subseteq finalized' /\ Moves(c, "aborting")
    BY <1>1, DrainEffect
  <2> QED BY <2>1 DEF ClientStep, Moves, Loc, Aborting, QueueKept
<1>2. CASE pc[c] = "aborting" /\ Abort_taken(c)
  <2>0. Head(taken[c]) \in Requests /\ Abort(c, Head(taken[c]), "resubmit", "drain")
    BY <1>2, TakenSteps
  <2>1. /\ UNCHANGED <<is_enabled, abort_ongoing, request_queue>>
        /\ finalized \subseteq finalized'
    BY <2>0, AbortEffect, SomeLocations
  <2>2. \/ Moves(c, "drain") /\ UNCHANGED ret
        \/ Moves(c, "notify") /\ \E l \in {"drain", "resubmit"} : Returns(c, l)
    BY <2>0, AbortEffect, SomeLocations
  <2>3. ASSUME NEW d \in Containers
        PROVE  /\ Loc(d)' = Loc(d) \/ (Loc(d) \in Aborting /\ Loc(d)' \in Aborting)
               /\ pc'[d] \in {"off", "finish", "end"} => pc'[d] = pc[d]
    BY <1>2, <2>2 DEF Moves, Returns, Loc, Aborting
  <2> QED BY <2>1, <2>3 DEF ClientStep, QueueKept
<1>3. CASE Abort_submits(c, Head(taken[c]), "drain")
  BY <1>3, TakenSteps, SubmitIsClient DEF Abort_submits
<1> QED BY <1>1, <1>2, <1>3, NotifyIsClient DEF Abort_taken

\* A step of Enable() or Disable() of container c.
OwnStep(c) ==
  /\ \A d \in Containers \ {c} :
       /\ pc'[d] = pc[d] /\ ret'[d] = ret[d] /\ request_queue'[d] = request_queue[d]
       /\ is_enabled'[d] = is_enabled[d] /\ abort_ongoing'[d] = abort_ongoing[d]
  /\ UNCHANGED finalized

\* What it leaves c in.
OwnOK(c) ==
  /\ is_enabled'[c] => Loc(c)' \in {"start", "disable"}
  /\ pc'[c] # "off"
  /\ abort_ongoing'[c] => Loc(c)' \in Aborting
  /\ pc'[c] \in {"finish", "end"} => \A r \in Requests : InQueue(r, c)' => r \in finalized

LEMMA OwnKeeps ==
  ASSUME DisableInv, NEW c \in Containers, OwnStep(c), OwnOK(c)
  PROVE  DisableInv'
<1>1. ASSUME NEW d \in Containers
      PROVE  /\ is_enabled'[d] => Loc(d)' \in {"start", "disable"}
             /\ pc'[d] = "off" => request_queue'[d] = <<>>
             /\ abort_ongoing'[d] => Loc(d)' \in Aborting
             /\ pc'[d] \in {"finish", "end"} =>
                  \A r \in Requests : InQueue(r, d)' => r \in finalized'
  <2>1. CASE d = c
    BY <2>1 DEF OwnStep, OwnOK
  <2>2. CASE d # c
    BY <2>2 DEF OwnStep, DisableInv, FlagsOK, LeftOK, Loc, InQueue
  <2> QED BY <2>1, <2>2
<1> QED BY <1>1 DEF DisableInv, FlagsOK, LeftOK

LEMMA EnableKeeps ==
  ASSUME TypeInv, DisableInv, NEW c \in Containers, Enable(c)
  PROVE  DisableInv'
<1>1. /\ is_enabled' = [is_enabled EXCEPT ![c] = TRUE] /\ pc[c] = "off" /\ pc'[c] = "start"
      /\ UNCHANGED <<request_queue, abort_ongoing, finalized, ret>>
      /\ \A d \in Containers \ {c} : pc'[d] = pc[d]
  BY EnableEffect
<1>2. \A d \in Containers \ {c} : is_enabled'[d] = is_enabled[d]
  BY <1>1, Types
<1>3. ~abort_ongoing[c] /\ Loc(c)' = "start"
  BY <1>1 DEF DisableInv, FlagsOK, Loc, Aborting
<1>4. OwnStep(c) /\ OwnOK(c)
  BY <1>1, <1>2, <1>3 DEF OwnStep, OwnOK
<1> QED BY <1>4, OwnKeeps

LEMMA DisableKeeps ==
  ASSUME TypeInv, DisableInv, NEW c \in Containers,
         Disable(c) \/ Set_disabled(c) \/ Join(c) \/ Disable_ends(c)
  PROVE  DisableInv'
<1>1. UNCHANGED <<request_queue, abort_ongoing, finalized>>
  BY DisableEffect
<1>2. \/ pc[c] = "start" /\ Moves(c, "notify") /\ Returns(c, "disable")
      \/ pc[c] = "disable" /\ Moves(c, "notify") /\ Returns(c, "join") /\ ~is_enabled'[c]
      \/ pc[c] = "join" /\ Moves(c, "abort") /\ UNCHANGED <<ret, is_enabled>>
      \/ pc[c] = "finish" /\ Moves(c, "end") /\ UNCHANGED <<ret, is_enabled>>
  BY DisableEffect
<1>3. OwnStep(c)
  <2>1. \A d \in Containers \ {c} : pc'[d] = pc[d] /\ ret'[d] = ret[d]
    BY <1>2 DEF Moves, Returns
  <2> QED BY <1>1, <2>1, DisableEffect DEF OwnStep
<1>4. ~abort_ongoing[c] /\ (pc[c] \in {"join", "finish"} => ~is_enabled[c])
  BY <1>2 DEF DisableInv, FlagsOK, Loc, Aborting
<1>5. OwnOK(c)
  <2>1. pc'[c] = "notify" \/ pc'[c] = "abort" \/ (pc'[c] = "end" /\ pc[c] = "finish")
    BY <1>2 DEF Moves
  <2>2. is_enabled'[c] => Loc(c)' = "disable"
    BY <1>2, <1>4 DEF Moves, Returns, Loc
  <2> QED BY <1>1, <1>4, <2>1, <2>2 DEF OwnOK, DisableInv, LeftOK, InQueue
<1> QED BY <1>3, <1>5, OwnKeeps

\* Abort_requests() ends when the queue holds nothing that is not fully aborted.
LEMMA RoundKeeps ==
  ASSUME TypeInv, DisableInv, NEW c \in Containers, Abort_requests(c) \/ Abort_round(c)
  PROVE  DisableInv'
<1>1. /\ UNCHANGED <<is_enabled, finalized, ret>> /\ pc[c] \in {"abort", "aborting"}
      /\ \A d \in Containers \ {c} :
           request_queue'[d] = request_queue[d] /\ abort_ongoing'[d] = abort_ongoing[d]
  BY RoundEffect
<1>2. \/ Moves(c, "aborting")
      \/ /\ Moves(c, "finish") /\ UNCHANGED request_queue /\ ~abort_ongoing'[c]
         /\ \A i \in DOMAIN request_queue[c] : request_queue[c][i] \in finalized
  BY RoundEffect
<1>3. ~is_enabled[c]
  BY <1>1 DEF DisableInv, FlagsOK, Loc
<1>4. OwnStep(c)
  BY <1>1, <1>2 DEF OwnStep, Moves
<1>5. OwnOK(c)
  BY <1>1, <1>2, <1>3 DEF OwnOK, Moves, Loc, InQueue, Has, Aborting
<1> QED BY <1>4, <1>5, OwnKeeps

\* The argument, step by step.
LEMMA DisableNext ==
  ASSUME TypeInv, DisableInv, [Next]_vars
  PROVE  DisableInv'
<1>1. CASE UNCHANGED vars
  <2>1. ClientStep
    BY <1>1, StillIsClient DEF vars
  <2> QED BY <2>1, ClientKeeps
<1>2. CASE ClientStep
  BY <1>2, ClientKeeps
<1>3. ASSUME NEW c \in Containers, Enable(c) \/ Disable(c) \/ DisableStep(c), ~ClientStep
      PROVE  DisableInv'
  BY <1>3, AbortIsClient, EnableKeeps, DisableKeeps, RoundKeeps DEF DisableStep
<1> QED BY <1>1, <1>2, <1>3, UserIsClient, AborterIsClient, ConsumerIsClient DEF Next

\* No container is enabled in the beginning.
LEMMA DisableInit == Init => DisableInv
<1> SUFFICES ASSUME Init PROVE DisableInv
  OBVIOUS
<1>1. \A c \in Containers : /\ ~is_enabled[c] /\ request_queue[c] = <<>> /\ ~abort_ongoing[c]
                            /\ pc[c] = "off"
  BY DEF Init
<1> QED BY <1>1 DEF DisableInv, FlagsOK, LeftOK

-----------------------------------------------------------------------------
(* Sleeping and waking up.                                                 *)

\* A thread other than the user of a request is about to call Notify().
Noted == \E s \in Threads \ Requests : pc[s] = "notify"

Watches(t, c) == \E i \in DOMAIN Serves[t] : Serves[t][i] = c

\* A consumer that has processed nothing in this round has found the containers behind it
\* empty or disabled, and they stay like that while it holds the mutex.
ScanOK(t) ==
  /\ pc[t] = "decide" => ~scan[t].cur /\ scan[t].pos > Len(Serves[t])
  /\ pc[t] = "scan" /\ scan[t].inside => scan[t].cur
  /\ pc[t] \in {"scan", "decide"} /\ ~scan[t].cur =>
       \A i \in DOMAIN Serves[t] : i < scan[t].pos =>
          /\ is_enabled[Serves[t][i]] \/ scan[t].dis
          /\ is_enabled[Serves[t][i]] => request_queue[Serves[t][i]] = <<>>

\* A consumer that sleeps, or is about to with the mutex in its hands, has nothing to do
\* that a thread is not about to tell it.  A request in a queue was put there by its user,
\* who notifies, unless some other thread is about to.
SleepOK(t) ==
  pc[t] \in {"sleep", "asleep"} =>
    /\ \A c \in Containers : Watches(t, c) /\ is_enabled[c] =>
         \A r \in Requests : InQueue(r, c) => pc[r] = "notify" \/ Noted
    /\ Target[t] = None /\ (\E c \in Containers : Watches(t, c) /\ ~is_enabled[c]) => Noted
    /\ Target[t] # None /\ Target[t] \in done => Noted

WakeInv == \A t \in Consumers : ScanOK(t) /\ SleepOK(t)

\* What a step of thread s may do to the other consumers: what they have looked at changes
\* only when none of them holds the mutex, or for an empty container that gets enabled, and
\* what they would wake up for comes with a Notify().
ActsAs(s) ==
  /\ \A t \in Consumers \ {s} : pc'[t] \in {pc[t], "loop"} /\ scan'[t] = scan[t]
  /\ \/ mutex = None \/ mutex = s
     \/ \A c \in Containers : \/ /\ request_queue'[c] = request_queue[c]
                                 /\ is_enabled'[c] = is_enabled[c]
                              \/ is_enabled'[c] /\ request_queue'[c] = <<>>
  /\ Noted => Noted'
  /\ \A c \in Containers, r \in Requests : is_enabled'[c] /\ InQueue(r, c)' =>
        \/ is_enabled[c] /\ InQueue(r, c) /\ (pc[r] = "notify" => pc'[r] = "notify")
        \/ pc'[r] = "notify" \/ Noted'
  /\ \A c \in Containers : ~is_enabled'[c] => ~is_enabled[c] \/ Noted'
  /\ \A t \in Consumers : Target[t] # None /\ Target[t] \in done' => Target[t] \in done \/ Noted'

LEMMA ActsKeeps ==
  ASSUME TypeInv, WakeInv, NEW s \in Threads, ActsAs(s),
         s \in Consumers => ScanOK(s)' /\ SleepOK(s)'
  PROVE  WakeInv'
<1> SUFFICES ASSUME NEW t \in Consumers, t # s PROVE ScanOK(t)' /\ SleepOK(t)'
  BY DEF WakeInv
<1>1. pc'[t] \in {pc[t], "loop"} /\ scan'[t] = scan[t]
  BY DEF ActsAs
<1>2. ScanOK(t)'
  <2>1. CASE pc[t] \in {"scan", "decide"}
    <3>1. mutex = t
      BY <2>1, Types DEF InPredicate
    <3>2. \A c \in Containers : \/ /\ request_queue'[c] = request_queue[c]
                                   /\ is_enabled'[c] = is_enabled[c]
                                \/ is_enabled'[c] /\ request_queue'[c] = <<>>
      BY <3>1 DEF ActsAs
    <3>3. \A i \in DOMAIN Serves[t] : Serves[t][i] \in Containers
      BY ConsumerAssumption
    <3>4. ScanOK(t)
      BY DEF WakeInv
    <3> QED BY <1>1, <3>2, <3>3, <3>4 DEF ScanOK
  <2>2. CASE pc[t] \notin {"scan", "decide"}
    BY <1>1, <2>2 DEF ScanOK
  <2> QED BY <2>1, <2>2
<1>3. SleepOK(t)'
  <2> SUFFICES ASSUME pc[t] \in {"sleep", "asleep"}
               PROVE  SleepOK(t)'
    BY <1>1 DEF SleepOK
  <2>1. SleepOK(t)
    BY DEF WakeInv
  <2>2. ASSUME NEW c \in Containers, Watches(t, c), is_enabled'[c], NEW r \in Requests, InQueue(r, c)'
        PROVE  pc'[r] = "notify" \/ Noted'
    BY <2>1, <2>2 DEF SleepOK, ActsAs
  <2>3. ASSUME Target[t] = None, NEW c \in Containers, Watches(t, c), ~is_enabled'[c]
        PROVE  Noted'
    BY <2>1, <2>3 DEF SleepOK, ActsAs
  <2>4. ASSUME Target[t] # None, Target[t] \in done'
        PROVE  Noted'
    BY <2>1, <2>4 DEF SleepOK, ActsAs
  <2> QED BY <2>2, <2>3, <2>4 DEF SleepOK, Watches
<1> QED BY <1>2, <1>3

\* A thread moves on, and leaves queues and flags alone.
LEMMA QuietActs ==
  ASSUME TypeInv, NEW s \in Threads, NEW loc, pc[s] # "notify", Moves(s, loc),
         UNCHANGED <<request_queue, is_enabled>>,
         \A t \in Consumers \ {s} : scan'[t] = scan[t],
         \A r \in done' \ done : Noted' \/ \A t \in Consumers : Target[t] # r
  PROVE  ActsAs(s)
<1>1. \A t \in Threads : t # s => pc'[t] = pc[t]
  BY DEF Moves
<1>2. Noted => Noted'
  BY <1>1 DEF Noted
<1>3. \A t \in Threads : pc[t] = "notify" => pc'[t] = "notify"
  BY <1>1
<1> QED BY <1>1, <1>2, <1>3 DEF ActsAs, InQueue

\* A consumer that is neither in its predicate nor asleep.
LEMMA AwakeOK ==
  ASSUME NEW t \in Consumers, pc'[t] \notin {"scan", "decide", "sleep", "asleep"}
  PROVE  ScanOK(t)' /\ SleepOK(t)'
BY DEF ScanOK, SleepOK

\* A thread that neither sleeps nor gets to its predicate, and leaves queues and flags alone.
LEMMA QuietWakes ==
  ASSUME TypeInv, WakeInv, NEW s \in Threads, NEW loc, pc[s] # "notify", Moves(s, loc),
         loc \notin {"scan", "decide", "sleep", "asleep"},
         UNCHANGED <<request_queue, is_enabled, scan>>,
         \A r \in done' \ done : Noted' \/ \A t \in Consumers : Target[t] # r
  PROVE  WakeInv'
<1>1. ActsAs(s)
  BY QuietActs
<1>2. s \in Consumers => ScanOK(s)' /\ SleepOK(s)'
  BY AwakeOK DEF Moves
<1> QED BY <1>1, <1>2, ActsKeeps

\* Only a request that has a completion context is waited for.
LEMMA TargetHasContext ==
  ASSUME NEW t \in Consumers, NEW r, Second[r] = None, r # None
  PROVE  Target[t] # r
BY ConsumerAssumption

\* The user of a request that is submitted notifies, or the consumer that completes it, or
\* the thread that aborts it.
LEMMA SubmitWakes ==
  ASSUME TypeInv, WakeInv, NEW s \in Threads, NEW r \in Requests, NEW c \in Containers,
         NEW loc \in {"end", "relock", "drain"}, s \in Requests => s = r, pc[s] # "notify",
         Submit(s, r, c, loc), UNCHANGED done
  PROVE  WakeInv'
<1>0. loc \in Locations
  BY SomeLocations
<1>1. /\ mutex = None /\ UNCHANGED <<is_enabled, scan>> /\ Moves(s, "notify")
      /\ \/ request_queue' = [request_queue EXCEPT ![c] = Append(@, r)]
         \/ UNCHANGED request_queue
  BY <1>0, SubmitEffect
<1>3. pc'[s] = "notify" /\ \A t \in Threads : t # s => pc'[t] = pc[t]
  BY <1>1 DEF Moves
<1>4. Noted => Noted'
  BY <1>3 DEF Noted
<1>5. \A d \in Containers, q \in Requests : InQueue(q, d)' => InQueue(q, d) \/ q = r
  <2>1. \A q \in Requests : Has(Append(request_queue[c], r), q) => Has(request_queue[c], q) \/ q = r
    <3>1. request_queue[c] \in Seq(Requests)
      BY Types
    <3> QED BY <3>1, HasAppend, Zenon
  <2>2. request_queue \in [Containers -> Seq(Requests)]
    BY Types
  <2> QED BY <1>1, <2>1, <2>2 DEF InQueue
<1>6. pc'[r] = "notify" \/ Noted'
  BY <1>3 DEF Noted
<1>7. \A t \in Threads : pc[t] = "notify" => pc'[t] = "notify"
  BY <1>3
<1>8. ActsAs(s)
  BY <1>1, <1>3, <1>4, <1>5, <1>6, <1>7 DEF ActsAs
<1>9. s \in Consumers => ScanOK(s)' /\ SleepOK(s)'
  BY <1>3, AwakeOK
<1> QED BY <1>8, <1>9, ActsKeeps

\* After Notify() nobody sleeps: it takes the mutex, so nobody was about to.
LEMMA NotifyWakes ==
  ASSUME TypeInv, NEW s \in Threads, Notify(s)
  PROVE  WakeInv'
<1>1. /\ mutex = None /\ pc'[s] = ret[s]
      /\ \A t \in Threads \ {s} : pc'[t] = IF pc[t] = "asleep" THEN "lock" ELSE pc[t]
  BY NotifyEffect
<1>2. ASSUME NEW t \in Consumers
      PROVE  pc'[t] \notin {"scan", "decide", "sleep", "asleep"}
  <2>1. pc[t] \notin {"scan", "decide", "sleep"}
    BY <1>1, Types DEF InPredicate
  <2>2. ret[t] \in {"end", "relock", "thrown"}
    BY OwnTypes DEF ConsumerOK
  <2> QED BY <1>1, <2>1, <2>2
<1> QED BY <1>2 DEF WakeInv, ScanOK, SleepOK

\* A consumer starts its predicate with a new round, and after a request was processed it
\* does not sleep before another one.
LEMMA LockWakes ==
  ASSUME TypeInv, WakeInv, NEW t \in Consumers, Lock(t) \/ Relock(t)
  PROVE  WakeInv'
<1>1. /\ UNCHANGED <<containers, done>> /\ pc[t] # "notify"
      /\ pc' = [pc EXCEPT ![t] = "scan"]
      /\ \/ scan' = [scan EXCEPT ![t] = NewScan]
         \/ scan' = [scan EXCEPT ![t].cur = TRUE]
  BY DEF Lock, Relock
<1>2. scan \in [Consumers -> Scan] /\ Moves(t, "scan")
  BY <1>1, Types, MovesLemma, SomeLocations
<1>3. ActsAs(t)
  BY <1>1, <1>2, QuietActs
<1>4. pc'[t] = "scan"
  BY <1>2 DEF Moves
<1>5. scan'[t] = NewScan \/ scan'[t] = [scan[t] EXCEPT !.cur = TRUE]
  BY <1>1, <1>2
<1>6. scan'[t].cur \/ (~scan'[t].inside /\ scan'[t].pos = 1)
  BY <1>2, <1>5 DEF NewScan, Scan
<1>7. \A i \in DOMAIN Serves[t] : ~(i < 1)
  BY ConsumerAssumption
<1>8. ScanOK(t)' /\ SleepOK(t)'
  BY <1>4, <1>6, <1>7 DEF ScanOK, SleepOK
<1> QED BY <1>3, <1>8, ActsKeeps

\* One more container is found empty or disabled.
LEMMA NextWakes ==
  ASSUME TypeInv, WakeInv, NEW t \in Consumers, NextContainer(t)
  PROVE  WakeInv'
<1>1. /\ UNCHANGED <<containers, done, pc>> /\ pc[t] = "scan"
      /\ Inspects(t) => request_queue[Container(t)] = <<>>
      /\ scan' = [scan EXCEPT ![t].pos = @ + 1, ![t].inside = FALSE,
                              ![t].dis = @ \/ ~Inspects(t)]
  BY DEF NextContainer
<1>2. scan \in [Consumers -> Scan] /\ scan[t] \in Scan
  BY Types
<1>3. ActsAs(t)
  <2>1. Moves(t, "scan")
    BY <1>1, StaysLemma
  <2> QED BY <1>1, <1>2, <2>1, QuietActs
<1>4. /\ scan'[t].pos = scan[t].pos + 1 /\ ~scan'[t].inside
      /\ scan'[t].cur = scan[t].cur
      /\ scan'[t].dis <=> scan[t].dis \/ ~Inspects(t)
  <2>1. scan'[t] = [scan[t] EXCEPT !.pos = scan[t].pos + 1, !.inside = FALSE,
                                   !.dis = scan[t].dis \/ ~Inspects(t)]
    BY <1>1, <1>2
  <2> QED BY <1>2, <2>1 DEF Scan
<1>5. ScanOK(t)
  BY DEF WakeInv
<1>6. ASSUME ~scan[t].cur, NEW i \in DOMAIN Serves[t], i < scan[t].pos + 1
      PROVE  /\ is_enabled[Serves[t][i]] \/ scan'[t].dis
             /\ is_enabled[Serves[t][i]] => request_queue[Serves[t][i]] = <<>>
  <2>1. CASE i < scan[t].pos
    BY <1>1, <1>4, <1>5, <1>6, <2>1 DEF ScanOK
  <2>2. CASE i = scan[t].pos
    <3>1. Inspects(t) <=> is_enabled[Serves[t][i]]
      BY <1>1, <1>5, <1>6, <2>2 DEF ScanOK, Inspects, Container
    <3> QED BY <1>1, <1>4, <2>2, <3>1 DEF Container
  <2>3. i \in Nat /\ scan[t].pos \in Nat
    BY <1>2, ConsumerAssumption DEF Scan
  <2> QED BY <1>6, <2>1, <2>2, <2>3
<1>7. ScanOK(t)' /\ SleepOK(t)'
  BY <1>1, <1>4, <1>6 DEF ScanOK, SleepOK
<1> QED BY <1>3, <1>7, ActsKeeps

\* The round ends: another one, or the predicate returns.
LEMMA RoundWakes ==
  ASSUME TypeInv, WakeInv, NEW t \in Consumers, RoundEnds(t)
  PROVE  WakeInv'
<1>1. /\ UNCHANGED <<containers, done>> /\ pc[t] = "scan" /\ scan[t].pos > Len(Serves[t])
  BY DEF RoundEnds
<1>2. scan \in [Consumers -> Scan] /\ scan[t] \in Scan
  BY Types
<1>3. CASE scan[t].cur
  <2>1. /\ Moves(t, "scan") /\ UNCHANGED pc
        /\ scan' = [scan EXCEPT ![t] = [NewScan EXCEPT !.num = TRUE, !.dis = scan[t].dis]]
    BY <1>1, <1>3, StaysLemma DEF RoundEnds
  <2>2. scan'[t].pos = 1 /\ ~scan'[t].inside
    BY <1>2, <2>1 DEF NewScan
  <2>3. \A i \in DOMAIN Serves[t] : ~(i < 1)
    BY ConsumerAssumption
  <2>4. ScanOK(t)' /\ SleepOK(t)'
    BY <1>1, <2>1, <2>2, <2>3 DEF ScanOK, SleepOK
  <2>5. ActsAs(t)
    BY <1>1, <1>2, <2>1, QuietActs
  <2> QED BY <2>4, <2>5, ActsKeeps
<1>4. CASE ~scan[t].cur
  <2>1. Moves(t, "decide") /\ UNCHANGED scan
    BY <1>4, MovesLemma, SomeLocations DEF RoundEnds
  <2>2. pc'[t] = "decide"
    BY <2>1 DEF Moves
  <2>3. ScanOK(t)
    BY DEF WakeInv
  <2>4. ScanOK(t)' /\ SleepOK(t)'
    BY <1>1, <1>4, <2>1, <2>2, <2>3 DEF ScanOK, SleepOK
  <2>5. ActsAs(t)
    BY <1>1, <2>1, QuietActs
  <2> QED BY <2>4, <2>5, ActsKeeps
<1> QED BY <1>3, <1>4

\* A consumer decides to sleep only when all its containers are enabled and empty, and, in
\* Wait_done(), its request is not done.
LEMMA DecideWakes ==
  ASSUME TypeInv, WakeInv, NEW t \in Consumers, Decide(t)
  PROVE  WakeInv'
<1>1. /\ UNCHANGED <<containers, done, scan>> /\ pc[t] = "decide"
      /\ Moves(t, "loop") \/ (~Satisfied(t) /\ Moves(t, "sleep"))
  BY MovesLemma, SomeLocations DEF Decide
<1>2. scan[t] \in Scan
  BY Types
<1>3. ActsAs(t)
  BY <1>1, QuietActs
<1>4. CASE pc'[t] = "loop"
  BY <1>3, <1>4, AwakeOK, ActsKeeps
<1>5. CASE ~Satisfied(t) /\ pc'[t] = "sleep"
  <2>1. ScanOK(t)
    BY DEF WakeInv
  <2>2. \A i \in DOMAIN Serves[t] : i < scan[t].pos
    BY <1>1, <1>2, <2>1, ConsumerAssumption DEF ScanOK, Scan
  <2>3. \A i \in DOMAIN Serves[t] :
           /\ is_enabled[Serves[t][i]] \/ scan[t].dis
           /\ is_enabled[Serves[t][i]] => request_queue[Serves[t][i]] = <<>>
    BY <1>1, <2>1, <2>2 DEF ScanOK
  <2>4. \A c \in Containers : Watches(t, c) =>
           /\ is_enabled[c] \/ scan[t].dis
           /\ is_enabled[c] => \A r \in Requests : ~InQueue(r, c)
    BY <2>3, HasEmpty DEF Watches, InQueue
  <2>5. SleepOK(t)'
    BY <1>1, <1>5, <2>4 DEF SleepOK, Satisfied, InQueue, Watches
  <2>6. ScanOK(t)'
    BY <1>5 DEF ScanOK
  <2> QED BY <1>3, <2>5, <2>6, ActsKeeps
<1> QED BY <1>1, <1>4, <1>5 DEF Moves

\* A consumer falls asleep as it was about to, or is outside its predicate.
LEMMA WaitWakes ==
  ASSUME TypeInv, WakeInv, NEW t \in Consumers,
         \/ Processing_loop(t) \/ Wait_done(t) \/ Wait_done_request(t)
         \/ Sleep(t) \/ SpuriousWakeup(t) \/ Process_request(t)
  PROVE  WakeInv'
<1>1. /\ UNCHANGED <<containers, done, scan>> /\ pc[t] # "notify"
      /\ \/ \E loc \in {"lock", "end", "cond", "process", "deliver"} : Moves(t, loc)
         \/ pc[t] = "sleep" /\ Moves(t, "asleep")
  <2>1. pc[t] # "decide"
    BY DEF Processing_loop, Wait_done, Wait_done_request, Sleep, SpuriousWakeup,
           Process_request
  <2> QED BY <2>1, IdleEffect
<1>2. CASE \E loc \in {"lock", "end", "cond", "process", "deliver"} : Moves(t, loc)
  BY <1>1, <1>2, QuietWakes
<1>3. CASE pc[t] = "sleep" /\ Moves(t, "asleep")
  <2>1. pc'[t] = "asleep" /\ \A s \in Threads : s # t => pc'[s] = pc[s]
    BY <1>3 DEF Moves
  <2>2. SleepOK(t)
    BY DEF WakeInv
  <2>3. ActsAs(t)
    BY <1>1, <1>3, QuietActs
  <2>4. Noted => Noted'
    BY <2>3 DEF ActsAs
  <2>5. \A r \in Requests : pc'[r] = pc[r]
    BY <2>1
  <2>6. SleepOK(t)'
    BY <1>1, <1>3, <2>1, <2>2, <2>4, <2>5 DEF SleepOK, InQueue, Watches
  <2>7. ScanOK(t)'
    BY <2>1 DEF ScanOK
  <2> QED BY <2>3, <2>6, <2>7, ActsKeeps
<1> QED BY <1>1, <1>2, <1>3

\* A request that is popped is one less to wake up for.
LEMMA PopWakes ==
  ASSUME TypeInv, WakeInv, NEW t \in Consumers, Process_requests(t)
  PROVE  WakeInv'
<1>1. /\ pc[t] = "scan" /\ UNCHANGED <<is_enabled, done>> /\ mutex = t /\ Moves(t, "popped")
      /\ \A u \in Consumers : u # t => scan'[u] = scan[u]
  BY PopEffect
<1>2. PICK c \in Containers : /\ request_queue[c] # <<>>
                              /\ request_queue' = [request_queue EXCEPT ![c] = Tail(@)]
  BY PopEffect
<1>3. pc'[t] = "popped" /\ \A s \in Threads : s # t => pc'[s] = pc[s]
  BY <1>1 DEF Moves
<1>4. \A d \in Containers, r \in Requests : InQueue(r, d)' => InQueue(r, d)
  <2>1. request_queue \in [Containers -> Seq(Requests)] /\ request_queue[c] \in Seq(Requests)
    BY Types
  <2>2. \A r \in Requests : Has(Tail(request_queue[c]), r) => Has(request_queue[c], r)
    BY <1>2, <2>1, HasTail, Zenon
  <2>3. \A d \in Containers :
           request_queue'[d] = IF d = c THEN Tail(request_queue[c]) ELSE request_queue[d]
    BY <1>2, <2>1
  <2> QED BY <2>2, <2>3 DEF InQueue
<1>5. Noted => Noted'
  BY <1>1, <1>3 DEF Noted
<1>6. \A s \in Threads : pc[s] = "notify" => pc'[s] = "notify"
  BY <1>1, <1>3
<1>7. ActsAs(t)
  BY <1>1, <1>3, <1>4, <1>5, <1>6 DEF ActsAs
<1> QED BY <1>3, <1>7, AwakeOK, ActsKeeps

\* A processing handler that leaves Complete() for later takes the request from its user,
\* who may be about to notify of its submission; but it is in no queue any more.  Whoever
\* delivers a request notifies.
LEMMA ProcessWakes ==
  ASSUME TypeInv, PlaceInv, WakeInv, NEW t \in Consumers,
         Process(t) \/ Process_notification(t) \/ Deliver(t)
  PROVE  WakeInv'
<1>1. /\ UNCHANGED <<containers, scan>> /\ pc[t] \in Handling /\ pc[t] # "notify"
  BY ProcessEffect DEF Handling
<1>2. PICK r \in Requests : r = hand[t]
  BY ProcessEffect
<1>3. CASE UNCHANGED done /\ \E loc \in {"relock", "completing", "delivering"} : Moves(t, loc)
  BY <1>1, <1>3, QuietWakes
<1>4. CASE Moves(t, "notify")
  <2>1. Noted'
    BY <1>4 DEF Noted, Moves
  <2> QED BY <1>1, <1>4, <2>1, QuietWakes
<1>5. CASE /\ r \notin aborted /\ UNCHANGED done
           /\ pc' = [pc EXCEPT ![t] = "relock", ![r] = "complete"]
  <2>1. pc'[t] = "relock" /\ \A s \in Threads \ {t, r} : pc'[s] = pc[s]
    BY <1>5, LaterMoves
  <2>2. \A c \in Containers : ~InQueue(r, c)
    <3>1. At(r, "hand", t)
      BY <1>1, <1>2 DEF At
    <3>2. \A c \in Containers : InQueue(r, c) => At(r, "queue", c)
      BY DEF At
    <3> QED BY <1>5, <3>1, <3>2 DEF PlaceInv
  <2>3. Noted => Noted'
    BY <1>1, <2>1 DEF Noted
  <2>4. \A q \in Requests : q # r => pc'[q] = pc[q]
    BY <2>1
  <2>5. \A u \in Consumers : u # t => pc'[u] = pc[u]
    BY <2>1
  <2>6. ActsAs(t)
    BY <1>1, <1>5, <2>2, <2>3, <2>4, <2>5 DEF ActsAs, InQueue
  <2> QED BY <2>1, <2>6, AwakeOK, ActsKeeps
<1> QED BY <1>2, <1>3, <1>4, <1>5, ProcessEffect

\* Complete(), called by the processing handler or later by the user: a request without a
\* completion context is done, and nobody waits for that on the waiter.
LEMMA CompleteWakes ==
  ASSUME TypeInv, WakeInv, NEW s \in Threads, NEW r \in Requests, NEW loc \in {"end", "relock"},
         pc[s] # "notify", Complete(s, r, loc)
  PROVE  WakeInv'
<1>0. loc \in Locations
  BY SomeLocations
<1>1. UNCHANGED <<request_queue, is_enabled, scan>>
  BY <1>0, CompleteEffect
<1>2. done' = done \/ (done' = done \cup {r} /\ Second[r] = None)
  BY <1>0, CompleteEffect
<1>3. \A q \in done' \ done : \A t \in Consumers : Target[t] # q
  BY <1>2, TargetHasContext
<1>4. PICK l \in {loc, "submitting"} : Moves(s, l)
  BY <1>0, CompleteEffect
<1> QED BY <1>1, <1>3, <1>4, QuietWakes

\* Abort(): a request somebody may wait for gets done, and that comes with a Notify().
LEMMA AbortWakes ==
  ASSUME TypeInv, WakeInv, NEW s \in Aborters \cup Containers, NEW r \in Requests,
         NEW loc \in {"end", "drain"}, pc[s] # "notify", Abort(s, r, "resubmit", loc)
  PROVE  WakeInv'
<1>0. loc \in Locations /\ "resubmit" \in Locations /\ s \in Threads \ Requests
  BY SomeLocations
<1>1. UNCHANGED <<request_queue, is_enabled, scan>>
  BY <1>0, AbortEffect
<1>2. PICK l \in {loc, "notify"} :
        /\ Moves(s, l)
        /\ done' = done \/ (done' = done \cup {r} /\ (Second[r] = None \/ l = "notify"))
  BY <1>0, AbortEffect
<1>3. l = "notify" => Noted'
  BY <1>0, <1>2 DEF Noted, Moves
<1>4. \A q \in done' \ done : Noted' \/ \A t \in Consumers : Target[t] # q
  BY <1>2, <1>3, TargetHasContext
<1> QED BY <1>0, <1>1, <1>2, <1>4, QuietWakes

LEMMA ConsumerWakes ==
  ASSUME TypeInv, PlaceInv, WakeInv, NEW t \in Consumers, ConsumerStep(t) \/ SpuriousWakeup(t)
  PROVE  WakeInv'
<1>1. CASE Complete_now(t) \/ Complete_submits(t, hand[t], "relock")
  <2>1. pc[t] # "notify"
    BY <1>1, HandSteps DEF Handling
  <2> QED BY <1>1, <2>1, HandSteps, CompleteWakes, SubmitWakes
<1> QED BY <1>1, NotifyWakes, LockWakes, NextWakes, RoundWakes, DecideWakes, WaitWakes, PopWakes,
           ProcessWakes DEF ConsumerStep

LEMMA UserWakes ==
  ASSUME TypeInv, WakeInv, NEW r \in Requests, UserStep(r)
  PROVE  WakeInv'
<1>1. CASE ~Notify(r)
  <2>1. pc[r] # "notify"
    BY <1>1, UserSteps
  <2> QED BY <1>1, <2>1, UserSteps, SubmitWakes, CompleteWakes
<1> QED BY <1>1, NotifyWakes

LEMMA AborterWakes ==
  ASSUME TypeInv, WakeInv, NEW a \in Aborters, AborterStep(a)
  PROVE  WakeInv'
<1>1. CASE ~Notify(a)
  <2>1. pc[a] # "notify"
    BY <1>1, AborterSteps
  <2> QED BY <1>1, <2>1, AborterSteps, SubmitWakes, AbortWakes
<1> QED BY <1>1, NotifyWakes

\* A container that gets enabled is empty.
LEMMA EnableWakes ==
  ASSUME TypeInv, DisableInv, WakeInv, NEW c \in Containers, Enable(c)
  PROVE  WakeInv'
<1>1. /\ pc[c] = "off" /\ UNCHANGED <<request_queue, done, scan>>
      /\ is_enabled' = [is_enabled EXCEPT ![c] = TRUE]
      /\ \A t \in Threads \ {c} : \/ pc'[t] = pc[t]
                                  \/ t \in Consumers /\ pc[t] = "off" /\ pc'[t] = "loop"
  BY EnableEffect
<1>2. is_enabled \in [Containers -> BOOLEAN]
  BY Types
<1>3. /\ request_queue[c] = <<>> /\ is_enabled'[c]
      /\ \A d \in Containers : d # c => is_enabled'[d] = is_enabled[d]
  BY <1>1, <1>2 DEF DisableInv, FlagsOK
<1>4. /\ \A t \in Consumers : pc'[t] \in {pc[t], "loop"}
      /\ \A r \in Requests : pc'[r] = pc[r]
      /\ \A t \in Threads : pc[t] = "notify" => pc'[t] = "notify"
  BY <1>1
<1>5. Noted => Noted'
  BY <1>4 DEF Noted
<1>6. \A r \in Requests : ~InQueue(r, c)'
  BY <1>1, <1>3, HasEmpty DEF InQueue
<1>7. \A r \in Requests, d \in Containers : InQueue(r, d)' <=> InQueue(r, d)
  BY <1>1 DEF InQueue
<1>8. ActsAs(c)
  BY <1>1, <1>3, <1>4, <1>5, <1>6, <1>7 DEF ActsAs
<1> QED BY <1>8, ActsKeeps

\* Disabling a container comes with a Notify().
LEMMA DisableWakes ==
  ASSUME TypeInv, WakeInv, NEW c \in Containers, Disable(c) \/ DisableStep(c)
  PROVE  WakeInv'
<1>1. CASE Disable(c) \/ Set_disabled(c) \/ Join(c) \/ Disable_ends(c)
  <2>1. UNCHANGED <<request_queue, done, scan>> /\ pc[c] # "notify"
    BY <1>1, DisableEffect
  <2>2. CASE UNCHANGED is_enabled /\ \E loc \in {"notify", "abort", "end"} : Moves(c, loc)
    BY <2>1, <2>2, QuietWakes
  <2>3. CASE Moves(c, "notify") /\ mutex = None
    <3>1. Noted' /\ \A t \in Threads : t # c => pc'[t] = pc[t]
      BY <2>3 DEF Noted, Moves
    <3>2. ActsAs(c)
      BY <2>1, <2>3, <3>1 DEF ActsAs
    <3> QED BY <3>2, ActsKeeps
  <2> QED BY <1>1, <2>2, <2>3, DisableEffect
<1>2. CASE Drain(c)
  <2>1. UNCHANGED <<request_queue, is_enabled, done, scan>> /\ pc[c] # "notify"
        /\ Moves(c, "aborting")
    BY <1>2, DrainEffect
  <2> QED BY <2>1, QuietWakes
<1>3. CASE Abort_taken(c) \/ Abort_submits(c, Head(taken[c]), "drain")
  <2>1. pc[c] # "notify" /\ Head(taken[c]) \in Requests
    BY <1>3, TakenSteps
  <2> QED BY <1>3, <2>1, TakenSteps, AbortWakes, SubmitWakes
<1>4. CASE Abort_requests(c) \/ Abort_round(c)
  <2>1. UNCHANGED <<is_enabled, done, scan>> /\ mutex = None /\ pc[c] # "notify"
    BY <1>4, RoundEffect
  <2>2. PICK loc \in {"aborting", "finish"} : Moves(c, loc)
    BY <1>4, RoundEffect
  <2>3. \A d \in Containers : request_queue'[d] = request_queue[d] \/ request_queue'[d] = <<>>
    BY <1>4, RoundEffect
  <2>4. \A t \in Threads : /\ t # c => pc'[t] = pc[t]
                           /\ pc[t] = "notify" => pc'[t] = "notify"
    BY <2>1, <2>2 DEF Moves
  <2>5. Noted => Noted'
    BY <2>4 DEF Noted
  <2>6. \A d \in Containers, r \in Requests : InQueue(r, d)' => InQueue(r, d)
    BY <2>3, HasEmpty DEF InQueue
  <2>7. \A t \in Consumers : pc'[t] = pc[t]
    BY <2>4
  <2>8. ActsAs(c)
    BY <2>1, <2>4, <2>5, <2>6, <2>7 DEF ActsAs
  <2> QED BY <2>8, ActsKeeps
<1> QED BY <1>1, <1>2, <1>3, <1>4, NotifyWakes DEF DisableStep

LEMMA WakeNext ==
  ASSUME TypeInv, PlaceInv, DisableInv, WakeInv, [Next]_vars
  PROVE  WakeInv'
<1>1. CASE UNCHANGED vars
  BY <1>1 DEF vars, WakeInv, ScanOK, SleepOK, Noted, Watches, InQueue
<1>2. CASE Next
  BY <1>2, ConsumerWakes, UserWakes, AborterWakes, EnableWakes, DisableWakes DEF Next
<1> QED BY <1>1, <1>2

LEMMA WakeInit == Init => WakeInv
<1> SUFFICES ASSUME Init PROVE WakeInv
  OBVIOUS
<1>1. \A t \in Consumers : pc[t] = "off"
  BY DEF Init
<1> QED BY <1>1 DEF WakeInv, ScanOK, SleepOK

-----------------------------------------------------------------------------
(* The theorems.                                                           *)

\* The inductive invariant.
Inv == TypeInv /\ PlaceInv /\ DisableInv /\ WakeInv

\* The inductive invariant holds in every state the threads can get the containers into.
THEOREM Invariance == Spec => []Inv
<1>1. Init => Inv
  BY TypeInit, PlaceInit, DisableInit, WakeInit DEF Inv
<1>2. Inv /\ [Next]_vars => Inv'
  BY TypeNext, PlaceNext, DisableNext, WakeNext DEF Inv
<1> QED BY <1>1, <1>2, PTL DEF Spec

\* Every variable has its type, and only a consumer inside its predicate holds the mutex of
\* the waiter: Process_requests() and the condition variable give it back in all cases.
THEOREM TypeCorrect == Spec => []TypeOK
<1>1. Inv => TypeOK
  BY TypeInvType DEF Inv
<1> QED BY <1>1, Invariance, PTL

\* No wakeup is lost, however many consumers share the waiter: when one sleeps in
\* Wait_and_process() and a container it serves has a request, is disabled, or the request
\* it waits for is done, some thread is about to call Notify().
THEOREM WakeupNotLost == Spec => []NoLostWakeup
<1>1. Inv => NoLostWakeup
  <2> SUFFICES ASSUME Inv, NEW t \in Consumers, pc[t] = "asleep", Work(t)
               PROVE  \E s \in Threads : pc[s] = "notify"
    BY DEF NoLostWakeup
  <2>1. SleepOK(t)
    BY DEF Inv, WakeInv
  <2>2. Noted => \E s \in Threads : pc[s] = "notify"
    BY DEF Noted
  <2>3. \A i \in DOMAIN Serves[t] : Serves[t][i] \in Containers /\ Watches(t, Serves[t][i])
    BY ConsumerAssumption DEF Watches
  <2>4. CASE \E i \in DOMAIN Serves[t] : /\ is_enabled[Serves[t][i]]
                                         /\ request_queue[Serves[t][i]] # <<>>
    <3>1. PICK c \in Containers : Watches(t, c) /\ is_enabled[c] /\ request_queue[c] # <<>>
      BY <2>3, <2>4
    <3>2. request_queue[c] \in Seq(Requests)
      BY Types DEF Inv
    <3>3. Head(request_queue[c]) \in Requests /\ InQueue(Head(request_queue[c]), c)
      BY <3>1, <3>2, HasTail, Zenon DEF InQueue
    <3> QED BY <2>1, <2>2, <3>1, <3>3 DEF SleepOK
  <2>5. CASE Target[t] = None /\ \E i \in DOMAIN Serves[t] : ~is_enabled[Serves[t][i]]
    BY <2>1, <2>2, <2>3, <2>5 DEF SleepOK
  <2>6. CASE Target[t] # None /\ Target[t] \in done
    BY <2>1, <2>2, <2>6 DEF SleepOK
  <2> QED BY <2>4, <2>5, <2>6 DEF Work
<1> QED BY <1>1, Invariance, PTL

\* A request that is not aborted is in one queue, in one requests_copy, with one consumer or
\* with its user: no two threads ever run its handlers.
THEOREM AtMostOnePlace == Spec => []OnePlace
<1>1. Inv => OnePlace
  <2> SUFFICES ASSUME Inv, NEW r \in Requests \ aborted PROVE Cardinality(Places(r)) <= 1
    BY DEF OnePlace
  <2>1. \A p \in Places(r) : \E k, x : p = <<k, x>> /\ At(r, k, x)
    <3>1. ASSUME NEW c \in Containers, \E i \in DOMAIN request_queue[c] : request_queue[c][i] = r
          PROVE  At(r, "queue", c)
      BY <3>1 DEF At, InQueue, Has
    <3>2. ASSUME NEW c \in Containers, \E i \in DOMAIN taken[c] : taken[c][i] = r
          PROVE  At(r, "taken", c)
      BY <3>2 DEF At, InTaken, Has
    <3>3. ASSUME NEW t \in Consumers, hand[t] = r, pc[t] \in Handling
          PROVE  At(r, "hand", t)
      BY <3>3 DEF At
    <3>4. pc[r] \in {"complete", "submitting"} => At(r, "user", r)
      BY DEF At, WithUser
    <3> QED BY <3>1, <3>2, <3>3, <3>4 DEF Places
  <2>2. \A k, x, l, y : At(r, k, x) /\ At(r, l, y) => k = l /\ x = y
    BY DEF Inv, PlaceInv
  <2>3. \A p, q \in Places(r) : p = q
    BY <2>1, <2>2
  <2>4. CASE Places(r) = {}
    BY <2>4, FS_EmptySet
  <2>5. CASE Places(r) # {}
    <3>1. PICK p : Places(r) = {p}
      BY <2>3, <2>5
    <3>2. Cardinality({p}) = 1
      BY FS_Singleton
    <3> QED BY <3>1, <3>2
  <2> QED BY <2>4, <2>5
<1> QED BY <1>1, Invariance, PTL

\* A container beyond Abort_requests() refuses every request.
LEMMA NothingEnters ==
  ASSUME Inv, [Next]_vars, NEW c \in Containers, pc[c] \in {"finish", "end"}
  PROVE  QueueKept(c)
<1>1. ~is_enabled[c] /\ ~abort_ongoing[c]
  BY DEF Inv, DisableInv, FlagsOK, Loc, Aborting
<1>2. CASE UNCHANGED vars
  BY <1>2 DEF vars, QueueKept
<1>3. CASE ClientStep
  BY <1>1, <1>3 DEF ClientStep
<1>4. ASSUME NEW d \in Containers, Enable(d) \/ Disable(d) \/ DisableStep(d), ~ClientStep
      PROVE  QueueKept(c)
  <2>1. CASE Abort_requests(d) \/ Abort_round(d)
    BY <2>1, RoundEffect DEF Inv, QueueKept
  <2>2. CASE Enable(d) \/ Disable(d) \/ Set_disabled(d) \/ Join(d) \/ Disable_ends(d)
    BY <2>2, EnableEffect, DisableEffect DEF Inv, QueueKept
  <2> QED BY <1>4, <2>1, <2>2, AbortIsClient DEF Inv, DisableStep
<1> QED BY <1>2, <1>3, <1>4, UserIsClient, AborterIsClient, ConsumerIsClient DEF Inv, Next

\* However requests are routed, and whoever aborts them meanwhile, nothing enters a container
\* once Disable() has gone beyond Abort_requests(): at most a consumer that is inside still
\* takes a request out.
THEOREM StaysDisabled == Spec => DisabledForGood
<1> DEFINE Stays == \A c \in Containers : pc[c] \in {"finish", "end"} =>
                       \/ request_queue'[c] = request_queue[c]
                       \/ request_queue[c] # <<>> /\ request_queue'[c] = Tail(request_queue[c])
<1>1. Inv /\ [Next]_vars => [Stays]_vars
  BY NothingEnters DEF QueueKept
<1>2. DisabledForGood <=> [][Stays]_vars
  BY DEF DisabledForGood
<1> QED BY <1>1, <1>2, Invariance, PTL DEF Spec

\* Whatever a user's Abort() submits to a container while that aborts its queue, every
\* request Disable() leaves in the queue has been aborted to the end: it is in ABORTED.
THEOREM LeftAborted == Spec => []OnlyAbortedLeft
<1>1. Inv => OnlyAbortedLeft
  <2> SUFFICES ASSUME Inv, NEW c \in Containers, pc[c] \in {"finish", "end"},
                      NEW i \in DOMAIN request_queue[c]
               PROVE  request_queue[c][i] \in finalized
    BY DEF OnlyAbortedLeft
  <2>1. request_queue[c] \in Seq(Requests)
    BY Types DEF Inv
  <2>2. request_queue[c][i] \in Requests /\ InQueue(request_queue[c][i], c)
    BY <2>1 DEF InQueue, Has
  <2> QED BY <2>2 DEF Inv, DisableInv, LeftOK
<1> QED BY <1>1, Invariance, PTL

=============================================================================
