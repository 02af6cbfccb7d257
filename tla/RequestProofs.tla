---------------------------- MODULE RequestProofs ----------------------------
(***************************************************************************)
(* Proofs about module Request, for any number of requests and containers. *)
(***************************************************************************)
EXTENDS Request, TLAPS

-----------------------------------------------------------------------------
(* The inductive invariant, one request at a time.                         *)

\* The members of a request agree with each other: what has been moved out,
\* processed and delivered follows from the status, and back.
MembersOK(r) ==
  LET q == req[r]
  IN /\ q.status \in Results => q.completion_processed
     /\ q.completion_processed => q.status \in Results \cup {"ABORT_PENDING", "ABORTED"}
     /\ q.completion_delivered => q.status \in Results /\ ~q.completion_handler
     /\ q.completion_context # NoContext =>
          q.completion_handler /\ Kind[q.completion_context] # "PROCESSOR"
     /\ q.completion_handler =>
          q.completion_context # NoContext \/ q.status = "ABORT_PENDING"
     /\ q.status = "ABORT_PENDING" => q.completion_handler
     /\ q.status = "ABORTED" => ~q.completion_handler
     /\ Is_aborted(r) => /\ ~q.processing_handler
                         /\ ~q.cancellation_handler
                         /\ q.completion_context = NoContext
     /\ q.processing_handler => q.status \in {"PENDING", "CANCELLATION_PENDING"}
     /\ Is_done(r) => q.done_handler # "set"

\* A handler that is still set has not run, and one that has run is never set again.
RunsOK(r) ==
  /\ req[r].processing_handler => runs[r].processing = 0
  /\ runs[r].processing = 1 => entry[r]["user"] # "none"
  /\ req[r].completion_handler => runs[r].completion = 0
  /\ runs[r].completion = 1 => req[r].completion_processed
  /\ req[r].cancellation_handler => runs[r].cancellation = 0
  /\ runs[r].cancellation = 1 => req[r].status # "PENDING"

\* The processor owns exactly the requests it works on, and aborted ones.
OwnedOK(r) ==
  /\ req[r].status \in {"PROCESSING", "CANCELING"} => r \in owned
  /\ r \in owned => Is_aborted(r) \/ req[r].status \in {"PROCESSING", "CANCELING"}

\* The entry of the user: until it is processed the request is unprocessed or aborted.
UserEntryOK(r) ==
  LET loc == entry[r]["user"]
  IN /\ loc \in {"none", "queued", "popped", "process", "taken", "notify",
                 "resubmitting", "drain", "gone"}
     /\ loc # "none" => /\ dest[r]["user"] \in Containers
                        /\ Kind[dest[r]["user"]] # "COMPLETION_CONTEXT"
     /\ loc \in {"queued", "popped", "process", "taken"} =>
          Is_aborted(r) \/ req[r].processing_handler
     /\ loc \in {"notify", "resubmitting", "drain"} => Is_aborted(r)
     /\ loc = "gone" => req[r].status \notin {"PENDING", "CANCELLATION_PENDING"}
     /\ loc = "none" => req[r].status \in {"PENDING", "CANCELLATION_PENDING",
                                           "ABORT_PENDING", "ABORTED"}

\* The entry made by Complete() carries a completed, undelivered request.
CompleteEntryOK(r) ==
  LET loc == entry[r]["complete"]
  IN /\ loc # "resubmitting"
     /\ loc # "none" => /\ req[r].completion_processed
                        /\ dest[r]["complete"] \in Containers
                        /\ Kind[dest[r]["complete"]] # "PROCESSOR"
     /\ loc \in {"submitting", "queued", "popped", "notify", "taken"} =>
          Is_aborted(r) \/ req[r].completion_handler
     /\ loc = "process" => req[r].status = "ABORTED"
     /\ loc = "drain" => Is_aborted(r)
     /\ loc = "delivering" => /\ req[r].status \in Results
                              /\ ~req[r].completion_handler

\* The entry made by Abort() carries an aborted request Complete() never submits.
AbortEntryOK(r) ==
  LET loc == entry[r]["abort"]
  IN /\ loc \notin {"delivering", "resubmitting"}
     /\ loc # "none" => /\ ~req[r].completion_processed
                        /\ Is_aborted(r)
                        /\ dest[r]["abort"] \in Containers
                        /\ Kind[dest[r]["abort"]] # "PROCESSOR"
     /\ loc = "process" => req[r].status = "ABORTED"

\* A completion handler that still has to be called or released has an entry that
\* leads to it, or one its context refused; and it is being called exactly when
\* it was moved out and has not returned.
Pending(r, o) == entry[r][o] \in {"submitting", "queued", "popped", "notify", "taken",
                                  "drain", "refused"}

HandlerReachable(r) ==
  /\ req[r].completion_handler /\ req[r].completion_processed => Pending(r, "complete")
  /\ req[r].status = "ABORT_PENDING" /\ ~req[r].completion_processed => Pending(r, "abort")
  /\ Is_completion_delivering_started(r) /\ ~Is_done(r) =>
       entry[r]["complete"] = "delivering"
  /\ entry[r]["complete"] = "delivering" => ~req[r].completion_delivered

RequestInv(r) ==
  /\ MembersOK(r) /\ RunsOK(r) /\ OwnedOK(r) /\ UserEntryOK(r)
  /\ CompleteEntryOK(r) /\ AbortEntryOK(r) /\ HandlerReachable(r)

IndInv == TypeOK /\ NoInvalidCall /\ \A r \in Requests : RequestInv(r)

-----------------------------------------------------------------------------
(* A step that leaves a request and its entries alone keeps its invariant. *)

Untouched(r) == /\ req'[r] = req[r] /\ entry'[r] = entry[r] /\ dest'[r] = dest[r]
                /\ runs'[r] = runs[r] /\ (r \in owned' <=> r \in owned)

\* The invariant of one request depends on that request alone.
LEMMA FrameLemma ==
  ASSUME NEW r \in Requests, RequestInv(r), Untouched(r)
  PROVE  RequestInv(r)'
BY DEF Untouched, RequestInv, MembersOK, RunsOK, OwnedOK, UserEntryOK, CompleteEntryOK,
       AbortEntryOK, HandlerReachable, Pending, Is_aborted, Is_done,
       Is_completion_delivering_started

\* So a step about request r preserves IndInv if it preserves it of r.
LEMMA OneRequestLemma ==
  ASSUME IndInv, NEW r \in Requests, TypeOK', NoInvalidCall', RequestInv(r)',
         \A s \in Requests \ {r} : Untouched(s)
  PROVE  IndInv'
BY FrameLemma DEF IndInv

\* A step about request r preserves the types if it preserves those of r.
Focused(r) == /\ req' = [req EXCEPT ![r] = req'[r]]
              /\ entry' = [entry EXCEPT ![r] = entry'[r]]
              /\ dest' = [dest EXCEPT ![r] = dest'[r]]
              /\ runs' = [runs EXCEPT ![r] = runs'[r]]

LEMMA TypeLemma ==
  ASSUME TypeOK, NEW r \in Requests, Focused(r), req'[r] \in RequestType,
         entry'[r] \in [Origins -> Locations], dest'[r] \in [Origins -> Contexts],
         runs'[r] \in HandlerRuns, phase' = phase, owned' \subseteq Requests,
         faults' = faults
  PROVE  TypeOK'
BY DEF TypeOK, Focused

\* Set_processing_handler preserves the invariant.
LEMMA SetProcessingLemma ==
  ASSUME IndInv, NEW r \in Requests, Set_processing_handler(r)
  PROVE  IndInv'
<1>1. req'[r] = [req[r] EXCEPT !.processing_handler = TRUE]
  BY DEF Set_processing_handler, Preparing, IndInv, TypeOK
<1>2. TypeOK'
  <2>1. req[r] \in RequestType
    BY DEF IndInv, TypeOK
  <2>2. req'[r] \in RequestType
    BY <1>1, <2>1 DEF RequestType, Status, Results, Contexts, Moved
  <2>3. QED
    BY <1>1, <2>2
    DEF Set_processing_handler, Preparing, IndInv, TypeOK, RequestType, HandlerRuns,
        RequestInv, RunsOK, Origins, Locations, Contexts, Faults
<1>3. NoInvalidCall'
  BY <1>1 DEF Set_processing_handler, Preparing, IndInv, NoInvalidCall
<1>4. RequestInv(r)'
  BY <1>1, KindAssumption, NoContextAssumption
  DEF Set_processing_handler, Preparing, IndInv, TypeOK, RequestType, HandlerRuns,
      Status, Results, Contexts, Origins, Locations, RequestInv, MembersOK, RunsOK,
      OwnedOK, UserEntryOK, CompleteEntryOK, AbortEntryOK, HandlerReachable, Pending,
      Is_aborted, Is_done, Is_completed, Is_completion_delivering_started
<1>5. \A s \in Requests \ {r} : Untouched(s)
  BY DEF Set_processing_handler, Preparing, IndInv, TypeOK, Untouched
<1>6. QED
  BY <1>2, <1>3, <1>4, <1>5, OneRequestLemma

\* Set_completion_handler preserves the invariant.
LEMMA SetCompletionLemma ==
  ASSUME IndInv, NEW r \in Requests,
         NEW c \in Containers, Set_completion_handler(r, c)
  PROVE  IndInv'
<1>1. req'[r] = [req[r] EXCEPT !.completion_handler = TRUE, !.completion_context = c]
  BY DEF Set_completion_handler, Preparing, IndInv, TypeOK
<1>2. TypeOK'
  <2>1. req[r] \in RequestType
    BY DEF IndInv, TypeOK
  <2>2. req'[r] \in RequestType
    BY <1>1, <2>1 DEF RequestType, Status, Results, Contexts, Moved
  <2>3. QED
    BY <1>1, <2>2
    DEF Set_completion_handler, Preparing, IndInv, TypeOK, RequestType, HandlerRuns,
        RequestInv, RunsOK, Origins, Locations, Contexts, Faults
<1>3. NoInvalidCall'
  BY <1>1 DEF Set_completion_handler, Preparing, IndInv, NoInvalidCall
<1>4. RequestInv(r)'
  BY <1>1, KindAssumption, NoContextAssumption
  DEF Set_completion_handler, Preparing, IndInv, TypeOK, RequestType, HandlerRuns,
      Status, Results, Contexts, Origins, Locations, RequestInv, MembersOK, RunsOK,
      OwnedOK, UserEntryOK, CompleteEntryOK, AbortEntryOK, HandlerReachable, Pending,
      Is_aborted, Is_done, Is_completed, Is_completion_delivering_started
<1>5. \A s \in Requests \ {r} : Untouched(s)
  BY DEF Set_completion_handler, Preparing, IndInv, TypeOK, Untouched
<1>6. QED
  BY <1>2, <1>3, <1>4, <1>5, OneRequestLemma

\* Set_cancellation_handler preserves the invariant.
LEMMA SetCancellationLemma ==
  ASSUME IndInv, NEW r \in Requests, Set_cancellation_handler(r)
  PROVE  IndInv'
<1>1. req'[r] = [req[r] EXCEPT !.cancellation_handler = TRUE]
  BY DEF Set_cancellation_handler, Preparing, IndInv, TypeOK
<1>2. TypeOK'
  <2>1. req[r] \in RequestType
    BY DEF IndInv, TypeOK
  <2>2. req'[r] \in RequestType
    BY <1>1, <2>1 DEF RequestType, Status, Results, Contexts, Moved
  <2>3. QED
    BY <1>1, <2>2
    DEF Set_cancellation_handler, Preparing, IndInv, TypeOK, RequestType, HandlerRuns,
        RequestInv, RunsOK, Origins, Locations, Contexts, Faults
<1>3. NoInvalidCall'
  BY <1>1 DEF Set_cancellation_handler, Preparing, IndInv, NoInvalidCall
<1>4. RequestInv(r)'
  BY <1>1, KindAssumption, NoContextAssumption
  DEF Set_cancellation_handler, Preparing, IndInv, TypeOK, RequestType, HandlerRuns,
      Status, Results, Contexts, Origins, Locations, RequestInv, MembersOK, RunsOK,
      OwnedOK, UserEntryOK, CompleteEntryOK, AbortEntryOK, HandlerReachable, Pending,
      Is_aborted, Is_done, Is_completed, Is_completion_delivering_started
<1>5. \A s \in Requests \ {r} : Untouched(s)
  BY DEF Set_cancellation_handler, Preparing, IndInv, TypeOK, Untouched
<1>6. QED
  BY <1>2, <1>3, <1>4, <1>5, OneRequestLemma

\* Set_done_handler preserves the invariant.
LEMMA SetDoneLemma ==
  ASSUME IndInv, NEW r \in Requests,
         NEW h \in {"set", "unset"}, Set_done_handler(r, h)
  PROVE  IndInv'
<1>1. req'[r] = [req[r] EXCEPT !.done_handler =
                  IF ~Is_done(r) THEN h ELSE IF h = "set" THEN "called" ELSE @]
  BY DEF Set_done_handler, IndInv, TypeOK
<1>2. TypeOK'
  <2>1. req[r] \in RequestType
    BY DEF IndInv, TypeOK
  <2>2. req'[r] \in RequestType
    BY <1>1, <2>1 DEF RequestType, Status, Results, Contexts, Moved
  <2>3. QED
    BY <1>1, <2>2
    DEF Set_done_handler, IndInv, TypeOK, RequestType, HandlerRuns, RequestInv,
        RunsOK, Origins, Locations, Contexts, Faults
<1>3. NoInvalidCall'
  BY <1>1 DEF Set_done_handler, IndInv, NoInvalidCall
<1>4. RequestInv(r)'
  BY <1>1, KindAssumption, NoContextAssumption
  DEF Set_done_handler, IndInv, TypeOK, RequestType, HandlerRuns, Status, Results,
      Contexts, Origins, Locations, RequestInv, MembersOK, RunsOK, OwnedOK,
      UserEntryOK, CompleteEntryOK, AbortEntryOK, HandlerReachable, Pending,
      Is_aborted, Is_done, Is_completed, Is_completion_delivering_started
<1>5. \A s \in Requests \ {r} : Untouched(s)
  BY DEF Set_done_handler, IndInv, TypeOK, Untouched
<1>6. QED
  BY <1>2, <1>3, <1>4, <1>5, OneRequestLemma

\* Submitting a request preserves the invariant.
LEMMA SubmitLemma ==
  ASSUME IndInv, NEW r \in Requests,
         NEW c \in Containers, Submit_request(r, c)
  PROVE  IndInv'
<1>1. /\ entry'[r] = [entry[r] EXCEPT !["user"] = IF Refusal(r, c) = {} THEN "queued" ELSE "none"]
      /\ dest'[r] = [dest[r] EXCEPT !["user"] = c]
  BY DEF Submit_request, At, Refusal, IndInv, TypeOK
<1>2. TypeOK'
  BY <1>1 DEF Submit_request, At, Refusal, IndInv, TypeOK, Origins, Locations,
              Contexts, Faults
<1>3. NoInvalidCall'
  BY <1>1 DEF Submit_request, At, Refusal, IndInv, NoInvalidCall
<1>4. RequestInv(r)'
  <2>1. /\ UNCHANGED <<req, owned, runs>> /\ entry[r]["user"] = "none"
        /\ Kind[c] # "COMPLETION_CONTEXT" /\ (req[r].processing_handler \/ Is_aborted(r))
    BY DEF Submit_request
  <2>2. /\ entry[r] \in [Origins -> Locations] /\ dest[r] \in [Origins -> Contexts]
        /\ RequestInv(r)
    BY DEF IndInv, TypeOK
  <2>3. /\ entry'[r]["user"] \in {"queued", "none"} /\ dest'[r]["user"] = c
        /\ \A o \in {"complete", "abort"} : entry'[r][o] = entry[r][o] /\ dest'[r][o] = dest[r][o]
    BY <1>1, <2>2 DEF Origins
  <2> USE DEF RequestInv, Is_aborted, Is_done, Is_completed, Is_completion_delivering_started
  <2>4. MembersOK(r)' /\ OwnedOK(r)'
    BY <2>1, <2>2 DEF MembersOK, OwnedOK
  <2>5. RunsOK(r)'
    BY <2>1, <2>2, <2>3 DEF RunsOK
  <2>6. UserEntryOK(r)'
    BY <2>1, <2>2, <2>3 DEF UserEntryOK
  <2>7. CompleteEntryOK(r)' /\ AbortEntryOK(r)'
    BY <2>1, <2>2, <2>3 DEF CompleteEntryOK, AbortEntryOK
  <2>8. HandlerReachable(r)'
    BY <2>1, <2>2, <2>3 DEF HandlerReachable, Pending
  <2> QED BY <2>4, <2>5, <2>6, <2>7, <2>8
<1>5. \A s \in Requests \ {r} : Untouched(s)
  BY DEF Submit_request, At, Refusal, IndInv, TypeOK, Untouched
<1>6. QED
  BY <1>2, <1>3, <1>4, <1>5, OneRequestLemma

\* The submission to the completion context preserves the invariant.
LEMMA SubmitToCompletionLemma ==
  ASSUME IndInv, NEW r \in Requests,
         NEW o \in Origins, Submit_to_completion(r, o)
  PROVE  IndInv'
<1>1. \E loc \in {"queued", "refused"} : entry'[r] = [entry[r] EXCEPT ![o] = loc]
  BY DEF Submit_to_completion, At, Refusal, IndInv, TypeOK
<1>2. TypeOK'
  BY <1>1 DEF Submit_to_completion, At, Refusal, IndInv, TypeOK, Origins, Locations,
              Contexts, Faults
<1>3. NoInvalidCall'
  BY <1>1 DEF Submit_to_completion, At, Refusal, IndInv, NoInvalidCall
<1>4. RequestInv(r)'
  <2>1. UNCHANGED <<req, dest, owned, runs>> /\ o # "user" /\ entry[r][o] = "submitting"
    BY DEF Submit_to_completion
  <2>2. entry[r] \in [Origins -> Locations] /\ RequestInv(r)
    BY DEF IndInv, TypeOK
  <2>3. /\ \A p \in Origins : p # o => entry'[r][p] = entry[r][p]
        /\ entry'[r][o] \in {"queued", "refused"}
        /\ {"user", "complete", "abort"} \subseteq Origins /\ o \in {"complete", "abort"}
    BY <1>1, <2>1, <2>2 DEF Origins
  <2> USE DEF RequestInv, Is_aborted, Is_done, Is_completed, Is_completion_delivering_started
  <2>4. MembersOK(r)' /\ OwnedOK(r)'
    BY <2>1, <2>2 DEF MembersOK, OwnedOK
  <2>5. RunsOK(r)' /\ UserEntryOK(r)'
    BY <2>1, <2>2, <2>3 DEF RunsOK, UserEntryOK
  <2>6. CompleteEntryOK(r)'
    BY <2>1, <2>2, <2>3 DEF CompleteEntryOK
  <2>7. AbortEntryOK(r)'
    BY <2>1, <2>2, <2>3 DEF AbortEntryOK
  <2>8. HandlerReachable(r)'
    BY <2>1, <2>2, <2>3 DEF HandlerReachable, Pending
  <2> QED BY <2>4, <2>5, <2>6, <2>7, <2>8
<1>5. \A s \in Requests \ {r} : Untouched(s)
  BY DEF Submit_to_completion, At, Refusal, IndInv, TypeOK, Untouched
<1>6. QED
  BY <1>2, <1>3, <1>4, <1>5, OneRequestLemma

\* Taking an entry off its queue preserves the invariant.
LEMMA PopLemma ==
  ASSUME IndInv, NEW r \in Requests,
         NEW o \in Origins, Pop_request(r, o)
  PROVE  IndInv'
<1>1. entry'[r] = [entry[r] EXCEPT ![o] = "popped"]
  BY DEF Pop_request, At, IndInv, TypeOK
<1>2. TypeOK'
  BY <1>1 DEF Pop_request, At, IndInv, TypeOK, Origins, Locations, Contexts, Faults
<1>3. NoInvalidCall'
  BY <1>1 DEF Pop_request, At, IndInv, NoInvalidCall
<1>4. RequestInv(r)'
  BY <1>1, KindAssumption, NoContextAssumption
  DEF Pop_request, At, IndInv, TypeOK, RequestType, HandlerRuns, Status, Results,
      Contexts, Origins, Locations, RequestInv, MembersOK, RunsOK, OwnedOK,
      UserEntryOK, CompleteEntryOK, AbortEntryOK, HandlerReachable, Pending,
      Is_aborted, Is_done, Is_completed, Is_completion_delivering_started
<1>5. \A s \in Requests \ {r} : Untouched(s)
  BY DEF Pop_request, At, IndInv, TypeOK, Untouched
<1>6. QED
  BY <1>2, <1>3, <1>4, <1>5, OneRequestLemma

\* Choosing the argument of Process() preserves the invariant.
LEMMA ProcessRequestLemma ==
  ASSUME IndInv, NEW r \in Requests,
         NEW o \in Origins, Process_request(r, o)
  PROVE  IndInv'
<1>1. /\ entry'[r] = [entry[r] EXCEPT ![o] = entry'[r][o]]
      /\ entry'[r][o] \in {"process", "notify"}
  BY DEF Process_request, At, Is_request_processing_needed, IndInv, TypeOK
<1>2. TypeOK'
  BY <1>1 DEF Process_request, At, Is_request_processing_needed, IndInv, TypeOK,
              Origins, Locations, Contexts, Faults
<1>3. NoInvalidCall'
  BY <1>1 DEF Process_request, At, Is_request_processing_needed, IndInv, NoInvalidCall
<1>4. RequestInv(r)'
  <2>1. /\ RequestInv(r) /\ req[r] \in RequestType /\ runs[r] \in HandlerRuns
        /\ entry[r] \in [Origins -> Locations]
    BY DEF IndInv, TypeOK
  <2>2. /\ req' = req /\ dest' = dest /\ owned' = owned /\ runs' = runs
        /\ entry[r][o] = "popped"
    BY DEF Process_request
  <2>3. entry'[r][o] = "process" =>
          \/ Kind[dest[r][o]] = "PROCESSOR"
          \/ Kind[dest[r][o]] = "ANY" /\ Is_request_processing_needed(r)
    BY <1>1 DEF Process_request, At, IndInv, TypeOK
  <2>4. entry'[r][o] = "notify" =>
          /\ Kind[dest[r][o]] # "PROCESSOR"
          /\ ~(Kind[dest[r][o]] = "ANY" /\ Is_request_processing_needed(r))
    BY <1>1 DEF Process_request, At, IndInv, TypeOK
  <2>5. /\ entry'[r][o] # "none" /\ entry[r][o] # "none"
        /\ \A k \in Origins \ {o} : entry'[r][k] = entry[r][k]
    BY <1>1, <2>1, <2>2
  <2>6. MembersOK(r)' /\ OwnedOK(r)'
    BY <2>1, <2>2 DEF RequestInv, MembersOK, OwnedOK, Is_aborted, Is_done
  <2>7. RunsOK(r)'
    BY <2>1, <2>2, <2>5 DEF RequestInv, RunsOK, Origins
  <2>8. UserEntryOK(r)'
    <3>1. CASE o = "user"
      BY <3>1, <1>1, <2>1, <2>2, <2>3, <2>4, KindAssumption
      DEF RequestInv, UserEntryOK, Is_aborted, Is_request_processing_needed,
          Is_completed, MembersOK, Results
    <3>2. CASE o # "user"
      BY <3>2, <2>1, <2>2, <2>5 DEF RequestInv, UserEntryOK, Is_aborted, Origins
    <3>3. QED
      BY <3>1, <3>2
  <2>9. CompleteEntryOK(r)'
    <3>1. CASE o = "complete"
      BY <3>1, <1>1, <2>1, <2>2, <2>3, <2>4
      DEF RequestInv, CompleteEntryOK, Is_aborted, Is_request_processing_needed,
          Is_completed, MembersOK, Results
    <3>2. CASE o # "complete"
      BY <3>2, <2>1, <2>2, <2>5 DEF RequestInv, CompleteEntryOK, Is_aborted, Origins
    <3>3. QED
      BY <3>1, <3>2
  <2>10. AbortEntryOK(r)'
    <3>1. CASE o = "abort"
      BY <3>1, <1>1, <2>1, <2>2, <2>3, <2>4
      DEF RequestInv, AbortEntryOK, Is_aborted, Is_request_processing_needed,
          Is_completed, MembersOK, Results
    <3>2. CASE o # "abort"
      BY <3>2, <2>1, <2>2, <2>5 DEF RequestInv, AbortEntryOK, Is_aborted, Origins
    <3>3. QED
      BY <3>1, <3>2
  <2>11. HandlerReachable(r)'
    <3>1. /\ ~Is_aborted(r) \/ req[r].status = "ABORT_PENDING" =>
                entry'[r]["complete"] # "process" /\ entry'[r]["abort"] # "process"
          /\ req[r].completion_handler => req[r].status # "ABORTED"
      BY <2>1, <2>2, <2>9, <2>10
      DEF RequestInv, MembersOK, CompleteEntryOK, AbortEntryOK, Is_aborted
    <3>2. entry'[r]["complete"] = "delivering" <=> entry[r]["complete"] = "delivering"
      BY <1>1, <2>2, <2>5 DEF Origins
    <3>3. \A k \in {"complete", "abort"} :
            Pending(r, k) /\ entry'[r][k] # "process" => Pending(r, k)'
      BY <1>1, <2>1, <2>2, <2>5 DEF Pending, Origins
    <3>4. QED
      BY <3>1, <3>2, <3>3, <2>1, <2>2
      DEF RequestInv, HandlerReachable, Is_aborted, Is_done,
          Is_completion_delivering_started
  <2>12. QED
    BY <2>6, <2>7, <2>8, <2>9, <2>10, <2>11 DEF RequestInv
<1>5. \A s \in Requests \ {r} : Untouched(s)
  BY DEF Process_request, At, Is_request_processing_needed, IndInv, TypeOK, Untouched
<1>6. QED
  BY <1>2, <1>3, <1>4, <1>5, OneRequestLemma

\* The return of the completion handler preserves the invariant.
LEMMA CompletionReturnsLemma ==
  ASSUME IndInv, NEW r \in Requests,
         NEW o \in Origins, CompletionReturns(r, o)
  PROVE  IndInv'
<1>1. /\ req'[r] = [req[r] EXCEPT !.completion_delivered = TRUE, !.done_handler = Moved(@)]
      /\ entry'[r] = [entry[r] EXCEPT ![o] = "gone"]
  BY DEF CompletionReturns, At, Moved, IndInv, TypeOK
<1>2. TypeOK'
  <2>1. req[r] \in RequestType
    BY DEF IndInv, TypeOK
  <2>2. req'[r] \in RequestType
    BY <1>1, <2>1 DEF RequestType, Status, Results, Contexts, Moved
  <2>3. QED
    BY <1>1, <2>2
    DEF CompletionReturns, At, Moved, IndInv, TypeOK, RequestType, HandlerRuns,
        RequestInv, RunsOK, Origins, Locations, Contexts, Faults
<1>3. NoInvalidCall'
  BY <1>1 DEF CompletionReturns, At, Moved, IndInv, NoInvalidCall
<1>4. RequestInv(r)'
  BY <1>1, KindAssumption, NoContextAssumption
  DEF CompletionReturns, At, Moved, IndInv, TypeOK, RequestType, HandlerRuns, Status,
      Results, Contexts, Origins, Locations, RequestInv, MembersOK, RunsOK, OwnedOK,
      UserEntryOK, CompleteEntryOK, AbortEntryOK, HandlerReachable, Pending,
      Is_aborted, Is_done, Is_completed, Is_completion_delivering_started
<1>5. \A s \in Requests \ {r} : Untouched(s)
  BY DEF CompletionReturns, At, Moved, IndInv, TypeOK, Untouched
<1>6. QED
  BY <1>2, <1>3, <1>4, <1>5, OneRequestLemma

\* Abort_requests going on after a submission preserves the invariant.
LEMMA AbortResumesLemma ==
  ASSUME IndInv, NEW r \in Requests,
         NEW o \in Origins, AbortResumes(r, o)
  PROVE  IndInv'
<1>1. entry'[r] = [entry[r] EXCEPT ![o] = "drain"]
  BY DEF AbortResumes, At, IndInv, TypeOK
<1>2. TypeOK'
  BY <1>1 DEF AbortResumes, At, IndInv, TypeOK, Origins, Locations, Contexts, Faults
<1>3. NoInvalidCall'
  BY <1>1 DEF AbortResumes, At, IndInv, NoInvalidCall
<1>4. RequestInv(r)'
  BY <1>1, KindAssumption, NoContextAssumption
  DEF AbortResumes, At, IndInv, TypeOK, RequestType, HandlerRuns, Status, Results,
      Contexts, Origins, Locations, RequestInv, MembersOK, RunsOK, OwnedOK,
      UserEntryOK, CompleteEntryOK, AbortEntryOK, HandlerReachable, Pending,
      Is_aborted, Is_done, Is_completed, Is_completion_delivering_started
<1>5. \A s \in Requests \ {r} : Untouched(s)
  BY DEF AbortResumes, At, IndInv, TypeOK, Untouched
<1>6. QED
  BY <1>2, <1>3, <1>4, <1>5, OneRequestLemma

\* Process(true) preserves the invariant: it never throws.
LEMMA WorkLemma ==
  ASSUME IndInv, NEW r \in Requests,
         NEW o \in Origins, ProcessWork(r, o)
  PROVE  IndInv'
<1>1. /\ o = "user" /\ req[r].processing_handler /\ runs[r].processing = 0
      /\ entry[r][o] = "process" /\ UNCHANGED <<dest, phase, faults>>
      /\ req[r].status \in {"PENDING", "CANCELLATION_PENDING"}
      /\ owned' = owned \cup {r}
      /\ req'[r] = [req[r] EXCEPT !.processing_handler = FALSE,
                      !.status = IF @ = "PENDING" THEN "PROCESSING" ELSE "CANCELING"]
      /\ entry'[r] = [entry[r] EXCEPT ![o] = "gone"]
      /\ runs'[r] = [runs[r] EXCEPT !.processing = 1]
  BY KindAssumption, NoContextAssumption DEF ProcessWork, At, IndInv, TypeOK,
                                             RequestType, HandlerRuns, Status,
                                             Results, Contexts, Origins, Locations,
                                             RequestInv, MembersOK, RunsOK, OwnedOK,
                                             UserEntryOK, CompleteEntryOK,
                                             AbortEntryOK, HandlerReachable, Pending,
                                             Is_aborted, Is_done, Is_completed,
                                             Is_completion_delivering_started
<1>2. TypeOK'
  <2>1. req[r] \in RequestType
    BY DEF IndInv, TypeOK
  <2>2. req'[r] \in RequestType
    BY <1>1, <2>1 DEF RequestType, Status, Results, Contexts, Moved
  <2>3. QED
    BY <1>1, <2>2
    DEF ProcessWork, At, IndInv, TypeOK, RequestType, HandlerRuns, RequestInv, RunsOK,
        Origins, Locations, Contexts, Faults
<1>3. NoInvalidCall'
  BY <1>1 DEF ProcessWork, At, IndInv, NoInvalidCall
<1>4. RequestInv(r)'
  BY <1>1, KindAssumption, NoContextAssumption
  DEF IndInv, TypeOK, RequestType, HandlerRuns, Status, Results, Contexts, Origins,
      Locations, RequestInv, MembersOK, RunsOK, OwnedOK, UserEntryOK, CompleteEntryOK,
      AbortEntryOK, HandlerReachable, Pending, Is_aborted, Is_done, Is_completed,
      Is_completion_delivering_started
<1>5. \A s \in Requests \ {r} : Untouched(s)
  BY DEF ProcessWork, At, IndInv, TypeOK, Untouched
<1>6. QED
  BY <1>2, <1>3, <1>4, <1>5, OneRequestLemma

\* Process(false) finalizes an aborted request.
LEMMA AbortedFinalized ==
  ASSUME IndInv, NEW r \in Requests,
         NEW o \in Origins,
         Is_aborted(r),
         UNCHANGED <<dest, phase, owned, runs, faults>>,
         entry[r][o] \in {"process", "notify", "drain"},
         entry'[r] = [entry[r] EXCEPT ![o] = "gone"],
         entry[r][o] # "process",
         req'[r] = [req[r] EXCEPT !.status = "ABORTED", !.completion_handler = FALSE]
  PROVE  RequestInv(r)'
<1> USE DEF IndInv, TypeOK, RequestType, HandlerRuns, Results, Origins, Locations,
            RequestInv, MembersOK, RunsOK, OwnedOK, UserEntryOK, CompleteEntryOK,
            AbortEntryOK, HandlerReachable, Pending, Is_aborted, Is_done,
            Is_completed, Is_completion_delivering_started
<1>1. MembersOK(r)'
  OBVIOUS
<1>2. RunsOK(r)'
  OBVIOUS
<1>3. OwnedOK(r)'
  OBVIOUS
<1>4. UserEntryOK(r)'
  OBVIOUS
<1>5. CompleteEntryOK(r)'
  OBVIOUS
<1>6. AbortEntryOK(r)'
  OBVIOUS
<1>7. HandlerReachable(r)'
  OBVIOUS
<1>8. QED
  BY <1>1, <1>2, <1>3, <1>4, <1>5, <1>6, <1>7

\* Process() drops an aborted request.
LEMMA AbortedDropped ==
  ASSUME IndInv, NEW r \in Requests,
         NEW o \in Origins,
         Is_aborted(r),
         UNCHANGED <<dest, phase, owned, runs, faults>>,
         entry[r][o] \in {"process", "notify", "drain"},
         entry'[r] = [entry[r] EXCEPT ![o] = "gone"],
         req[r].status = "ABORTED" \/ entry[r][o] = "process",
         req'[r] = req[r]
  PROVE  RequestInv(r)'
<1> USE DEF IndInv, TypeOK, RequestType, HandlerRuns, Results, Origins, Locations,
            RequestInv, MembersOK, RunsOK, OwnedOK, UserEntryOK, CompleteEntryOK,
            AbortEntryOK, HandlerReachable, Pending, Is_aborted, Is_done,
            Is_completed, Is_completion_delivering_started
<1>1. MembersOK(r)'
  OBVIOUS
<1>2. RunsOK(r)'
  OBVIOUS
<1>3. OwnedOK(r)'
  OBVIOUS
<1>4. UserEntryOK(r)'
  OBVIOUS
<1>5. CompleteEntryOK(r)'
  OBVIOUS
<1>6. AbortEntryOK(r)'
  OBVIOUS
<1>7. HandlerReachable(r)'
  OBVIOUS
<1>8. QED
  BY <1>1, <1>2, <1>3, <1>4, <1>5, <1>6, <1>7

\* Process() of an aborted request preserves the invariant: its assertions hold.
LEMMA AbortedLemma ==
  ASSUME IndInv, NEW r \in Requests,
         NEW o \in Origins, ProcessAborted(r, o)
  PROVE  IndInv'
<1>1. /\ Is_aborted(r)
      /\ UNCHANGED <<dest, phase, owned, runs, faults>>
      /\ entry[r][o] \in {"process", "notify", "drain"}
      /\ entry'[r] = [entry[r] EXCEPT ![o] = "gone"]
      /\ \/ /\ entry[r][o] # "process"
            /\ req'[r] = [req[r] EXCEPT !.status = "ABORTED", !.completion_handler = FALSE]
         \/ /\ req[r].status = "ABORTED" \/ entry[r][o] = "process"
            /\ req'[r] = req[r]
  <2>1. MembersOK(r) /\ req \in [Requests -> RequestType] /\ entry \in [Requests -> [Origins -> Locations]]
    BY DEF IndInv, TypeOK, RequestInv
  <2>2. /\ Is_aborted(r) /\ UNCHANGED <<dest, phase, owned, runs>>
        /\ entry[r][o] \in {"process", "notify", "drain"}
        /\ entry'[r] = [entry[r] EXCEPT ![o] = "gone"]
    BY <2>1 DEF ProcessAborted, At, Notifying
  <2>3. /\ req[r].status = "ABORT_PENDING" => req[r].completion_handler /\ req[r].completion_context = NoContext
        /\ req[r].status = "ABORTED" => ~req[r].completion_handler
    BY <2>1, <2>2 DEF MembersOK, Is_aborted
  <2>4. CASE req[r].status = "ABORT_PENDING" /\ entry[r][o] \in Notifying
    <3>1. req' = [req EXCEPT ![r].status = "ABORTED", ![r].completion_handler = FALSE] /\ UNCHANGED faults
      BY <2>3, <2>4 DEF ProcessAborted
    <3>2. req'[r] = [req[r] EXCEPT !.status = "ABORTED", !.completion_handler = FALSE]
      BY <2>1, <3>1
    <3> QED BY <2>2, <2>4, <3>1, <3>2 DEF Notifying
  <2>5. CASE ~(req[r].status = "ABORT_PENDING" /\ entry[r][o] \in Notifying)
    <3>1. UNCHANGED <<req, faults>>
      BY <2>3, <2>5 DEF ProcessAborted
    <3> QED BY <2>2, <2>5, <3>1 DEF Is_aborted, Notifying
  <2> QED BY <2>4, <2>5
<1>2. TypeOK'
  <2>1. /\ req[r] \in RequestType /\ req[r].completion_context \in Contexts
        /\ entry[r] \in [Origins -> Locations] /\ dest[r] \in [Origins -> Contexts]
        /\ runs[r] \in HandlerRuns
    BY DEF IndInv, TypeOK, RequestType
  <2>2. req'[r] \in RequestType
    BY <1>1, <2>1 DEF RequestType, Status, Results, Contexts, Moved
  <2>3. entry'[r] \in [Origins -> Locations] /\ dest'[r] \in [Origins -> Contexts]
    BY <1>1, <2>1 DEF Origins, Locations
  <2>4. runs'[r] \in HandlerRuns
    BY <1>1, <2>1 DEF HandlerRuns
  <2>5. Focused(r)
    BY DEF ProcessAborted, At, Notifying, Fault, IndInv, TypeOK, Focused
  <2>6. owned' \subseteq Requests
    BY <1>1 DEF IndInv, TypeOK
  <2>7. QED
    BY <1>1, <2>2, <2>3, <2>4, <2>5, <2>6, TypeLemma DEF IndInv
<1>3. NoInvalidCall'
  BY <1>1 DEF ProcessAborted, At, Notifying, Fault, IndInv, NoInvalidCall
<1>4. RequestInv(r)'
  BY <1>1, AbortedFinalized, AbortedDropped
<1>5. \A s \in Requests \ {r} : Untouched(s)
  BY DEF ProcessAborted, At, Notifying, Fault, IndInv, TypeOK, Untouched
<1>6. QED
  BY <1>2, <1>3, <1>4, <1>5, OneRequestLemma

\* Process(false) calls the completion handler.
LEMMA NotificationDelivers ==
  ASSUME IndInv, NEW r \in Requests,
         NEW o \in Origins,
         UNCHANGED <<dest, phase, owned, faults>>,
         entry[r][o] \in {"notify", "drain"},
         ~Is_aborted(r),
         Is_completed(r),
         req[r].completion_handler,
         entry'[r] = [entry[r] EXCEPT ![o] = "delivering"],
         req'[r] = [req[r] EXCEPT !.completion_handler = FALSE,
                                 !.completion_context = NoContext],
         runs'[r] = [runs[r] EXCEPT !.completion = 1]
  PROVE  RequestInv(r)'
<1> USE DEF Moved, IndInv, TypeOK, RequestType, HandlerRuns, Results, Origins,
            Locations, RequestInv, MembersOK, RunsOK, OwnedOK, UserEntryOK,
            CompleteEntryOK, AbortEntryOK, HandlerReachable, Pending, Is_aborted,
            Is_done, Is_completed, Is_completion_delivering_started
<1>1. MembersOK(r)'
  OBVIOUS
<1>2. RunsOK(r)'
  OBVIOUS
<1>3. OwnedOK(r)'
  OBVIOUS
<1>4. UserEntryOK(r)'
  OBVIOUS
<1>5. CompleteEntryOK(r)'
  OBVIOUS
<1>6. AbortEntryOK(r)'
  OBVIOUS
<1>7. HandlerReachable(r)'
  OBVIOUS
<1>8. QED
  BY <1>1, <1>2, <1>3, <1>4, <1>5, <1>6, <1>7

\* Process(false) finds no completion handler.
LEMMA NotificationSilent ==
  ASSUME IndInv, NEW r \in Requests,
         NEW o \in Origins,
         UNCHANGED <<dest, phase, owned, faults>>,
         entry[r][o] \in {"notify", "drain"},
         ~Is_aborted(r),
         Is_completed(r),
         ~req[r].completion_handler,
         entry'[r] = [entry[r] EXCEPT ![o] = "gone"],
         req'[r] = [req[r] EXCEPT !.done_handler = Moved(@)],
         runs'[r] = runs[r]
  PROVE  RequestInv(r)'
<1> USE DEF Moved, IndInv, TypeOK, RequestType, HandlerRuns, Results, Origins,
            Locations, RequestInv, MembersOK, RunsOK, OwnedOK, UserEntryOK,
            CompleteEntryOK, AbortEntryOK, HandlerReachable, Pending, Is_aborted,
            Is_done, Is_completed, Is_completion_delivering_started
<1>1. MembersOK(r)'
  OBVIOUS
<1>2. RunsOK(r)'
  OBVIOUS
<1>3. OwnedOK(r)'
  OBVIOUS
<1>4. UserEntryOK(r)'
  OBVIOUS
<1>5. CompleteEntryOK(r)'
  OBVIOUS
<1>6. AbortEntryOK(r)'
  OBVIOUS
<1>7. HandlerReachable(r)'
  OBVIOUS
<1>8. QED
  BY <1>1, <1>2, <1>3, <1>4, <1>5, <1>6, <1>7

\* Process(false) preserves the invariant: it is called for completed requests only.
LEMMA NotificationLemma ==
  ASSUME IndInv, NEW r \in Requests,
         NEW o \in Origins, ProcessNotification(r, o)
  PROVE  IndInv'
<1>1. /\ UNCHANGED <<dest, phase, owned, faults>>
      /\ entry[r][o] \in {"notify", "drain"}
      /\ ~Is_aborted(r)
      /\ Is_completed(r)
      /\ \/ /\ req[r].completion_handler
            /\ entry'[r] = [entry[r] EXCEPT ![o] = "delivering"]
            /\ req'[r] = [req[r] EXCEPT !.completion_handler = FALSE,
                                    !.completion_context = NoContext]
            /\ runs'[r] = [runs[r] EXCEPT !.completion = 1]
         \/ /\ ~req[r].completion_handler
            /\ entry'[r] = [entry[r] EXCEPT ![o] = "gone"]
            /\ req'[r] = [req[r] EXCEPT !.done_handler = Moved(@)]
            /\ runs'[r] = runs[r]
  BY KindAssumption, NoContextAssumption DEF ProcessNotification, At, Notifying,
                                             Fault, Moved, IndInv, TypeOK,
                                             RequestType, HandlerRuns, Status,
                                             Results, Contexts, Origins, Locations,
                                             RequestInv, MembersOK, RunsOK, OwnedOK,
                                             UserEntryOK, CompleteEntryOK,
                                             AbortEntryOK, HandlerReachable, Pending,
                                             Is_aborted, Is_done, Is_completed,
                                             Is_completion_delivering_started
<1>2. TypeOK'
  <2>1. /\ req[r] \in RequestType /\ req[r].completion_context \in Contexts
        /\ entry[r] \in [Origins -> Locations] /\ dest[r] \in [Origins -> Contexts]
        /\ runs[r] \in HandlerRuns
    BY DEF IndInv, TypeOK, RequestType
  <2>2. req'[r] \in RequestType
    BY <1>1, <2>1 DEF RequestType, Status, Results, Contexts, Moved
  <2>3. entry'[r] \in [Origins -> Locations] /\ dest'[r] \in [Origins -> Contexts]
    BY <1>1, <2>1 DEF Origins, Locations
  <2>4. runs'[r] \in HandlerRuns
    BY <1>1, <2>1 DEF HandlerRuns
  <2>5. Focused(r)
    <3>1. /\ req \in [Requests -> RequestType] /\ entry \in [Requests -> [Origins -> Locations]]
          /\ dest \in [Requests -> [Origins -> Contexts]] /\ runs \in [Requests -> HandlerRuns]
      BY DEF IndInv, TypeOK
    <3>2. entry' = [entry EXCEPT ![r] = entry'[r]]
      BY <1>1, <3>1 DEF ProcessNotification, At
    <3>3. req' = [req EXCEPT ![r] = req'[r]]
      BY <1>1, <3>1 DEF ProcessNotification
    <3>4. runs' = [runs EXCEPT ![r] = runs'[r]]
      BY <1>1, <3>1 DEF ProcessNotification
    <3>5. dest' = [dest EXCEPT ![r] = dest'[r]]
      BY <1>1, <3>1
    <3> QED BY <3>2, <3>3, <3>4, <3>5 DEF Focused
  <2>6. owned' \subseteq Requests
    BY <1>1 DEF IndInv, TypeOK
  <2>7. QED
    BY <1>1, <2>2, <2>3, <2>4, <2>5, <2>6, TypeLemma DEF IndInv
<1>3. NoInvalidCall'
  BY <1>1 DEF ProcessNotification, At, Notifying, Fault, Moved, IndInv, NoInvalidCall
<1>4. RequestInv(r)'
  BY <1>1, NotificationDelivers, NotificationSilent
<1>5. \A s \in Requests \ {r} : Untouched(s)
  BY DEF ProcessNotification, At, Notifying, Fault, Moved, IndInv, TypeOK, Untouched
<1>6. QED
  BY <1>2, <1>3, <1>4, <1>5, OneRequestLemma

\* Cancel() of a pending request.
LEMMA CancelPending ==
  ASSUME IndInv, NEW r \in Requests,
         UNCHANGED <<entry, dest, phase, owned, faults>>,
         req[r].status = "PENDING",
         req'[r] = [req[r] EXCEPT !.status = "CANCELLATION_PENDING"],
         runs'[r] = runs[r]
  PROVE  RequestInv(r)'
<1>1. RequestInv(r) /\ req[r] \in RequestType
  BY DEF IndInv, TypeOK
<1>2. /\ req'[r].status = "CANCELLATION_PENDING"
      /\ req'[r].processing_handler = req[r].processing_handler
      /\ req'[r].completion_handler = req[r].completion_handler
      /\ req'[r].completion_context = req[r].completion_context
      /\ req'[r].completion_processed = req[r].completion_processed
      /\ req'[r].completion_delivered = req[r].completion_delivered
      /\ req'[r].cancellation_handler = req[r].cancellation_handler
      /\ req'[r].done_handler = req[r].done_handler
  BY <1>1 DEF RequestType
<1> USE DEF RequestInv, Results, Is_aborted, Is_done, Is_completed,
            Is_completion_delivering_started
<1>4. MembersOK(r)'
  BY <1>1, <1>2 DEF MembersOK
<1>5. RunsOK(r)'
  BY <1>1, <1>2 DEF RunsOK
<1>6. OwnedOK(r)'
  BY <1>1, <1>2 DEF OwnedOK
<1>7. UserEntryOK(r)'
  BY <1>1, <1>2 DEF UserEntryOK
<1>8. CompleteEntryOK(r)'
  BY <1>1, <1>2 DEF CompleteEntryOK
<1>9. AbortEntryOK(r)'
  BY <1>1, <1>2 DEF AbortEntryOK
<1>10. HandlerReachable(r)'
  BY <1>1, <1>2 DEF HandlerReachable, Pending
<1> QED BY <1>4, <1>5, <1>6, <1>7, <1>8, <1>9, <1>10

\* Cancel() calls the cancellation handler.
LEMMA CancelCalls ==
  ASSUME IndInv, NEW r \in Requests,
         UNCHANGED <<entry, dest, phase, owned, faults>>,
         req[r].status = "PROCESSING",
         req[r].cancellation_handler,
         req'[r] = [req[r] EXCEPT !.cancellation_handler = FALSE],
         runs[r].cancellation = 0,
         runs'[r] = [runs[r] EXCEPT !.cancellation = @ + 1]
  PROVE  RequestInv(r)'
<1> USE DEF IndInv, TypeOK, RequestType, HandlerRuns, Results, Origins, Locations,
            RequestInv, MembersOK, RunsOK, OwnedOK, UserEntryOK, CompleteEntryOK,
            AbortEntryOK, HandlerReachable, Pending, Is_aborted, Is_done,
            Is_completed, Is_completion_delivering_started
<1>1. MembersOK(r)'
  OBVIOUS
<1>2. RunsOK(r)'
  OBVIOUS
<1>3. OwnedOK(r)'
  OBVIOUS
<1>4. UserEntryOK(r)'
  OBVIOUS
<1>5. CompleteEntryOK(r)'
  OBVIOUS
<1>6. AbortEntryOK(r)'
  OBVIOUS
<1>7. HandlerReachable(r)'
  OBVIOUS
<1>8. QED
  BY <1>1, <1>2, <1>3, <1>4, <1>5, <1>6, <1>7

\* Cancel() preserves the invariant.
LEMMA CancelLemma ==
  ASSUME IndInv, NEW r \in Requests, Cancel(r)
  PROVE  IndInv'
<1>1. /\ UNCHANGED <<entry, dest, phase, owned, faults>>
      /\ \/ /\ req[r].status = "PENDING"
            /\ req'[r] = [req[r] EXCEPT !.status = "CANCELLATION_PENDING"]
            /\ runs'[r] = runs[r]
         \/ /\ req[r].status = "PROCESSING"
            /\ req[r].cancellation_handler
            /\ req'[r] = [req[r] EXCEPT !.cancellation_handler = FALSE]
            /\ runs[r].cancellation = 0
            /\ runs'[r] = [runs[r] EXCEPT !.cancellation = @ + 1]
  BY KindAssumption, NoContextAssumption DEF Cancel, IndInv, TypeOK, HandlerRuns,
                                             RequestInv, RunsOK
<1>2. TypeOK'
  <2>1. /\ req[r] \in RequestType /\ req[r].completion_context \in Contexts
        /\ entry[r] \in [Origins -> Locations] /\ dest[r] \in [Origins -> Contexts]
        /\ runs[r] \in HandlerRuns
    BY DEF IndInv, TypeOK, RequestType
  <2>2. req'[r] \in RequestType
    BY <1>1, <2>1 DEF RequestType, Status, Results, Contexts, Moved
  <2>3. entry'[r] \in [Origins -> Locations] /\ dest'[r] \in [Origins -> Contexts]
    BY <1>1, <2>1 DEF Origins, Locations
  <2>4. runs'[r] \in HandlerRuns
    BY <1>1, <2>1 DEF HandlerRuns
  <2>5. Focused(r)
    BY DEF Cancel, IndInv, TypeOK, Focused
  <2>6. owned' \subseteq Requests
    BY <1>1 DEF IndInv, TypeOK
  <2>7. QED
    BY <1>1, <2>2, <2>3, <2>4, <2>5, <2>6, TypeLemma DEF IndInv
<1>3. NoInvalidCall'
  BY <1>1 DEF Cancel, IndInv, NoInvalidCall
<1>4. RequestInv(r)'
  BY <1>1, CancelPending, CancelCalls
<1>5. \A s \in Requests \ {r} : Untouched(s)
  BY DEF Cancel, IndInv, TypeOK, Untouched
<1>6. QED
  BY <1>2, <1>3, <1>4, <1>5, OneRequestLemma

\* Complete() ignores an aborted request.
LEMMA CompleteIgnored ==
  ASSUME IndInv, NEW r \in Requests,
         NEW x \in Results,
         UNCHANGED <<phase, runs, faults>>,
         r \in owned,
         owned' = owned \ {r},
         Is_aborted(r),
         UNCHANGED <<req, entry, dest>>
  PROVE  RequestInv(r)'
<1> USE KindAssumption, NoContextAssumption DEF Moved, IndInv, TypeOK, RequestType,
                                                HandlerRuns, Results, Origins,
                                                Locations, Contexts, RequestInv,
                                                MembersOK, RunsOK, OwnedOK,
                                                UserEntryOK, CompleteEntryOK,
                                                AbortEntryOK, HandlerReachable,
                                                Pending, Is_aborted, Is_done,
                                                Is_completed,
                                                Is_completion_delivering_started
<1>1. MembersOK(r)'
  OBVIOUS
<1>2. RunsOK(r)'
  OBVIOUS
<1>3. OwnedOK(r)'
  OBVIOUS
<1>4. UserEntryOK(r)'
  OBVIOUS
<1>5. CompleteEntryOK(r)'
  OBVIOUS
<1>6. AbortEntryOK(r)'
  OBVIOUS
<1>7. HandlerReachable(r)'
  OBVIOUS
<1>8. QED
  BY <1>1, <1>2, <1>3, <1>4, <1>5, <1>6, <1>7

\* Complete() of a request with a completion handler.
LEMMA CompleteSubmits ==
  ASSUME IndInv, NEW r \in Requests,
         NEW x \in Results,
         UNCHANGED <<phase, runs, faults>>,
         r \in owned,
         owned' = owned \ {r},
         req[r].status \in {"PROCESSING", "CANCELING"},
         req[r].completion_context # NoContext,
         req'[r] = [req[r] EXCEPT !.status = x, !.cancellation_handler = FALSE,
                                 !.completion_processed = TRUE],
         entry'[r] = [entry[r] EXCEPT !["complete"] = "submitting"],
         dest'[r] = [dest[r] EXCEPT !["complete"] = req[r].completion_context]
  PROVE  RequestInv(r)'
<1> USE KindAssumption, NoContextAssumption DEF Moved, IndInv, TypeOK, RequestType,
                                                HandlerRuns, Results, Origins,
                                                Locations, Contexts, RequestInv,
                                                MembersOK, RunsOK, OwnedOK,
                                                UserEntryOK, CompleteEntryOK,
                                                AbortEntryOK, HandlerReachable,
                                                Pending, Is_aborted, Is_done,
                                                Is_completed,
                                                Is_completion_delivering_started
<1>1. MembersOK(r)'
  OBVIOUS
<1>2. RunsOK(r)'
  OBVIOUS
<1>3. OwnedOK(r)'
  OBVIOUS
<1>4. UserEntryOK(r)'
  OBVIOUS
<1>5. CompleteEntryOK(r)'
  OBVIOUS
<1>6. AbortEntryOK(r)'
  OBVIOUS
<1>7. HandlerReachable(r)'
  OBVIOUS
<1>8. QED
  BY <1>1, <1>2, <1>3, <1>4, <1>5, <1>6, <1>7

\* Complete() of a request without a completion handler.
LEMMA CompleteDelivered ==
  ASSUME IndInv, NEW r \in Requests,
         NEW x \in Results,
         UNCHANGED <<phase, runs, faults>>,
         r \in owned,
         owned' = owned \ {r},
         req[r].status \in {"PROCESSING", "CANCELING"},
         req[r].completion_context = NoContext,
         UNCHANGED <<entry, dest>>,
         req'[r] = [req[r] EXCEPT !.status = x, !.cancellation_handler = FALSE,
                                 !.completion_processed = TRUE,
                                 !.completion_delivered = TRUE,
                                 !.done_handler = Moved(@)]
  PROVE  RequestInv(r)'
<1>1. RequestInv(r) /\ req[r] \in RequestType
  BY DEF IndInv, TypeOK
<1>2. /\ req'[r].status = x /\ req'[r].status \in Results
      /\ req'[r].status \notin {"ABORTED", "ABORT_PENDING", "PENDING", "CANCELLATION_PENDING",
                               "PROCESSING", "CANCELING"}
      /\ req'[r].completion_processed /\ req'[r].completion_delivered
      /\ ~req'[r].cancellation_handler /\ req'[r].done_handler # "set"
      /\ req'[r].processing_handler = req[r].processing_handler
      /\ req'[r].completion_handler = req[r].completion_handler
      /\ req'[r].completion_context = req[r].completion_context
  BY <1>1 DEF RequestType, Results, Moved
<1>3. ~req[r].completion_handler /\ ~req[r].completion_processed /\ ~req[r].processing_handler
  BY <1>1, NoContextAssumption DEF RequestInv, MembersOK, Results
<1> USE DEF RequestInv, Is_aborted, Is_done, Is_completed, Is_completion_delivering_started
<1>4. MembersOK(r)'
  BY <1>1, <1>2, <1>3 DEF MembersOK
<1>5. RunsOK(r)'
  BY <1>1, <1>2, <1>3 DEF RunsOK
<1>6. OwnedOK(r)'
  BY <1>1, <1>2, <1>3 DEF OwnedOK
<1>7. UserEntryOK(r)'
  BY <1>1, <1>2, <1>3 DEF UserEntryOK
<1>8. CompleteEntryOK(r)'
  BY <1>1, <1>2, <1>3 DEF CompleteEntryOK
<1>9. AbortEntryOK(r)'
  BY <1>1, <1>2, <1>3 DEF AbortEntryOK
<1>10. HandlerReachable(r)'
  BY <1>1, <1>2, <1>3 DEF HandlerReachable, CompleteEntryOK, Pending
<1> QED BY <1>4, <1>5, <1>6, <1>7, <1>8, <1>9, <1>10

\* Complete() preserves the invariant: it never throws.
LEMMA CompleteLemma ==
  ASSUME IndInv, NEW r \in Requests,
         NEW x \in Results, Complete(r, x)
  PROVE  IndInv'
<1>1. /\ UNCHANGED <<phase, runs, faults>>
      /\ r \in owned
      /\ owned' = owned \ {r}
      /\ \/ /\ Is_aborted(r)
            /\ UNCHANGED <<req, entry, dest>>
         \/ /\ req[r].status \in {"PROCESSING", "CANCELING"}
            /\ req[r].completion_context # NoContext
            /\ req'[r] = [req[r] EXCEPT !.status = x, !.cancellation_handler = FALSE,
                                    !.completion_processed = TRUE]
            /\ entry'[r] = [entry[r] EXCEPT !["complete"] = "submitting"]
            /\ dest'[r] = [dest[r] EXCEPT !["complete"] = req[r].completion_context]
         \/ /\ req[r].status \in {"PROCESSING", "CANCELING"}
            /\ req[r].completion_context = NoContext
            /\ UNCHANGED <<entry, dest>>
            /\ req'[r] = [req[r] EXCEPT !.status = x, !.cancellation_handler = FALSE,
                                    !.completion_processed = TRUE,
                                    !.completion_delivered = TRUE,
                                    !.done_handler = Moved(@)]
  BY KindAssumption, NoContextAssumption DEF Complete, CompleteSection, At, Fault,
                                             IndInv, TypeOK, RequestType, HandlerRuns,
                                             Status, Results, Contexts, Origins,
                                             Locations, RequestInv, MembersOK, RunsOK,
                                             OwnedOK, UserEntryOK, CompleteEntryOK,
                                             AbortEntryOK, HandlerReachable, Pending,
                                             Is_aborted, Is_done, Is_completed,
                                             Is_completion_delivering_started
<1>2. TypeOK'
  <2>1. /\ req[r] \in RequestType /\ req[r].completion_context \in Contexts
        /\ entry[r] \in [Origins -> Locations] /\ dest[r] \in [Origins -> Contexts]
        /\ runs[r] \in HandlerRuns
    BY DEF IndInv, TypeOK, RequestType
  <2>2. req'[r] \in RequestType
    BY <1>1, <2>1 DEF RequestType, Status, Results, Contexts, Moved
  <2>3. entry'[r] \in [Origins -> Locations] /\ dest'[r] \in [Origins -> Contexts]
    BY <1>1, <2>1 DEF Origins, Locations
  <2>4. runs'[r] \in HandlerRuns
    BY <1>1, <2>1 DEF HandlerRuns
  <2>5. Focused(r)
    BY DEF Complete, CompleteSection, At, Fault, IndInv, TypeOK, Focused
  <2>6. owned' \subseteq Requests
    BY <1>1 DEF IndInv, TypeOK
  <2>7. QED
    BY <1>1, <2>2, <2>3, <2>4, <2>5, <2>6, TypeLemma DEF IndInv
<1>3. NoInvalidCall'
  BY <1>1 DEF Complete, CompleteSection, At, Fault, IndInv, NoInvalidCall
<1>4. RequestInv(r)'
  BY <1>1, CompleteIgnored, CompleteSubmits, CompleteDelivered
<1>5. \A s \in Requests \ {r} : Untouched(s)
  BY DEF Complete, CompleteSection, At, Fault, IndInv, TypeOK, Untouched
<1>6. QED
  BY <1>2, <1>3, <1>4, <1>5, OneRequestLemma

\* Abort() submits the request itself.
LEMMA AbortCallSubmits ==
  ASSUME IndInv, NEW r \in Requests,
         UNCHANGED <<phase, owned, runs, faults>>,
         Abortable(r),
         req'[r] = [req[r] EXCEPT !.status = IF req[r].completion_handler
                                             THEN "ABORT_PENDING" ELSE "ABORTED",
                                 !.processing_handler = FALSE,
                                 !.completion_context = NoContext,
                                 !.cancellation_handler = FALSE,
                                 !.done_handler = Moved(@)],
         AbortSubmits(r),
         entry'[r] = [entry[r] EXCEPT !["abort"] = "submitting"],
         dest'[r] = [dest[r] EXCEPT !["abort"] = req[r].completion_context]
  PROVE  RequestInv(r)'
<1> USE KindAssumption, NoContextAssumption DEF Abortable, AbortSubmits, Moved,
                                                IndInv, TypeOK, RequestType,
                                                HandlerRuns, Results, Origins,
                                                Locations, Contexts, RequestInv,
                                                MembersOK, RunsOK, OwnedOK,
                                                UserEntryOK, CompleteEntryOK,
                                                AbortEntryOK, HandlerReachable,
                                                Pending, Is_aborted, Is_done,
                                                Is_completed,
                                                Is_completion_delivering_started
<1>1. MembersOK(r)'
  OBVIOUS
<1>2. RunsOK(r)'
  OBVIOUS
<1>3. OwnedOK(r)'
  OBVIOUS
<1>4. UserEntryOK(r)'
  OBVIOUS
<1>5. CompleteEntryOK(r)'
  OBVIOUS
<1>6. AbortEntryOK(r)'
  OBVIOUS
<1>7. HandlerReachable(r)'
  OBVIOUS
<1>8. QED
  BY <1>1, <1>2, <1>3, <1>4, <1>5, <1>6, <1>7

\* Abort() leaves the submission to Complete(), or there is nothing to submit.
LEMMA AbortCallSilent ==
  ASSUME IndInv, NEW r \in Requests,
         UNCHANGED <<phase, owned, runs, faults>>,
         Abortable(r),
         req'[r] = [req[r] EXCEPT !.status = IF req[r].completion_handler
                                             THEN "ABORT_PENDING" ELSE "ABORTED",
                                 !.processing_handler = FALSE,
                                 !.completion_context = NoContext,
                                 !.cancellation_handler = FALSE,
                                 !.done_handler = Moved(@)],
         ~AbortSubmits(r),
         UNCHANGED <<entry, dest>>
  PROVE  RequestInv(r)'
<1> USE KindAssumption, NoContextAssumption DEF Abortable, AbortSubmits, Moved,
                                                IndInv, TypeOK, RequestType,
                                                HandlerRuns, Results, Origins,
                                                Locations, Contexts, RequestInv,
                                                MembersOK, RunsOK, OwnedOK,
                                                UserEntryOK, CompleteEntryOK,
                                                AbortEntryOK, HandlerReachable,
                                                Pending, Is_aborted, Is_done,
                                                Is_completed,
                                                Is_completion_delivering_started
<1>1. MembersOK(r)'
  OBVIOUS
<1>2. RunsOK(r)'
  OBVIOUS
<1>3. OwnedOK(r)'
  OBVIOUS
<1>4. UserEntryOK(r)'
  OBVIOUS
<1>5. CompleteEntryOK(r)'
  OBVIOUS
<1>6. AbortEntryOK(r)'
  OBVIOUS
<1>7. HandlerReachable(r)'
  OBVIOUS
<1>8. QED
  BY <1>1, <1>2, <1>3, <1>4, <1>5, <1>6, <1>7

\* Abort() preserves the invariant.
LEMMA AbortCallLemma ==
  ASSUME IndInv, NEW r \in Requests, Abort(r)
  PROVE  IndInv'
<1>1. /\ UNCHANGED <<phase, owned, runs, faults>>
      /\ Abortable(r)
      /\ req'[r] = [req[r] EXCEPT !.status = IF req[r].completion_handler
                                             THEN "ABORT_PENDING" ELSE "ABORTED",
                                 !.processing_handler = FALSE,
                                 !.completion_context = NoContext,
                                 !.cancellation_handler = FALSE,
                                 !.done_handler = Moved(@)]
      /\ \/ /\ AbortSubmits(r)
            /\ entry'[r] = [entry[r] EXCEPT !["abort"] = "submitting"]
            /\ dest'[r] = [dest[r] EXCEPT !["abort"] = req[r].completion_context]
         \/ /\ ~AbortSubmits(r)
            /\ UNCHANGED <<entry, dest>>
  BY KindAssumption, NoContextAssumption DEF Abort, AbortSection, At, IndInv, TypeOK,
                                             Is_aborted
<1>2. TypeOK'
  <2>1. /\ req[r] \in RequestType /\ req[r].completion_context \in Contexts
        /\ entry[r] \in [Origins -> Locations] /\ dest[r] \in [Origins -> Contexts]
        /\ runs[r] \in HandlerRuns
    BY DEF IndInv, TypeOK, RequestType
  <2>2. req'[r] \in RequestType
    BY <1>1, <2>1 DEF RequestType, Status, Results, Contexts, Moved
  <2>3. entry'[r] \in [Origins -> Locations] /\ dest'[r] \in [Origins -> Contexts]
    BY <1>1, <2>1 DEF Origins, Locations
  <2>4. runs'[r] \in HandlerRuns
    BY <1>1, <2>1 DEF HandlerRuns
  <2>5. Focused(r)
    BY DEF Abort, AbortSection, At, IndInv, TypeOK, Focused
  <2>6. owned' \subseteq Requests
    BY <1>1 DEF IndInv, TypeOK
  <2>7. QED
    BY <1>1, <2>2, <2>3, <2>4, <2>5, <2>6, TypeLemma DEF IndInv
<1>3. NoInvalidCall'
  BY <1>1 DEF Abort, AbortSection, At, IndInv, NoInvalidCall
<1>4. RequestInv(r)'
  BY <1>1, AbortCallSubmits, AbortCallSilent
<1>5. \A s \in Requests \ {r} : Untouched(s)
  BY DEF Abort, AbortSection, At, IndInv, TypeOK, Untouched
<1>6. QED
  BY <1>2, <1>3, <1>4, <1>5, OneRequestLemma

\* It finds the request done.
LEMMA AbortTakenDone ==
  ASSUME IndInv, NEW r \in Requests,
         NEW o \in Origins,
         UNCHANGED <<phase, owned, runs, faults>>,
         entry[r][o] = "taken",
         ~Abortable(r),
         UNCHANGED <<req, dest>>,
         entry'[r] = [entry[r] EXCEPT ![o] = "drain"]
  PROVE  RequestInv(r)'
<1> USE KindAssumption, NoContextAssumption DEF Abortable, AbortSubmits, Moved,
                                                IndInv, TypeOK, RequestType,
                                                HandlerRuns, Results, Origins,
                                                Locations, Contexts, RequestInv,
                                                MembersOK, RunsOK, OwnedOK,
                                                UserEntryOK, CompleteEntryOK,
                                                AbortEntryOK, HandlerReachable,
                                                Pending, Is_aborted, Is_done,
                                                Is_completed,
                                                Is_completion_delivering_started
<1>1. MembersOK(r)'
  OBVIOUS
<1>2. RunsOK(r)'
  OBVIOUS
<1>3. OwnedOK(r)'
  OBVIOUS
<1>4. UserEntryOK(r)'
  OBVIOUS
<1>5. CompleteEntryOK(r)'
  OBVIOUS
<1>6. AbortEntryOK(r)'
  OBVIOUS
<1>7. HandlerReachable(r)'
  OBVIOUS
<1>8. QED
  BY <1>1, <1>2, <1>3, <1>4, <1>5, <1>6, <1>7

\* It submits the request itself.
LEMMA AbortTakenSubmits ==
  ASSUME IndInv, NEW r \in Requests,
         NEW o \in Origins,
         UNCHANGED <<phase, owned, runs, faults>>,
         entry[r][o] = "taken",
         Abortable(r),
         req'[r] = [req[r] EXCEPT !.status = IF req[r].completion_handler
                                             THEN "ABORT_PENDING" ELSE "ABORTED",
                                 !.processing_handler = FALSE,
                                 !.completion_context = NoContext,
                                 !.cancellation_handler = FALSE,
                                 !.done_handler = Moved(@)],
         AbortSubmits(r),
         entry'[r] = [entry[r] EXCEPT ![o] = "resubmitting", !["abort"] = "submitting"],
         dest'[r] = [dest[r] EXCEPT !["abort"] = req[r].completion_context]
  PROVE  RequestInv(r)'
<1> USE KindAssumption, NoContextAssumption DEF Abortable, AbortSubmits, Moved,
                                                IndInv, TypeOK, RequestType,
                                                HandlerRuns, Results, Origins,
                                                Locations, Contexts, RequestInv,
                                                MembersOK, RunsOK, OwnedOK,
                                                UserEntryOK, CompleteEntryOK,
                                                AbortEntryOK, HandlerReachable,
                                                Pending, Is_aborted, Is_done,
                                                Is_completed,
                                                Is_completion_delivering_started
<1>1. MembersOK(r)'
  OBVIOUS
<1>2. RunsOK(r)'
  OBVIOUS
<1>3. OwnedOK(r)'
  OBVIOUS
<1>4. UserEntryOK(r)'
  OBVIOUS
<1>5. CompleteEntryOK(r)'
  OBVIOUS
<1>6. AbortEntryOK(r)'
  OBVIOUS
<1>7. HandlerReachable(r)'
  OBVIOUS
<1>8. QED
  BY <1>1, <1>2, <1>3, <1>4, <1>5, <1>6, <1>7

\* It does not submit the request.
LEMMA AbortTakenSilent ==
  ASSUME IndInv, NEW r \in Requests,
         NEW o \in Origins,
         UNCHANGED <<phase, owned, runs, faults>>,
         entry[r][o] = "taken",
         Abortable(r),
         req'[r] = [req[r] EXCEPT !.status = IF req[r].completion_handler
                                             THEN "ABORT_PENDING" ELSE "ABORTED",
                                 !.processing_handler = FALSE,
                                 !.completion_context = NoContext,
                                 !.cancellation_handler = FALSE,
                                 !.done_handler = Moved(@)],
         ~AbortSubmits(r),
         UNCHANGED dest,
         entry'[r] = [entry[r] EXCEPT ![o] = "drain"]
  PROVE  RequestInv(r)'
<1> USE KindAssumption, NoContextAssumption DEF Abortable, AbortSubmits, Moved,
                                                IndInv, TypeOK, RequestType,
                                                HandlerRuns, Results, Origins,
                                                Locations, Contexts, RequestInv,
                                                MembersOK, RunsOK, OwnedOK,
                                                UserEntryOK, CompleteEntryOK,
                                                AbortEntryOK, HandlerReachable,
                                                Pending, Is_aborted, Is_done,
                                                Is_completed,
                                                Is_completion_delivering_started
<1>1. MembersOK(r)'
  OBVIOUS
<1>2. RunsOK(r)'
  OBVIOUS
<1>3. OwnedOK(r)'
  OBVIOUS
<1>4. UserEntryOK(r)'
  OBVIOUS
<1>5. CompleteEntryOK(r)'
  OBVIOUS
<1>6. AbortEntryOK(r)'
  OBVIOUS
<1>7. HandlerReachable(r)'
  OBVIOUS
<1>8. QED
  BY <1>1, <1>2, <1>3, <1>4, <1>5, <1>6, <1>7

\* The Abort() that Abort_requests makes preserves the invariant.
LEMMA AbortTakenLemma ==
  ASSUME IndInv, NEW r \in Requests,
         NEW o \in Origins, AbortTaken(r, o)
  PROVE  IndInv'
<1>1. /\ UNCHANGED <<phase, owned, runs, faults>>
      /\ entry[r][o] = "taken"
      /\ \/ /\ ~Abortable(r)
            /\ UNCHANGED <<req, dest>>
            /\ entry'[r] = [entry[r] EXCEPT ![o] = "drain"]
         \/ /\ Abortable(r)
            /\ req'[r] = [req[r] EXCEPT !.status = IF req[r].completion_handler
                                                THEN "ABORT_PENDING" ELSE "ABORTED",
                                    !.processing_handler = FALSE,
                                    !.completion_context = NoContext,
                                    !.cancellation_handler = FALSE,
                                    !.done_handler = Moved(@)]
            /\ AbortSubmits(r)
            /\ entry'[r] = [entry[r] EXCEPT ![o] = "resubmitting", !["abort"] = "submitting"]
            /\ dest'[r] = [dest[r] EXCEPT !["abort"] = req[r].completion_context]
         \/ /\ Abortable(r)
            /\ req'[r] = [req[r] EXCEPT !.status = IF req[r].completion_handler
                                                THEN "ABORT_PENDING" ELSE "ABORTED",
                                    !.processing_handler = FALSE,
                                    !.completion_context = NoContext,
                                    !.cancellation_handler = FALSE,
                                    !.done_handler = Moved(@)]
            /\ ~AbortSubmits(r)
            /\ UNCHANGED dest
            /\ entry'[r] = [entry[r] EXCEPT ![o] = "drain"]
  <2>1. /\ req \in [Requests -> RequestType] /\ entry \in [Requests -> [Origins -> Locations]]
        /\ dest \in [Requests -> [Origins -> Contexts]] /\ "abort" \in Origins
    BY DEF IndInv, TypeOK, Origins
  <2>2. entry[r][o] = "taken" /\ UNCHANGED <<phase, owned, faults>>
    BY DEF AbortTaken
  <2>3. CASE ~Abortable(r)
    <3>1. UNCHANGED <<req, dest, runs>> /\ entry' = [entry EXCEPT ![r][o] = "drain"]
      BY <2>3 DEF AbortTaken, At
    <3>2. entry'[r] = [entry[r] EXCEPT ![o] = "drain"]
      BY <2>1, <3>1
    <3> QED BY <2>2, <2>3, <3>1, <3>2
  <2>4. CASE Abortable(r)
    <3>1. AbortSection(r)
      BY <2>4 DEF AbortTaken
    <3>2. /\ req'[r] = [req[r] EXCEPT !.status = IF req[r].completion_handler
                                                THEN "ABORT_PENDING" ELSE "ABORTED",
                                    !.processing_handler = FALSE,
                                    !.completion_context = NoContext,
                                    !.cancellation_handler = FALSE,
                                    !.done_handler = Moved(@)]
      BY <2>1, <3>1 DEF AbortSection
    <3>3. runs' = runs
      BY <3>1 DEF AbortSection
    <3>4. CASE AbortSubmits(r)
      <4>1. dest'[r] = [dest[r] EXCEPT !["abort"] = req[r].completion_context]
        BY <2>1, <3>1, <3>4 DEF AbortSection
      <4>2. entry' = [entry EXCEPT ![r][o] = "resubmitting", ![r]["abort"] = "submitting"]
        BY <2>4, <3>4 DEF AbortTaken
      <4>3. entry'[r] = [entry[r] EXCEPT ![o] = "resubmitting", !["abort"] = "submitting"]
        BY <2>1, <4>2
      <4> QED BY <2>2, <2>4, <3>2, <3>3, <3>4, <4>1, <4>3
    <3>5. CASE ~AbortSubmits(r)
      <4>1. dest' = dest
        BY <3>1, <3>5 DEF AbortSection
      <4>2. entry'[r] = [entry[r] EXCEPT ![o] = "drain"]
        BY <2>1, <2>4, <3>5 DEF AbortTaken
      <4> QED BY <2>2, <2>4, <3>2, <3>3, <3>5, <4>1, <4>2
    <3> QED BY <3>4, <3>5
  <2> QED BY <2>3, <2>4
<1>2. TypeOK'
  <2>1. /\ req[r] \in RequestType /\ req[r].completion_context \in Contexts
        /\ entry[r] \in [Origins -> Locations] /\ dest[r] \in [Origins -> Contexts]
        /\ runs[r] \in HandlerRuns
    BY DEF IndInv, TypeOK, RequestType
  <2>2. req'[r] \in RequestType
    BY <1>1, <2>1 DEF RequestType, Status, Results, Contexts, Moved
  <2>3. entry'[r] \in [Origins -> Locations] /\ dest'[r] \in [Origins -> Contexts]
    BY <1>1, <2>1 DEF Origins, Locations
  <2>4. runs'[r] \in HandlerRuns
    BY <1>1, <2>1 DEF HandlerRuns
  <2>5. Focused(r)
    BY DEF AbortTaken, AbortSection, At, IndInv, TypeOK, Focused
  <2>6. owned' \subseteq Requests
    BY <1>1 DEF IndInv, TypeOK
  <2>7. QED
    BY <1>1, <2>2, <2>3, <2>4, <2>5, <2>6, TypeLemma DEF IndInv
<1>3. NoInvalidCall'
  BY <1>1 DEF AbortTaken, AbortSection, At, IndInv, NoInvalidCall
<1>4. RequestInv(r)'
  BY <1>1, AbortTakenDone, AbortTakenSubmits, AbortTakenSilent
<1>5. \A s \in Requests \ {r} : Untouched(s)
  BY DEF AbortTaken, AbortSection, At, IndInv, TypeOK, Untouched
<1>6. QED
  BY <1>2, <1>3, <1>4, <1>5, OneRequestLemma

-----------------------------------------------------------------------------
(* Steps of containers.                                                    *)

\* Moving queued entries out of a queue keeps the invariant of a request.
LEMMA TakenLemma ==
  ASSUME IndInv, NEW r \in Requests, UNCHANGED <<req, dest, owned, runs>>,
         \A o \in Origins : \/ entry'[r][o] = entry[r][o]
                            \/ entry[r][o] = "queued" /\ entry'[r][o] = "taken"
  PROVE  RequestInv(r)'
<1> USE DEF IndInv, TypeOK, RequestType, HandlerRuns, Results, Origins, Locations,
            RequestInv, MembersOK, RunsOK, OwnedOK, UserEntryOK, CompleteEntryOK,
            AbortEntryOK, HandlerReachable, Pending, Is_aborted, Is_done,
            Is_completion_delivering_started
<1>1. MembersOK(r)' /\ RunsOK(r)' /\ OwnedOK(r)'
  OBVIOUS
<1>2. UserEntryOK(r)'
  OBVIOUS
<1>3. CompleteEntryOK(r)'
  OBVIOUS
<1>4. AbortEntryOK(r)'
  OBVIOUS
<1>5. HandlerReachable(r)'
  OBVIOUS
<1>6. QED
  BY <1>1, <1>2, <1>3, <1>4, <1>5

\* Enable() and the first step of Disable() preserve the invariant.
LEMMA SwitchLemma ==
  ASSUME IndInv, NEW c \in Containers, Enable(c) \/ Disable(c)
  PROVE  IndInv'
<1>1. TypeOK'
  BY DEF IndInv, TypeOK, Enable, Disable, Phases
<1>2. NoInvalidCall'
  BY DEF IndInv, NoInvalidCall, Enable, Disable
<1>3. \A r \in Requests : Untouched(r)
  BY DEF Enable, Disable, Untouched
<1>4. QED
  BY <1>1, <1>2, <1>3, FrameLemma DEF IndInv

\* Both steps of Abort_requests preserve the invariant.
LEMMA DisableLemma ==
  ASSUME IndInv, NEW c \in Containers, DisableStep(c)
  PROVE  IndInv'
<1>1. UNCHANGED <<req, dest, owned, runs>> /\ (TakeQueue(c) \/ UNCHANGED entry)
  BY DEF DisableStep, Abort_requests, AbortRoundEnds
<1>2. /\ phase' \in [Containers -> Phases] /\ NoInvalidCall' /\ faults' \subseteq Faults
  BY DEF DisableStep, Abort_requests, AbortRoundEnds, IndInv, TypeOK, NoInvalidCall,
         Phases, Fault, Faults
<1>3. entry' \in [Requests -> [Origins -> Locations]]
  <2>1. CASE TakeQueue(c)
    <3>1. entry \in [Requests -> [Origins -> Locations]]
      BY DEF IndInv, TypeOK
    <3>2. \A r \in Requests, o \in Origins :
             (IF dest[r][o] = c /\ entry[r][o] = "queued" THEN "taken" ELSE entry[r][o])
               \in Locations
      BY <3>1 DEF Locations
    <3>3. QED
      BY <2>1, <3>2 DEF TakeQueue
  <2>2. CASE UNCHANGED entry
    BY <2>2 DEF IndInv, TypeOK
  <2>3. QED
    BY <1>1, <2>1, <2>2
<1>4. TypeOK'
  BY <1>1, <1>2, <1>3 DEF IndInv, TypeOK
<1>5. ASSUME NEW r \in Requests, NEW o \in Origins
      PROVE  \/ entry'[r][o] = entry[r][o]
             \/ entry[r][o] = "queued" /\ entry'[r][o] = "taken"
  BY <1>1 DEF TakeQueue
<1>6. \A r \in Requests : RequestInv(r)'
  BY <1>1, <1>5, TakenLemma
<1>7. QED
  BY <1>2, <1>4, <1>6 DEF IndInv

-----------------------------------------------------------------------------
(* The invariant holds in every reachable state.                           *)

\* A new request satisfies the invariant.
LEMMA InitLemma == Init => IndInv
<1> SUFFICES ASSUME Init PROVE IndInv
  OBVIOUS
<1>1. TypeOK
  BY DEF Init, TypeOK, RequestType, HandlerRuns, Status, Contexts, Origins, Locations,
         Phases, Faults
<1>2. NoInvalidCall
  BY DEF Init, NoInvalidCall
<1>3. ASSUME NEW r \in Requests PROVE RequestInv(r)
  BY DEF Init, Results, Origins, RequestInv, MembersOK, RunsOK, OwnedOK, UserEntryOK,
         CompleteEntryOK, AbortEntryOK, HandlerReachable, Is_aborted, Is_done,
         Is_completion_delivering_started
<1>4. QED
  BY <1>1, <1>2, <1>3 DEF IndInv

\* Every step preserves the invariant, one lemma per operation.
LEMMA NextLemma == IndInv /\ [Next]_vars => IndInv'
<1> SUFFICES ASSUME IndInv, [Next]_vars PROVE IndInv'
  OBVIOUS
<1>1. CASE UNCHANGED vars
  <2>1. TypeOK' /\ NoInvalidCall'
    BY <1>1 DEF vars, IndInv, TypeOK, NoInvalidCall
  <2>2. \A r \in Requests : Untouched(r)
    BY <1>1 DEF vars, Untouched
  <2>3. QED
    BY <2>1, <2>2, FrameLemma DEF IndInv
<1>2. CASE \E r \in Requests : UserStep(r)
  BY <1>2, SetProcessingLemma, SetCancellationLemma, SetDoneLemma, SetCompletionLemma,
     SubmitLemma, CancelLemma, AbortCallLemma
  DEF UserStep
<1>3. CASE \E r \in Requests, s \in Results : Complete(r, s)
  BY <1>3, CompleteLemma
<1>4. CASE \E r \in Requests, o \in Origins : EntryStep(r, o)
  BY <1>4, SubmitToCompletionLemma, PopLemma, ProcessRequestLemma, AbortedLemma,
     WorkLemma, NotificationLemma, CompletionReturnsLemma, AbortTakenLemma,
     AbortResumesLemma
  DEF EntryStep
<1>5. CASE \E c \in Containers : Enable(c) \/ Disable(c) \/ DisableStep(c)
  BY <1>5, SwitchLemma, DisableLemma
<1>6. QED
  BY <1>1, <1>2, <1>3, <1>4, <1>5 DEF Next

\* IndInv is an invariant of the requests and their containers.
THEOREM Invariance == Spec => []IndInv
BY InitLemma, NextLemma, PTL DEF Spec

-----------------------------------------------------------------------------
(* What follows from it.                                                   *)

\* Every handler of a request runs at most once, whatever the interleaving.
THEOREM TypeCorrect == Spec => []TypeOK
<1>1. IndInv => TypeOK
  BY DEF IndInv
<1>2. QED
  BY <1>1, Invariance, PTL

\* Process() and Complete() never throw and Process()'s assertions hold.
THEOREM NeverInvalid == Spec => []NoInvalidCall
<1>1. IndInv => NoInvalidCall
  BY DEF IndInv
<1>2. QED
  BY <1>1, Invariance, PTL

\* Complete() and Abort() never both submit a request to its completion context.
THEOREM OneSubmission == Spec => []SubmittedOnce
<1>1. IndInv => SubmittedOnce
  BY DEF IndInv, SubmittedOnce, RequestInv, CompleteEntryOK, AbortEntryOK
<1>2. QED
  BY <1>1, Invariance, PTL

\* No done handler is left behind on a request that is done.
THEOREM DoneHandlerNotLeft == Spec => []DoneHandlerCalled
<1>1. IndInv => DoneHandlerCalled
  BY DEF IndInv, DoneHandlerCalled, RequestInv, MembersOK
<1>2. QED
  BY <1>1, Invariance, PTL

\* The assertions of ~Request hold of every request that nobody holds any more and
\* no completion context refused.
THEOREM DestructorSafe == Spec => []DestructorAssertions
<1>1. ASSUME IndInv, NEW r \in Requests, entry[r]["user"] # "none", ~Held(r), ~Refused(r)
      PROVE  /\ Is_done(r) /\ ~req[r].processing_handler /\ ~req[r].completion_handler
             /\ req[r].completion_context = NoContext
  <2>1. /\ RequestInv(r) /\ req[r] \in RequestType /\ entry[r] \in [Origins -> Locations]
        /\ \A o \in Origins : entry[r][o] \in {"none", "gone"}
    BY <1>1 DEF IndInv, TypeOK, Held, Refused
  <2>2. /\ entry[r]["user"] = "gone" /\ ~Pending(r, "complete") /\ ~Pending(r, "abort")
        /\ entry[r]["complete"] # "delivering" /\ r \notin owned
    BY <1>1, <2>1 DEF Held, Pending, Origins
  <2>3. /\ ~(req[r].completion_handler /\ req[r].completion_processed)
        /\ ~(req[r].status = "ABORT_PENDING" /\ ~req[r].completion_processed)
        /\ Is_completion_delivering_started(r) => Is_done(r)
    BY <2>1, <2>2 DEF RequestInv, HandlerReachable
  <2>4. req[r].status \in Results \cup {"ABORT_PENDING", "ABORTED"}
    BY <2>1, <2>2 DEF RequestInv, UserEntryOK, OwnedOK, RequestType, Status, Is_aborted
  <2>5. ~req[r].processing_handler /\ ~req[r].completion_handler
    BY <2>1, <2>3, <2>4 DEF RequestInv, MembersOK, RequestType, Results
  <2>6. req[r].completion_context = NoContext
    BY <2>1, <2>5 DEF RequestInv, MembersOK
  <2>7. Is_done(r)
    BY <2>1, <2>3, <2>4, <2>5 DEF RequestInv, MembersOK, Is_done, Is_aborted,
       Is_completion_delivering_started
  <2>8. QED
    BY <2>5, <2>6, <2>7
<1>2. IndInv => DestructorAssertions
  BY <1>1 DEF DestructorAssertions
<1>3. QED
  BY <1>2, Invariance, PTL

-----------------------------------------------------------------------------
(* Abort is final.                                                         *)

Final(r) == Is_aborted(r) => Is_aborted(r)' /\ runs'[r] = runs[r]

\* No call of a user revives an aborted request or starts a handler of it.
LEMMA UserFinal ==
  ASSUME IndInv, NEW q \in Requests, UserStep(q), NEW r \in Requests
  PROVE  Final(r)
<1> USE DEF IndInv, TypeOK, Final, Is_aborted
<1>1. CASE Set_processing_handler(q)
  BY <1>1 DEF Set_processing_handler
<1>2. CASE Set_cancellation_handler(q)
  BY <1>2 DEF Set_cancellation_handler
<1>3. CASE \E h \in {"set", "unset"} : Set_done_handler(q, h)
  BY <1>3 DEF Set_done_handler, RequestType
<1>4. CASE \E c \in Containers : Set_completion_handler(q, c)
  BY <1>4 DEF Set_completion_handler, RequestType
<1>5. CASE \E c \in Containers : Submit_request(q, c)
  BY <1>5 DEF Submit_request
<1>6. CASE Cancel(q)
  BY <1>6 DEF Cancel
<1>7. CASE Abort(q)
  BY <1>7 DEF Abort, AbortSection
<1>8. QED
  BY <1>1, <1>2, <1>3, <1>4, <1>5, <1>6, <1>7 DEF UserStep

\* Neither does its processor, which may complete it long after the abort.
LEMMA CompleteFinal ==
  ASSUME IndInv, NEW q \in Requests, NEW s \in Results, Complete(q, s), NEW r \in Requests
  PROVE  Final(r)
<1> USE DEF IndInv, TypeOK, Final, Is_aborted
<1>1. CASE Is_aborted(q)
  BY <1>1 DEF Complete
<1>2. CASE ~Is_aborted(q)
  BY <1>2 DEF Complete, CompleteSection
<1>3. QED
  BY <1>1, <1>2

\* Neither does a worker, a completion context or Abort_requests.
LEMMA EntryFinal ==
  ASSUME IndInv, NEW q \in Requests, NEW o \in Origins, EntryStep(q, o), NEW r \in Requests
  PROVE  Final(r)
<1> USE DEF IndInv, TypeOK, Final, Is_aborted
<1>1. CASE Submit_to_completion(q, o) \/ Pop_request(q, o) \/ Process_request(q, o)
           \/ AbortResumes(q, o)
  BY <1>1 DEF Submit_to_completion, Pop_request, Process_request, AbortResumes
<1>2. CASE ProcessAborted(q, o)
  <2>1. runs' = runs /\ (req'[q].status = "ABORTED" \/ req' = req)
    BY <1>2 DEF ProcessAborted, RequestType
  <2>2. r # q => req'[r] = req[r]
    BY <1>2 DEF ProcessAborted
  <2>3. QED
    BY <2>1, <2>2
<1>3. CASE ProcessWork(q, o)
  BY <1>3 DEF ProcessWork
<1>4. CASE ProcessNotification(q, o)
  <2>1. ~Is_aborted(q)
    BY <1>4 DEF ProcessNotification
  <2>2. r # q => req'[r] = req[r] /\ runs'[r] = runs[r]
    BY <1>4 DEF ProcessNotification
  <2>3. QED
    BY <2>1, <2>2
<1>5. CASE CompletionReturns(q, o)
  <2>1. runs' = runs /\ req'[r].status = req[r].status
    BY <1>5 DEF CompletionReturns, RequestType
  <2>2. QED
    BY <2>1
<1>6. CASE AbortTaken(q, o)
  <2>1. r # q => req'[r] = req[r] /\ runs'[r] = runs[r]
    BY <1>6 DEF AbortTaken, AbortSection
  <2>2. Is_aborted(q) => UNCHANGED <<req, runs>>
    BY <1>6 DEF AbortTaken, Abortable, Is_done
  <2>3. QED
    BY <2>1, <2>2
<1>7. QED
  BY <1>1, <1>2, <1>3, <1>4, <1>5, <1>6 DEF EntryStep

\* An aborted request stays aborted and none of its handlers is started any more.
THEOREM AbortFinal == Spec => AbortIsFinal
<1>1. ASSUME IndInv, [Next]_vars, NEW r \in Requests PROVE Final(r)
  <2>1. CASE UNCHANGED vars
    BY <2>1 DEF vars, Final, Is_aborted
  <2>2. CASE \E c \in Containers : Enable(c) \/ Disable(c) \/ DisableStep(c)
    BY <2>2 DEF Enable, Disable, DisableStep, Abort_requests, AbortRoundEnds, Final,
       Is_aborted
  <2>3. QED
    BY <1>1, <2>1, <2>2, UserFinal, CompleteFinal, EntryFinal DEF Next
<1>2. IndInv /\ [Next]_vars =>
        [\A r \in Requests : Is_aborted(r) => Is_aborted(r)' /\ runs'[r] = runs[r]]_vars
  BY <1>1 DEF Final
<1>3. QED
  BY <1>2, Invariance, PTL DEF Spec, AbortIsFinal

-----------------------------------------------------------------------------
(* Request implements RequestLifecycle.                                    *)

AbstractStages == [r \in Requests |-> StageOf(r)]

Callbacks == [r \in Requests |-> runs[r].completion]

\* The stage of a request stays, or moves the way RequestLifecycle allows.
StageStays(r) == StageOf(r)' = StageOf(r) /\ runs'[r].completion = runs[r].completion

StageMoves(r, from, into) == /\ StageOf(r) \in from /\ StageOf(r)' = into
                             /\ runs'[r].completion = runs[r].completion

StageDelivers(r) == /\ StageOf(r) = "finished" /\ StageOf(r)' = "delivering"
                    /\ runs'[r].completion = runs[r].completion + 1

Progresses(r) == \/ StageStays(r)
                 \/ StageMoves(r, {"created"}, "processing")
                 \/ StageMoves(r, {"processing"}, "finished")
                 \/ StageMoves(r, {"processing"}, "delivered")
                 \/ StageDelivers(r)
                 \/ StageMoves(r, {"delivering"}, "delivered")
                 \/ StageMoves(r, {"created", "processing", "finished"}, "aborted")

\* The stage of a request depends on its members only.
LEMMA StageFrame ==
  ASSUME NEW r \in Requests, req'[r] = req[r], runs'[r] = runs[r]
  PROVE  StageStays(r)
BY DEF StageStays, StageOf, Is_aborted, Is_done, Is_completed, Is_completion_delivering_started

\* A step that changes no member and starts no handler is a stutter.
LEMMA StutterLemma ==
  ASSUME UNCHANGED <<req, runs>>
  PROVE  UNCHANGED <<AbstractStages, Callbacks>>
<1>1. \A r \in Requests : StageStays(r)
  BY StageFrame
<1>2. QED
  BY <1>1 DEF AbstractStages, Callbacks, StageStays

\* A step about request r that moves its stage as RequestLifecycle allows is one of
\* the steps of RequestLifecycle, or a stutter.
LEMMA ProgressLemma ==
  ASSUME NEW r \in Requests, Progresses(r),
         \A x \in Requests \ {r} : req'[x] = req[x] /\ runs'[x] = runs[x]
  PROVE  [Lifecycle!Next]_<<AbstractStages, Callbacks>>
<1>1. \A x \in Requests \ {r} : StageStays(x)
  BY StageFrame
<1>2. AbstractStages' = [AbstractStages EXCEPT ![r] = StageOf(r)']
  BY <1>1 DEF AbstractStages, StageStays
<1>3. Callbacks' = [Callbacks EXCEPT ![r] = runs'[r].completion]
  BY <1>1 DEF Callbacks, StageStays
<1>4. ASSUME runs'[r].completion = runs[r].completion PROVE UNCHANGED Callbacks
  BY <1>3, <1>4 DEF Callbacks
<1>5. CASE StageStays(r)
  BY <1>2, <1>4, <1>5 DEF StageStays, AbstractStages
<1>6. ASSUME NEW from, NEW into, StageMoves(r, from, into)
      PROVE  Lifecycle!Move(r, from, into) /\ UNCHANGED Callbacks
  BY <1>2, <1>4, <1>6 DEF StageMoves, AbstractStages, Lifecycle!Move
<1>7. CASE StageDelivers(r)
  <2>1. Lifecycle!Move(r, {"finished"}, "delivering")
    BY <1>2, <1>7 DEF StageDelivers, AbstractStages, Lifecycle!Move
  <2>2. Lifecycle!Deliver(r)
    BY <1>3, <1>7, <2>1 DEF StageDelivers, Callbacks, Lifecycle!Deliver
  <2>3. QED
    BY <2>2 DEF Lifecycle!Next
<1>8. CASE StageMoves(r, {"created"}, "processing")
  BY <1>6, <1>8 DEF Lifecycle!Next, Lifecycle!Start, Callbacks
<1>9. CASE StageMoves(r, {"processing"}, "finished")
  BY <1>6, <1>9 DEF Lifecycle!Next, Lifecycle!Finish, Callbacks
<1>10. CASE StageMoves(r, {"processing"}, "delivered")
  BY <1>6, <1>10 DEF Lifecycle!Next, Lifecycle!FinishUnobserved, Callbacks
<1>11. CASE StageMoves(r, {"delivering"}, "delivered")
  BY <1>6, <1>11 DEF Lifecycle!Next, Lifecycle!Delivered, Callbacks
<1>12. CASE StageMoves(r, {"created", "processing", "finished"}, "aborted")
  BY <1>6, <1>12 DEF Lifecycle!Next, Lifecycle!Abort, Callbacks
<1>13. QED
  BY <1>5, <1>7, <1>8, <1>9, <1>10, <1>11, <1>12 DEF Progresses

-----------------------------------------------------------------------------
(* What the operations do to the stage of their request.                   *)

\* The stage of a request whose members agree with each other.
StageByStatus(q) ==
  IF q.status \in {"ABORTED", "ABORT_PENDING"} THEN "aborted"
  ELSE IF q.status \in {"PENDING", "CANCELLATION_PENDING"} THEN "created"
  ELSE IF q.status \in {"PROCESSING", "CANCELING"} THEN "processing"
  ELSE IF q.completion_delivered THEN "delivered"
  ELSE IF q.completion_handler THEN "finished" ELSE "delivering"

\* The members of a request decide on its stage, before a step ...
LEMMA StageTable ==
  ASSUME IndInv, NEW r \in Requests
  PROVE  StageOf(r) = StageByStatus(req[r])
<1>1. MembersOK(r) /\ req[r] \in RequestType
  BY DEF IndInv, TypeOK, RequestInv
<1>2. QED
  BY <1>1 DEF MembersOK, StageOf, StageByStatus, Is_aborted, Is_done, Is_completed,
              Is_completion_delivering_started, Results, RequestType, Status

\* ... and after it.
LEMMA StageTableNext ==
  ASSUME IndInv', NEW r \in Requests
  PROVE  StageOf(r)' = StageByStatus(req'[r])
<1>1. MembersOK(r)' /\ req'[r] \in RequestType
  BY DEF IndInv, TypeOK, RequestInv
<1>2. QED
  BY <1>1 DEF MembersOK, StageOf, StageByStatus, Is_aborted, Is_done, Is_completed,
              Is_completion_delivering_started, Results, RequestType, Status

\* The setters and Cancel() do not move the stage; Abort() does until the completion
\* handler starts.
LEMMA UserProgress ==
  ASSUME IndInv, IndInv', NEW r \in Requests, UserStep(r)
  PROVE  Progresses(r)
<1>1. StageOf(r) = StageByStatus(req[r]) /\ StageOf(r)' = StageByStatus(req'[r])
  BY StageTable, StageTableNext
<1>2. req[r] \in RequestType /\ runs[r] \in HandlerRuns /\ MembersOK(r)
  BY DEF IndInv, TypeOK, RequestInv
<1>3. CASE \/ Set_processing_handler(r) \/ Set_cancellation_handler(r)
           \/ \E h \in {"set", "unset"} : Set_done_handler(r, h)
           \/ \E c \in Containers : Set_completion_handler(r, c)
  <2>1. /\ req'[r].status = req[r].status /\ UNCHANGED runs
        /\ req'[r].completion_delivered = req[r].completion_delivered
        /\ req[r].status # "PENDING" => req'[r].completion_handler = req[r].completion_handler
    BY <1>2, <1>3 DEF Set_processing_handler, Set_cancellation_handler, Set_done_handler,
       Set_completion_handler, Preparing, IndInv, TypeOK, RequestType
  <2>2. QED
    BY <1>1, <2>1 DEF StageByStatus, Progresses, StageStays
<1>4. CASE \E c \in Containers : Submit_request(r, c)
  BY <1>1, <1>4 DEF Submit_request, Progresses, StageStays
<1>5. CASE Cancel(r)
  <2>1. /\ runs'[r].completion = runs[r].completion
        /\ \/ req[r].status = "PENDING" /\ req'[r].status = "CANCELLATION_PENDING"
           \/ req[r].status = "PROCESSING" /\ req'[r].status = "PROCESSING"
    BY <1>2, <1>5 DEF Cancel, IndInv, TypeOK, RequestType, HandlerRuns
  <2>2. QED
    BY <1>1, <2>1 DEF StageByStatus, Progresses, StageStays
<1>6. CASE Abort(r)
  <2>1. /\ runs'[r].completion = runs[r].completion
        /\ req'[r].status \in {"ABORT_PENDING", "ABORTED"}
    BY <1>2, <1>6 DEF Abort, AbortSection, IndInv, TypeOK, RequestType, HandlerRuns
  <2>2. StageOf(r) \in {"created", "processing", "finished"}
    BY <1>1, <1>2, <1>6 DEF Abort, Abortable, StageByStatus, Is_done, Is_aborted,
       Is_completion_delivering_started, MembersOK, RequestType, Status, Results
  <2>3. QED
    BY <1>1, <2>1, <2>2 DEF StageByStatus, Progresses, StageMoves
<1>7. QED
  BY <1>3, <1>4, <1>5, <1>6 DEF UserStep

\* Complete() finishes a request, or delivers it when nobody waits for it.
LEMMA CompleteProgress ==
  ASSUME IndInv, IndInv', NEW r \in Requests, NEW x \in Results, Complete(r, x)
  PROVE  Progresses(r)
<1>1. StageOf(r) = StageByStatus(req[r]) /\ StageOf(r)' = StageByStatus(req'[r])
  BY StageTable, StageTableNext
<1>2. req[r] \in RequestType /\ MembersOK(r) /\ UNCHANGED runs
  BY DEF IndInv, TypeOK, RequestInv, Complete
<1>3. CASE UNCHANGED req
  BY <1>1, <1>2, <1>3 DEF Progresses, StageStays
<1>4. CASE req[r].status \in {"PROCESSING", "CANCELING"} /\ CompleteSection(r, x)
  <2>1. CASE req[r].completion_context # NoContext
    <3>1. /\ req'[r].status = x /\ req'[r].completion_handler = req[r].completion_handler
          /\ req'[r].completion_delivered = req[r].completion_delivered
      BY <1>2, <1>4, <2>1 DEF CompleteSection, IndInv, TypeOK, RequestType
    <3>2. req[r].completion_handler /\ ~req[r].completion_delivered
      BY <1>2, <1>4, <2>1 DEF MembersOK, Results, RequestType
    <3>3. StageOf(r) = "processing" /\ StageOf(r)' = "finished"
      BY <1>1, <1>4, <3>1, <3>2 DEF StageByStatus, Results
    <3>4. QED
      BY <1>2, <3>3 DEF Progresses, StageMoves
  <2>2. CASE req[r].completion_context = NoContext
    <3>1. req'[r].status = x /\ req'[r].completion_delivered = TRUE
      BY <1>2, <1>4, <2>2 DEF CompleteSection, IndInv, TypeOK, RequestType
    <3>2. StageOf(r) = "processing" /\ StageOf(r)' = "delivered"
      BY <1>1, <1>4, <3>1 DEF StageByStatus, Results
    <3>3. QED
      BY <1>2, <3>2 DEF Progresses, StageMoves
  <2>3. QED
    BY <2>1, <2>2
<1>5. QED
  BY <1>3, <1>4 DEF Complete

\* Process() starts the processing and the completion handler, and ends the latter;
\* Abort_requests aborts.
LEMMA EntryProgress ==
  ASSUME IndInv, IndInv', NEW r \in Requests, NEW o \in Origins, EntryStep(r, o)
  PROVE  Progresses(r)
<1>1. StageOf(r) = StageByStatus(req[r]) /\ StageOf(r)' = StageByStatus(req'[r])
  BY StageTable, StageTableNext
<1>2. /\ req[r] \in RequestType /\ runs[r] \in HandlerRuns /\ MembersOK(r)
      /\ HandlerReachable(r) /\ CompleteEntryOK(r) /\ UserEntryOK(r) /\ AbortEntryOK(r)
  BY DEF IndInv, TypeOK, RequestInv
<1>3. CASE UNCHANGED <<req, runs>>
  BY <1>1, <1>3 DEF Progresses, StageStays
<1>4. CASE ProcessAborted(r, o)
  <2>1. Is_aborted(r) /\ Is_aborted(r)' /\ UNCHANGED runs
    BY <1>2, <1>4 DEF ProcessAborted, Is_aborted, IndInv, TypeOK, RequestType
  <2>2. QED
    BY <1>1, <2>1 DEF StageByStatus, Is_aborted, Progresses, StageStays
<1>5. CASE ProcessWork(r, o)
  <2>1. CASE UNCHANGED <<req, runs>>
    BY <1>3, <2>1
  <2>2. CASE req[r].status \in {"PENDING", "CANCELLATION_PENDING"} /\ req[r].processing_handler
    <3>1. req'[r].status \in {"PROCESSING", "CANCELING"}
      BY <1>2, <1>5, <2>2 DEF ProcessWork, IndInv, TypeOK, RequestType
    <3>2. runs'[r].completion = runs[r].completion
      BY <1>2, <1>5, <2>2 DEF ProcessWork, IndInv, TypeOK, HandlerRuns
    <3>3. QED
      BY <1>1, <2>2, <3>1, <3>2 DEF StageByStatus, Progresses, StageMoves
  <2>3. QED
    BY <1>5, <2>1, <2>2 DEF ProcessWork
<1>6. CASE ProcessNotification(r, o)
  <2>1. CASE Is_completed(r) /\ req[r].completion_handler
    <3>1. /\ req'[r].status = req[r].status /\ req'[r].completion_handler = FALSE
          /\ req'[r].completion_delivered = req[r].completion_delivered
      BY <1>2, <1>6, <2>1 DEF ProcessNotification, IndInv, TypeOK, RequestType
    <3>2. ~req[r].completion_delivered /\ req[r].status \in Results
      BY <1>2, <2>1 DEF MembersOK, RequestType, Is_completed
    <3>3. runs'[r].completion = runs[r].completion + 1
      BY <1>2, <1>6, <2>1 DEF ProcessNotification, IndInv, TypeOK, HandlerRuns
    <3>4. StageOf(r) = "finished" /\ StageOf(r)' = "delivering"
      BY <1>1, <2>1, <3>1, <3>2 DEF StageByStatus, Results
    <3>5. QED
      BY <3>3, <3>4 DEF Progresses, StageDelivers
  <2>2. CASE ~(Is_completed(r) /\ req[r].completion_handler)
    <3>1. /\ req'[r].status = req[r].status /\ UNCHANGED runs
          /\ req'[r].completion_handler = req[r].completion_handler
          /\ req'[r].completion_delivered = req[r].completion_delivered
      BY <1>2, <1>6, <2>2 DEF ProcessNotification, IndInv, TypeOK, RequestType
    <3>2. QED
      BY <1>1, <3>1 DEF StageByStatus, Progresses, StageStays
  <2>3. QED
    BY <2>1, <2>2
<1>7. CASE CompletionReturns(r, o)
  <2>1. /\ req'[r].status = req[r].status /\ req'[r].completion_delivered = TRUE
        /\ UNCHANGED runs
    BY <1>2, <1>7 DEF CompletionReturns, IndInv, TypeOK, RequestType
  <2>2. entry[r]["complete"] = "delivering"
    BY <1>2, <1>7 DEF CompletionReturns, Origins, UserEntryOK, AbortEntryOK
  <2>3. /\ req[r].status \in Results /\ ~req[r].completion_handler
        /\ ~req[r].completion_delivered
    BY <1>2, <2>2 DEF CompleteEntryOK, HandlerReachable
  <2>4. StageOf(r) = "delivering" /\ StageOf(r)' = "delivered"
    BY <1>1, <2>1, <2>3 DEF StageByStatus, Results
  <2>5. QED
    BY <2>1, <2>4 DEF Progresses, StageMoves
<1>8. CASE AbortTaken(r, o)
  <2>1. CASE ~Abortable(r)
    BY <1>3, <1>8, <2>1 DEF AbortTaken
  <2>2. CASE Abortable(r)
    <3>1. /\ runs'[r].completion = runs[r].completion
          /\ req'[r].status \in {"ABORT_PENDING", "ABORTED"}
      BY <1>2, <1>8, <2>2 DEF AbortTaken, AbortSection, IndInv, TypeOK, RequestType, HandlerRuns
    <3>2. StageOf(r) \in {"created", "processing", "finished"}
      BY <1>1, <1>2, <2>2 DEF Abortable, StageByStatus, Is_done, Is_aborted,
         Is_completion_delivering_started, MembersOK, RequestType, Status, Results
    <3>3. QED
      BY <1>1, <3>1, <3>2 DEF StageByStatus, Progresses, StageMoves
  <2>3. QED
    BY <2>1, <2>2
<1>9. CASE Submit_to_completion(r, o) \/ Pop_request(r, o) \/ Process_request(r, o)
           \/ AbortResumes(r, o)
  BY <1>3, <1>9 DEF Submit_to_completion, Pop_request, Process_request, AbortResumes
<1>10. QED
  BY <1>4, <1>5, <1>6, <1>7, <1>8, <1>9 DEF EntryStep

\* A step about request r leaves the members of the others alone.
LEMMA OthersStay ==
  ASSUME IndInv, NEW r \in Requests,
         \/ UserStep(r) \/ \E x \in Results : Complete(r, x)
         \/ \E o \in Origins : EntryStep(r, o)
  PROVE  \A y \in Requests \ {r} : req'[y] = req[y] /\ runs'[y] = runs[y]
<1> USE DEF IndInv, TypeOK
<1>1. CASE UserStep(r)
  BY <1>1 DEF UserStep, Set_processing_handler, Set_cancellation_handler, Set_done_handler,
              Set_completion_handler, Submit_request, Cancel, Abort, AbortSection
<1>2. CASE \E x \in Results : Complete(r, x)
  BY <1>2 DEF Complete, CompleteSection
<1>3. CASE \E o \in Origins : EntryStep(r, o)
  <2>1. PICK o \in Origins : EntryStep(r, o)
    BY <1>3
  <2>2. QED
    BY <2>1 DEF EntryStep, Submit_to_completion, Pop_request, Process_request, ProcessAborted,
       ProcessWork, ProcessNotification, CompletionReturns, AbortTaken, AbortSection,
       AbortResumes
<1>4. QED
  BY <1>1, <1>2, <1>3

\* Every step of Request is a step of RequestLifecycle or a stutter.
LEMMA RefinementStep ==
  ASSUME IndInv, IndInv', [Next]_vars
  PROVE  [Lifecycle!Next]_<<AbstractStages, Callbacks>>
<1>1. CASE UNCHANGED vars
  BY <1>1, StutterLemma DEF vars
<1>2. CASE \E c \in Containers : Enable(c) \/ Disable(c) \/ DisableStep(c)
  <2>1. UNCHANGED <<req, runs>>
    BY <1>2 DEF Enable, Disable, DisableStep, Abort_requests, AbortRoundEnds
  <2>2. QED
    BY <2>1, StutterLemma
<1>3. ASSUME NEW r \in Requests,
             \/ UserStep(r) \/ \E x \in Results : Complete(r, x)
             \/ \E o \in Origins : EntryStep(r, o)
      PROVE  [Lifecycle!Next]_<<AbstractStages, Callbacks>>
  <2>1. Progresses(r)
    BY <1>3, UserProgress, CompleteProgress, EntryProgress
  <2>2. \A y \in Requests \ {r} : req'[y] = req[y] /\ runs'[y] = runs[y]
    BY <1>3, OthersStay
  <2>3. QED
    BY <2>1, <2>2, ProgressLemma
<1>4. QED
  BY <1>1, <1>2, <1>3 DEF Next

\* Requests implement RequestLifecycle: however users, processors, workers and disabled
\* containers interleave, the completion callback runs at most once, only after the
\* processor has finished, and never after an abort.
THEOREM Refinement == Spec => ImplementsLifecycle
<1>1. Init => Lifecycle!Init
  BY DEF Init, Lifecycle!Init, StageOf, Is_aborted, Is_done, Is_completed,
         Is_completion_delivering_started, Results
<1>2. IndInv /\ IndInv' /\ [Next]_vars => [Lifecycle!Next]_Lifecycle!vars
  BY RefinementStep DEF Lifecycle!vars, AbstractStages, Callbacks
<1>3. QED
  BY <1>1, <1>2, Invariance, PTL DEF Spec, ImplementsLifecycle, Lifecycle!Spec

=============================================================================
