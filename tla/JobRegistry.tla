----------------------------- MODULE JobRegistry -----------------------------
(***************************************************************************)
(* JobRegistry and JobRecord of src/lib/orchestration/service.cpp: the     *)
(* retained-record map, the FIFO queue, the fixed worker threads and the   *)
(* per-record publication protocol.                                        *)
(*                                                                         *)
(* One action (or one operator a handler action conjoins) is one critical  *)
(* section of mutex_ or of one JobRecord::mutex, or one kernel call made   *)
(* with no lock held.  The two condition variables are wait sets: ready_   *)
(* holds the workers asleep in worker_loop, terminal_changed[j] the        *)
(* handler threads asleep in settle_close_records on record j.             *)
(*                                                                         *)
(* A record outlives its map entry (shared_ptr), so record fields are      *)
(* functions over every id and jobs_ is only the set of retained ids.      *)
(* queue_ is the set of queued ids: the id is drawn and the record pushed  *)
(* in one critical section, so the FIFO front is the smallest queued id.   *)
(***************************************************************************)
EXTENDS Integers, FiniteSets

CONSTANTS
  Handlers,            \* connection-handler threads that call the registry
  Workers,             \* fixed worker threads (maximum_concurrency of them)
  JobIdSpan,           \* number of values of next_id_; 2^64 in the code
  maximum_jobs_,       \* retained-record bound
  AllocationMayFail    \* whether std::bad_alloc can be raised

ASSUME RegistryAssumption ==
  /\ JobIdSpan \in Nat /\ JobIdSpan > 1
  /\ maximum_jobs_ \in Nat /\ maximum_jobs_ > 0
  /\ IsFiniteSet(Handlers) /\ Workers # {}
  /\ AllocationMayFail \in BOOLEAN

VARIABLES
  jobs_,             \* ids in the retained-record map
  queue_,            \* ids in the worker queue
  next_id_,          \* next id, zero once exhausted
  stopping_,         \* monotonic stop flag
  ready_,            \* workers asleep on the ready_ condition variable
  session_id,        \* record field: owning Session
  state,             \* record field: lifecycle state
  outcome,           \* record field: code of the terminal Status
  result,            \* record field: whether a result is retained
  cancellation,      \* record field: whether the token is cancelled
  terminal_changed,  \* record field: threads asleep on this record
  wpc,               \* worker control state
  held,              \* record a worker has popped, or 0
  caught             \* failure category a worker is about to publish

mapVars == <<jobs_, queue_, next_id_, stopping_>>
recordVars == <<session_id, state, outcome, result, cancellation,
                terminal_changed>>
workerVars == <<wpc, held, caught>>
registryVars == <<jobs_, queue_, next_id_, stopping_, ready_,
                  session_id, state, outcome, result, cancellation,
                  terminal_changed, wpc, held, caught>>

JobIds == 1..(JobIdSpan - 1)
NoId == 0

\* "Unborn" is an id for which no record was ever admitted.
States == {"Unborn", "Queued", "Running", "Succeeded", "Failed", "Cancelled"}

Codes == {"Ok", "Cancelled", "ResourceExhausted", "NotFound",
          "InvalidArgument", "Internal"}

WorkerStates == {"wait", "popped", "running", "compile", "execute", "publish",
                 "finish_cancelled", "finish_failure", "fence", "fallback",
                 "exit"}

terminal(s) == s \in {"Succeeded", "Failed", "Cancelled"}

MapTypeOK ==
  /\ jobs_ \subseteq JobIds /\ queue_ \subseteq JobIds
  /\ next_id_ \in 0..(JobIdSpan - 1)
  /\ stopping_ \in BOOLEAN
  /\ ready_ \subseteq Workers

RecordTypeOK ==
  /\ session_id \in [JobIds -> Nat]
  /\ state \in [JobIds -> States]
  /\ outcome \in [JobIds -> Codes]
  /\ result \in [JobIds -> BOOLEAN]
  /\ cancellation \in [JobIds -> BOOLEAN]
  /\ terminal_changed \in [JobIds -> SUBSET Handlers]

WorkerTypeOK ==
  /\ wpc \in [Workers -> WorkerStates]
  /\ held \in [Workers -> JobIds \cup {NoId}]
  /\ caught \in [Workers -> Codes]

RegistryTypeOK == MapTypeOK /\ RecordTypeOK /\ WorkerTypeOK

RegistryInit ==
  /\ jobs_ = {} /\ queue_ = {}
  /\ next_id_ = 1
  /\ stopping_ = FALSE
  /\ ready_ = {}
  /\ session_id = [j \in JobIds |-> NoId]
  /\ state = [j \in JobIds |-> "Unborn"]
  /\ outcome = [j \in JobIds |-> "Ok"]
  /\ result = [j \in JobIds |-> FALSE]
  /\ cancellation = [j \in JobIds |-> FALSE]
  /\ terminal_changed = [j \in JobIds |-> {}]
  /\ wpc = [w \in Workers |-> "wait"]
  /\ held = [w \in Workers |-> NoId]
  /\ caught = [w \in Workers |-> "Ok"]

-----------------------------------------------------------------------------
(* Operations the handlers call; each is one critical section of mutex_ or  *)
(* of one record mutex.                                                      *)

\* Mutant: the counter skips zero and starts over.
NextId_Recycles(n, span) == (n % (span - 1)) + 1

\* Mutant: the counter does not wrap.
NextId_NoWrap(n, span) == n + 1

\* uint64 increment; zero afterwards means the ids are exhausted.
NextId(n, span) == (n + 1) % span

\* Mutant: submit publishes the record without waking a worker.
NotifyOne_Lost == UNCHANGED ready_

\* ready_.notify_one() wakes some sleeping worker, if there is one.
NotifyOne ==
  \/ ready_ = {} /\ UNCHANGED ready_
  \/ \E w \in ready_ : ready_' = ready_ \ {w}

\* The category submit refuses with, or Ok when it goes on to admit.
SubmitRefusal ==
  CASE stopping_ -> "Cancelled"
    [] ~stopping_ /\ (Cardinality(jobs_) >= maximum_jobs_ \/ next_id_ = 0)
         -> "ResourceExhausted"
    [] OTHER -> "Ok"

\* submit admits one record for session s: map, queue and one wakeup.  An id
\* already in the map would be refused after being consumed.
Enqueue(s) ==
  /\ next_id_' = NextId(next_id_, JobIdSpan)
  /\ UNCHANGED <<stopping_, workerVars>>
  /\ IF next_id_ \in jobs_
     THEN UNCHANGED <<jobs_, queue_, ready_, recordVars>>
     ELSE /\ jobs_' = jobs_ \cup {next_id_}
          /\ queue_' = queue_ \cup {next_id_}
          /\ session_id' = [session_id EXCEPT ![next_id_] = s]
          /\ state' = [state EXCEPT ![next_id_] = "Queued"]
          /\ outcome' = [outcome EXCEPT ![next_id_] = "Ok"]
          /\ result' = [result EXCEPT ![next_id_] = FALSE]
          /\ cancellation' = [cancellation EXCEPT ![next_id_] = FALSE]
          /\ terminal_changed' = [terminal_changed EXCEPT ![next_id_] = {}]
          /\ NotifyOne

\* bad_alloc inside submit: from make_shared before the id is drawn, or from
\* the map or the queue after it; a map entry already made is erased again.
EnqueueThrows ==
  /\ AllocationMayFail
  /\ next_id_' \in {next_id_, NextId(next_id_, JobIdSpan)}
  /\ UNCHANGED <<jobs_, queue_, stopping_, ready_, recordVars, workerVars>>

\* cancel: a nonterminal record's token is cancelled under the record mutex.
CancelRecord(j) ==
  /\ cancellation' = [cancellation EXCEPT
                        ![j] = @ \/ ~terminal(state[j])]
  /\ UNCHANGED <<mapVars, ready_, session_id, state, outcome, result,
                 terminal_changed, workerVars>>

\* The category result answers with for a found record.
ResultCode(j) ==
  CASE state[j] = "Succeeded" /\ result[j] -> "Ok"
    [] state[j] \in {"Failed", "Cancelled"} ->
         IF outcome[j] = "Ok" THEN "Internal" ELSE outcome[j]
    [] OTHER -> "InvalidArgument"

\* Mutant: a running execution can be released.
ReleaseCode_AnyState(j) == IF j \in jobs_ THEN "Ok" ELSE "NotFound"

\* The category release answers with.
ReleaseCode(j) ==
  CASE j \notin jobs_ -> "NotFound"
    [] j \in jobs_ /\ ~terminal(state[j]) -> "InvalidArgument"
    [] OTHER -> "Ok"

\* release erases the map reference and leaves the record alone.
Release(j) ==
  /\ jobs_' = IF ReleaseCode(j) = "Ok" THEN jobs_ \ {j} ELSE jobs_
  /\ UNCHANGED <<queue_, next_id_, stopping_, ready_, recordVars, workerVars>>

OfSession(s) == {j \in JobIds : session_id[j] = s}

\* Mutant: close leaves its queued records to the workers as well.
DetachSession_KeepsQueue(s) ==
  /\ jobs_' = jobs_ \ OfSession(s)
  /\ UNCHANGED queue_
  /\ UNCHANGED <<next_id_, stopping_, ready_, recordVars, workerVars>>

\* close_session, under mutex_: every record of s leaves queue_ and jobs_.
DetachSession(s) ==
  /\ jobs_' = jobs_ \ OfSession(s)
  /\ queue_' = queue_ \ OfSession(s)
  /\ UNCHANGED <<next_id_, stopping_, ready_, recordVars, workerVars>>

-----------------------------------------------------------------------------
(* settle_close_records, one record at a time.                              *)

\* A terminal publication: every field and the wakeup under one record mutex.
Publish(j, s, c, r) ==
  /\ state' = [state EXCEPT ![j] = s]
  /\ outcome' = [outcome EXCEPT ![j] = c]
  /\ result' = [result EXCEPT ![j] = r]
  /\ terminal_changed' = [terminal_changed EXCEPT ![j] = {}]

\* A detached queued record runs through Running to Cancelled in one section.
SettleQueuedRecord(j) ==
  /\ cancellation' = [cancellation EXCEPT ![j] = TRUE]
  /\ Publish(j, "Cancelled", "Cancelled", FALSE)
  /\ UNCHANGED <<mapVars, ready_, session_id, workerVars>>

\* Mutant: close also drops the result of a record that already succeeded.
SettlePoppedRecord_DropsResult(j) ==
  /\ cancellation' = [cancellation EXCEPT ![j] = @ \/ ~terminal(state[j])]
  /\ result' = [result EXCEPT ![j] = FALSE]
  /\ UNCHANGED <<mapVars, ready_, session_id, state, outcome,
                 terminal_changed, workerVars>>

\* A popped record is cancelled unless its worker has already published.
SettlePoppedRecord(j) == CancelRecord(j)

\* One evaluation of the terminal_changed wait by thread h: fall asleep.
SleepUntilTerminal(h, j) ==
  /\ terminal_changed' = [terminal_changed EXCEPT ![j] = @ \cup {h}]
  /\ UNCHANGED <<mapVars, ready_, session_id, state, outcome, result,
                 cancellation, workerVars>>

\* The wait may also return without a notification.
WakeSpuriously(h, j) ==
  /\ h \in terminal_changed[j]
  /\ terminal_changed' = [terminal_changed EXCEPT ![j] = @ \ {h}]
  /\ UNCHANGED <<mapVars, ready_, session_id, state, outcome, result,
                 cancellation, workerVars>>

-----------------------------------------------------------------------------
(* worker_loop and execute                                                   *)

Goto(w, label) == wpc' = [wpc EXCEPT ![w] = label]

\* The predicate of the ready_ wait is false: the worker falls asleep.
WorkerSleep(w) ==
  /\ wpc[w] = "wait" /\ w \notin ready_
  /\ ~stopping_ /\ queue_ = {}
  /\ ready_' = ready_ \cup {w}
  /\ UNCHANGED <<mapVars, recordVars, workerVars>>

\* Condition variables may wake without a notification.
SpuriousWake(w) ==
  /\ w \in ready_
  /\ ready_' = ready_ \ {w}
  /\ UNCHANGED <<mapVars, recordVars, workerVars>>

WorkerExit(w) ==
  /\ wpc[w] = "wait" /\ w \notin ready_
  /\ stopping_
  /\ Goto(w, "exit")
  /\ UNCHANGED <<mapVars, ready_, recordVars, held, caught>>

WorkerPop(w) ==
  /\ wpc[w] = "wait" /\ w \notin ready_
  /\ ~stopping_
  /\ \E j \in queue_ :
       /\ \A k \in queue_ : j <= k
       /\ queue_' = queue_ \ {j}
       /\ held' = [held EXCEPT ![w] = j]
  /\ Goto(w, "popped")
  /\ UNCHANGED <<jobs_, next_id_, stopping_, ready_, recordVars, caught>>

\* The worker leaves execute and drops its reference to the record.
Done(w) ==
  /\ Goto(w, "wait")
  /\ held' = [held EXCEPT ![w] = NoId]
  /\ caught' = [caught EXCEPT ![w] = "Ok"]

\* Publishes Running; a record that is not Queued is failed instead (no record
\* in the queue is, QueueInv; the failure of that diagnostic is left out).
BeginExecute(w) ==
  /\ wpc[w] = "popped"
  /\ IF state[held[w]] # "Queued"
     THEN Publish(held[w], "Failed", "Internal", result[held[w]]) /\ Done(w)
     ELSE /\ state' = [state EXCEPT ![held[w]] = "Running"]
          /\ Goto(w, "running")
          /\ UNCHANGED <<outcome, result, terminal_changed, held, caught>>
  /\ UNCHANGED <<mapVars, ready_, session_id, cancellation>>

\* The token is read before compilation.
CheckBeforeCompile(w) ==
  /\ wpc[w] = "running"
  /\ Goto(w, IF cancellation[held[w]] THEN "finish_cancelled" ELSE "compile")
  /\ UNCHANGED <<mapVars, ready_, recordVars, held, caught>>

\* A worker with a failure category in hand goes on to publish it.
FailWith(w, c, label) ==
  /\ Goto(w, label)
  /\ caught' = [caught EXCEPT ![w] = c]
  /\ UNCHANGED held

\* Exceptions that can leave a kernel call.
Thrown == {"Internal"} \cup (IF AllocationMayFail THEN {"ResourceExhausted"}
                             ELSE {})

\* Compiler::compile (it takes no token, so its failure is never Cancelled)
\* and the second read of the token.
Compile(w) ==
  /\ wpc[w] = "compile"
  /\ \/ /\ Goto(w, IF cancellation[held[w]] THEN "finish_cancelled"
                    ELSE "execute")
        /\ UNCHANGED <<held, caught>>
     \/ FailWith(w, "InvalidArgument", "finish_failure")
     \/ \E c \in Thrown : FailWith(w, c, "fence")
  /\ UNCHANGED <<mapVars, ready_, recordVars>>

\* ExecutionContext::execute returns; a failure is read together with the
\* token.  The kernel may report Cancelled on its own account.
Execute(w) ==
  /\ wpc[w] = "execute"
  /\ \/ Goto(w, "publish") /\ UNCHANGED <<held, caught>>
     \/ Goto(w, "finish_cancelled") /\ UNCHANGED <<held, caught>>
     \/ ~cancellation[held[w]] /\ FailWith(w, "Internal", "finish_failure")
     \/ \E c \in Thrown : FailWith(w, c, "fence")
  /\ UNCHANGED <<mapVars, ready_, recordVars>>

\* The diagnostic of a cancelled publication fails to allocate: either before
\* the record is locked, or after the state is already Cancelled.  Nobody is
\* notified.
DiagnosticThrows(j, begun) ==
  /\ AllocationMayFail
  /\ state' = IF begun THEN [state EXCEPT ![j] = "Cancelled"] ELSE state
  /\ UNCHANGED <<outcome, result, terminal_changed>>

\* Mutant: success is published on the strength of the earlier token read.
FinalPublication_NoRecheck(w) ==
  /\ wpc[w] = "publish"
  /\ Publish(held[w], "Succeeded", "Ok", TRUE)
  /\ Done(w)
  /\ UNCHANGED <<mapVars, ready_, session_id, cancellation>>

\* The last section of execute: the token is read once more under the record
\* mutex and decides between the result and Cancelled.
FinalPublication(w) ==
  /\ wpc[w] = "publish"
  /\ \/ /\ ~cancellation[held[w]]
        /\ Publish(held[w], "Succeeded", "Ok", TRUE)
        /\ Done(w)
     \/ /\ cancellation[held[w]]
        /\ Publish(held[w], "Cancelled", "Cancelled", FALSE)
        /\ Done(w)
     \/ /\ cancellation[held[w]]
        /\ DiagnosticThrows(held[w], TRUE)
        /\ FailWith(w, "ResourceExhausted", "fence")
  /\ UNCHANGED <<mapVars, ready_, session_id, cancellation>>

\* finish_cancelled
FinishCancelled(w) ==
  /\ wpc[w] = "finish_cancelled"
  /\ \/ Publish(held[w], "Cancelled", "Cancelled", FALSE) /\ Done(w)
     \/ /\ \E begun \in BOOLEAN : DiagnosticThrows(held[w], begun)
        /\ FailWith(w, "ResourceExhausted", "fence")
  /\ UNCHANGED <<mapVars, ready_, session_id, cancellation>>

\* The body of finish_failure: a cancelled token takes precedence.
PublishFailure(j, c) ==
  IF cancellation[j] THEN Publish(j, "Cancelled", "Cancelled", FALSE)
                     ELSE Publish(j, "Failed", c, FALSE)

\* finish_failure called from execute
FinishFailure(w) ==
  /\ wpc[w] = "finish_failure"
  /\ \/ PublishFailure(held[w], caught[w]) /\ Done(w)
     \/ /\ \E begun \in {FALSE, cancellation[held[w]]} :
              DiagnosticThrows(held[w], begun)
        /\ FailWith(w, "ResourceExhausted", "fence")
  /\ UNCHANGED <<mapVars, ready_, session_id, cancellation>>

\* Mutant: an exception inside the protected attempt is swallowed.
Fence_Swallows(w) ==
  /\ wpc[w] = "fence"
  /\ \/ PublishFailure(held[w], caught[w])
     \/ \E begun \in {FALSE, cancellation[held[w]]} :
          DiagnosticThrows(held[w], begun)
  /\ Done(w)
  /\ UNCHANGED <<mapVars, ready_, session_id, cancellation>>

\* finish_failure_safely, the protected attempt.
Fence(w) ==
  /\ wpc[w] = "fence"
  /\ \/ PublishFailure(held[w], caught[w]) /\ Done(w)
     \/ /\ \E begun \in {FALSE, cancellation[held[w]]} :
              DiagnosticThrows(held[w], begun)
        /\ Goto(w, "fallback")
        /\ UNCHANGED <<held, caught>>
  /\ UNCHANGED <<mapVars, ready_, session_id, cancellation>>

\* finish_failure_safely, the allocation-free publication.
Fallback(w) ==
  /\ wpc[w] = "fallback"
  /\ PublishFailure(held[w], caught[w])
  /\ Done(w)
  /\ UNCHANGED <<mapVars, ready_, session_id, cancellation>>

\* Mutant: stop cancels only what still waits in the queue.
StopRegistry_QueuedOnly ==
  /\ ~stopping_
  /\ stopping_' = TRUE
  /\ cancellation' = [j \in JobIds |-> cancellation[j] \/ j \in queue_]
  /\ ready_' = {}
  /\ UNCHANGED <<jobs_, queue_, next_id_, session_id, state, outcome, result,
                 terminal_changed, workerVars>>

\* Mutant: stop raises the flag and wakes nobody.
StopRegistry_NoWake ==
  /\ ~stopping_
  /\ stopping_' = TRUE
  /\ cancellation' = [j \in JobIds |-> cancellation[j] \/ j \in jobs_]
  /\ UNCHANGED <<jobs_, queue_, next_id_, ready_, session_id, state, outcome,
                 result, terminal_changed, workerVars>>

\* stop: raise the flag, cancel every retained record without its mutex, wake
\* every worker.  (A worker cannot fall asleep once the flag is up, so the
\* notification after the unlock is part of the same step.)
StopRegistry ==
  /\ ~stopping_
  /\ stopping_' = TRUE
  /\ cancellation' = [j \in JobIds |-> cancellation[j] \/ j \in jobs_]
  /\ ready_' = {}
  /\ UNCHANGED <<jobs_, queue_, next_id_, session_id, state, outcome, result,
                 terminal_changed, workerVars>>

\* stop after the join: every container is cleared.
ClearRegistry ==
  /\ stopping_
  /\ \A w \in Workers : wpc[w] = "exit"
  /\ jobs_' = {} /\ queue_' = {}
  /\ UNCHANGED <<next_id_, stopping_, ready_, recordVars, workerVars>>

\* Every worker step but the kernel call, whose duration nobody bounds.
WorkerStep(w) ==
  \/ WorkerSleep(w) \/ WorkerExit(w) \/ WorkerPop(w)
  \/ BeginExecute(w) \/ CheckBeforeCompile(w) \/ Compile(w)
  \/ FinalPublication(w) \/ FinishCancelled(w) \/ FinishFailure(w)
  \/ Fence(w) \/ Fallback(w)

=============================================================================
