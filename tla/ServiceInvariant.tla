--------------------------- MODULE ServiceInvariant ---------------------------
(***************************************************************************)
(* The inductive invariant behind the safety properties of Service, in the  *)
(* parts its proofs build on.                                               *)
(***************************************************************************)
EXTENDS Service

Closing(h) == pc[h] \in {"snapshot", "reopen", "settle"}
Reserving(h) == pc[h] \in {"compile", "rollback"}

\* Where a thread is says what it holds.
WorkerControlInv ==
  /\ \A w \in Workers : held[w] = NoId <=> wpc[w] \in {"wait", "exit"}
  /\ \A w \in ready_ : wpc[w] = "wait"
  /\ \A w \in Workers : wpc[w] \in {"finish_failure", "fence", "fallback"}
                         => caught[w] \notin {"Ok", "Cancelled"}

HandlerControlInv ==
  /\ \A h \in Handlers : pc[h] = "found" => arg[h] \in JobIds
  /\ \A h \in Handlers : pc[h] # "settle" =>
       queued[h] = {} /\ running[h] = {} /\ uncancelled[h] = {}
  /\ \A h \in Handlers : uncancelled[h] \subseteq running[h]
  /\ stopping_ => \A h \in Handlers : pc[h] = "idle"

ControlInv == WorkerControlInv /\ HandlerControlInv

\* lifecycle_mutex and the Session map: submit holds the lock exactly while it
\* publishes, to a Session that is open; each closing Session has one closer.
SessionInv ==
  /\ closing \subseteq sessions
  /\ \A h \in Handlers : pc[h] = "enqueue" <=> lifecycle_mutex = h
  /\ \A h \in Handlers : pc[h] = "enqueue" => arg[h] \in sessions \ closing
  /\ \A h \in Handlers : Closing(h) => arg[h] \in closing
  /\ \A g, h \in Handlers : Closing(g) /\ Closing(h) /\ arg[g] = arg[h] => g = h

\* Ids are drawn in increasing order and never again: whatever a map, a queue
\* or a thread refers to was admitted before.
IdentityInv ==
  /\ \A j \in jobs_ : state[j] # "Unborn"
  /\ \A w \in Workers : held[w] # NoId => state[held[w]] # "Unborn"
  /\ \A h \in Handlers : \A j \in queued[h] \cup running[h] : state[j] # "Unborn"
  /\ \A j \in JobIds : next_id_ # 0 /\ j >= next_id_ => state[j] = "Unborn"
  /\ \A s \in sessions : next_session_id # 0 => s < next_session_id
  /\ \A j \in JobIds : next_session_id # 0 => session_id[j] < next_session_id

\* What waits in the queue is retained, untouched and nobody's yet.
QueueInv ==
  /\ queue_ \subseteq jobs_
  /\ \A j \in queue_ : state[j] = "Queued"
  /\ \A w \in Workers : held[w] \notin queue_

\* The retained map against the Sessions: an unfinished record is retained, or
\* in the hands of the one handler closing its Session.
RetentionInv ==
  /\ \A j \in jobs_ : session_id[j] \in sessions
  /\ \A h \in Handlers : pc[h] = "settle" => \A j \in jobs_ : session_id[j] # arg[h]
  /\ \A h \in Handlers : \A j \in queued[h] \cup running[h] :
       session_id[j] = arg[h] /\ j \notin jobs_
  /\ \A j \in JobIds : Live(j) => session_id[j] \in sessions
  /\ ~stopping_ => \A j \in JobIds : Live(j) =>
       \/ j \in jobs_
       \/ \E h \in Handlers : pc[h] = "settle" /\ arg[h] = session_id[j]
                              /\ j \in queued[h] \cup running[h]

\* The part of the invariant that is inductive without the ownership of
\* records by workers.
LifecycleInv == /\ TypeOK /\ ControlInv /\ SessionInv /\ IdentityInv
                /\ QueueInv /\ RetentionInv

\* Who owns a record decides what its fields are.  A detached record is queued
\* and in the hands of one closing handler only, ...
SettlerInv ==
  /\ \A h \in Handlers : \A j \in queued[h] :
       state[j] = "Queued" /\ \A w \in Workers : held[w] # j
  /\ \A g, h \in Handlers : \A j \in queued[g] : j \in queued[h] => g = h

\* ... a popped one is held by one worker, whose place in execute says how far
\* its publication is, ...
HolderInv ==
  /\ \A v, w \in Workers : held[v] = held[w] /\ held[v] # NoId => v = w
  /\ \A w \in Workers :
       /\ wpc[w] = "popped" => state[held[w]] = "Queued"
       /\ wpc[w] \in {"running", "compile", "execute", "publish",
                      "finish_cancelled", "finish_failure"}
            => state[held[w]] = "Running"
       /\ wpc[w] \in {"fence", "fallback"}
            => state[held[w]] \in {"Running", "Cancelled"}
       /\ held[w] # NoId => outcome[held[w]] = "Ok" /\ ~result[held[w]]

\* ... an unfinished one is in one of the three places until the workers are
\* gone, ...
OwnerInv ==
  \A j \in JobIds : Live(j) => \/ j \in queue_
                               \/ \E w \in Workers : held[w] = j
                               \/ \E h \in Handlers : j \in queued[h]
                               \/ Joined

\* ... and the terminal fields are empty before the end and complete after it.
FieldInv ==
  /\ \A j \in JobIds : ~terminal(state[j]) => outcome[j] = "Ok" /\ ~result[j]
  /\ \A j \in JobIds : terminal(state[j]) /\ (\A w \in Workers : held[w] # j)
                          => Settled(j)

OwnershipInv == SettlerInv /\ HolderInv /\ OwnerInv /\ FieldInv

\* The part of the invariant that is about executions.
ExecutionInv == LifecycleInv /\ OwnershipInv /\ StopReachesEveryExecution

\* What the refinement of JobContract needs besides: a record never admitted
\* carries nothing yet and no reader has found it, ...
UntouchedInv ==
  /\ \A j \in JobIds : state[j] = "Unborn" => ~cancellation[j] /\ session_id[j] = NoId
  /\ \A h \in Handlers : pc[h] = "found" => state[arg[h]] # "Unborn"

\* ... and one a worker holds is unfinished unless a diagnostic failed to allocate.
HeldInv == ~AllocationMayFail => \A w \in Workers : held[w] # NoId => Live(held[w])

ContractInv == ExecutionInv /\ UntouchedInv /\ HeldInv

\* All of it.
IInv == ContractInv /\ CapacityRespected /\ NeverTerminates

=============================================================================
