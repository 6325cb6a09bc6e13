------------------------------- MODULE Service -------------------------------
(***************************************************************************)
(* Service::Impl and Service::dispatch of src/lib/orchestration/service.cpp *)
(* over the registry of JobRegistry: the Session map with its capacity      *)
(* reservations, and one dispatch at a time per handler thread.             *)
(*                                                                          *)
(* lifecycle_mutex is explicit, because submit keeps it across a second     *)
(* critical section; every other section that takes it (always followed by  *)
(* sessions_mutex) is one action, enabled while nobody holds it.  An id     *)
(* whose instance token is not this daemon's is NoId: no map contains it.   *)
(***************************************************************************)
EXTENDS JobRegistry

CONSTANTS
  Requests,            \* the methods clients call (a bound of each run)
  SessionIdSpan,       \* number of values of next_session_id; 2^64 in the code
  maximum_sessions,    \* capacity of the Session map, reservations included
  NoHandler            \* nobody holds lifecycle_mutex

Methods == {"SessionCreate", "SessionClose", "JobSubmit", "JobStatus",
            "JobCancel", "JobResult", "JobRelease", "DaemonShutdown"}
SessionMethods == {"SessionClose", "JobSubmit"}
JobMethods == {"JobStatus", "JobCancel", "JobResult", "JobRelease"}

ASSUME ServiceAssumption ==
  /\ Requests \subseteq Methods
  /\ maximum_sessions \in Nat /\ maximum_sessions > 0
  /\ SessionIdSpan \in Nat /\ SessionIdSpan > 1
  /\ NoHandler \notin Handlers

VARIABLES
  sessions,                 \* ids in the Session map
  closing,                  \* ids whose record has closing set
  pending_session_creates,  \* unpublished capacity reservations
  next_session_id,          \* next Session id, zero once exhausted
  lifecycle_mutex,          \* holder of lifecycle_mutex across sections
  shutting_down,            \* admission fence raised by daemon.shutdown
  terminated,               \* std::terminate was reached
  pc,                       \* control state of a handler's dispatch
  method, arg,              \* the request a handler dispatches
  reply,                    \* code and job snapshot of the response
  queued, running,          \* records a close has yet to settle / await
  uncancelled               \* popped records a close has yet to cancel

sessionVars == <<sessions, closing, pending_session_creates, next_session_id>>
closeVars == <<queued, running, uncancelled>>
dispatchVars == <<shutting_down, terminated, pc, method, arg, reply>>
serviceVars == <<sessions, closing, pending_session_creates, next_session_id,
                 lifecycle_mutex, shutting_down, terminated, pc, method, arg,
                 reply, queued, running, uncancelled>>
vars == <<registryVars, serviceVars>>

SessionIds == 1..(SessionIdSpan - 1)

\* The ids a request of method m may carry.
Args(m) == {NoId} \cup (IF m \in SessionMethods THEN SessionIds ELSE {})
                  \cup (IF m \in JobMethods THEN JobIds ELSE {})

Labels == {"idle", "call", "compile", "rollback", "snapshot", "reopen",
           "settle", "enqueue", "found", "reply"}

Replies == [code : Codes, state : States, outcome : Codes]
Answer(c) == [code |-> c, state |-> "Unborn", outcome |-> "Ok"]

Init ==
  /\ RegistryInit
  /\ sessions = {} /\ closing = {}
  /\ pending_session_creates = 0
  /\ next_session_id = 1
  /\ lifecycle_mutex = NoHandler
  /\ shutting_down = FALSE /\ terminated = FALSE
  /\ pc = [h \in Handlers |-> "idle"]
  /\ method = [h \in Handlers |-> "SessionCreate"]
  /\ arg = [h \in Handlers |-> NoId]
  /\ reply = [h \in Handlers |-> Answer("Ok")]
  /\ queued = [h \in Handlers |-> {}]
  /\ running = [h \in Handlers |-> {}]
  /\ uncancelled = [h \in Handlers |-> {}]

Jump(h, label) == pc' = [pc EXCEPT ![h] = label]

\* dispatch goes on at a label; the reply it will give is already known.
Continue(h, label, c) ==
  /\ Jump(h, label)
  /\ reply' = [reply EXCEPT ![h] = Answer(c)]
  /\ UNCHANGED <<shutting_down, terminated, method, arg>>

\* dispatch has its response and is done with the request.
Leave(h, r) ==
  /\ Jump(h, "reply")
  /\ reply' = [reply EXCEPT ![h] = r]
  /\ method' = [method EXCEPT ![h] = "SessionCreate"]
  /\ arg' = [arg EXCEPT ![h] = NoId]

Respond(h, c) == Leave(h, Answer(c)) /\ UNCHANGED <<shutting_down, terminated>>

\* A response whose diagnostic or payload must be allocated: when that throws,
\* the exception fence of dispatch answers ResourceExhausted instead.
Fenced(c) == {c} \cup (IF AllocationMayFail THEN {"ResourceExhausted"} ELSE {})
Refuse(h, c) == \E d \in Fenced(c) : Respond(h, d)

Calls(h, m) == pc[h] = "call" /\ method[h] = m
LifecycleFree == lifecycle_mutex = NoHandler

\* A handler thread begins to dispatch request m with id i; every method but
\* daemon.shutdown is refused once the fence is up.
Begin(h, m, i) ==
  /\ pc[h] = "idle" /\ ~stopping_
  /\ IF m # "DaemonShutdown" /\ shutting_down
     THEN \E c \in Fenced("Cancelled") : Leave(h, Answer(c))
     ELSE /\ Jump(h, "call")
          /\ method' = [method EXCEPT ![h] = m]
          /\ arg' = [arg EXCEPT ![h] = i]
          /\ UNCHANGED reply
  /\ UNCHANGED <<registryVars, sessionVars, lifecycle_mutex, shutting_down,
                 terminated, closeVars>>

\* The handler has written the response and is ready for the next frame.
Return(h) ==
  /\ pc[h] = "reply"
  /\ Jump(h, "idle")
  /\ reply' = [reply EXCEPT ![h] = Answer("Ok")]
  /\ UNCHANGED <<registryVars, sessionVars, lifecycle_mutex, shutting_down,
                 terminated, method, arg, closeVars>>

-----------------------------------------------------------------------------
(* create_session                                                            *)

\* Mutant: the capacity test forgets the creates still compiling.
CapacityExhausted_IgnoresPending == Cardinality(sessions) >= maximum_sessions

CapacityExhausted ==
  \/ Cardinality(sessions) >= maximum_sessions
  \/ pending_session_creates >= maximum_sessions - Cardinality(sessions)

\* The first section reserves a slot without drawing an id.
CreateReserve(h) ==
  /\ Calls(h, "SessionCreate") /\ LifecycleFree
  /\ IF CapacityExhausted \/ next_session_id = 0
     THEN /\ Respond(h, "ResourceExhausted")
          /\ UNCHANGED pending_session_creates
     ELSE /\ Continue(h, "compile", "Ok")
          /\ pending_session_creates' = pending_session_creates + 1
  /\ UNCHANGED <<registryVars, sessions, closing, next_session_id,
                 lifecycle_mutex, closeVars>>

\* Graph construction or compilation fails, or allocation does, with no lock
\* held; the reservation's destructor runs next.
CreateRejected(h) ==
  /\ pc[h] = "compile"
  /\ \E c \in {"InvalidArgument"} \cup Thrown : Continue(h, "rollback", c)
  /\ UNCHANGED <<registryVars, sessionVars, lifecycle_mutex, closeVars>>

\* Both ways to give a reservation back terminate when there is none.
ReleaseReservation ==
  /\ terminated' = (terminated \/ pending_session_creates = 0)
  /\ pending_session_creates' = IF pending_session_creates = 0 THEN 0
                                ELSE pending_session_creates - 1

\* The second section: publish the record, then release the reservation, then
\* draw the id.  A refusal or an exception leaves through the destructor.
CreatePublish(h) ==
  /\ pc[h] = "compile" /\ LifecycleFree
  /\ \/ /\ next_session_id # 0
        /\ IF next_session_id \in sessions
           THEN Continue(h, "rollback", "Internal") /\ UNCHANGED sessionVars
           ELSE /\ sessions' = sessions \cup {next_session_id}
                /\ ReleaseReservation
                /\ next_session_id' = NextId(next_session_id, SessionIdSpan)
                /\ Leave(h, Answer("Ok"))
                /\ UNCHANGED <<closing, shutting_down>>
     \/ /\ next_session_id = 0 \/ AllocationMayFail
        /\ Continue(h, "rollback", "ResourceExhausted")
        /\ UNCHANGED sessionVars
  /\ UNCHANGED <<registryVars, lifecycle_mutex, closeVars>>

\* ~PendingSessionCreateReservation takes both locks again.
CreateRollback(h) ==
  /\ pc[h] = "rollback" /\ LifecycleFree
  /\ ReleaseReservation
  /\ Leave(h, reply[h])
  /\ UNCHANGED <<registryVars, sessions, closing, next_session_id,
                 lifecycle_mutex, shutting_down, closeVars>>

-----------------------------------------------------------------------------
(* close_session                                                             *)

\* Mutant: a Session already closing is closed once more.
OpenSession_IgnoresClosing(s) == s \in sessions

\* The test close and submit share.
OpenSession(s) == s \in sessions /\ s \notin closing

CloseBegin(h) ==
  /\ Calls(h, "SessionClose") /\ LifecycleFree
  /\ IF OpenSession(arg[h])
     THEN Continue(h, "snapshot", "Ok") /\ closing' = closing \cup {arg[h]}
     ELSE Refuse(h, "NotFound") /\ UNCHANGED closing
  /\ UNCHANGED <<registryVars, sessions, pending_session_creates,
                 next_session_id, lifecycle_mutex, closeVars>>

\* Mutant: the close goes on to await the popped records of every Session.
CloseDetach_AwaitsAll(h) ==
  /\ pc[h] = "snapshot"
  /\ DetachSession(arg[h])
  /\ queued' = [queued EXCEPT ![h] = queue_ \cap OfSession(arg[h])]
  /\ running' = [running EXCEPT ![h] = jobs_ \ queue_]
  /\ uncancelled' = [uncancelled EXCEPT
                       ![h] = (jobs_ \ queue_) \cap OfSession(arg[h])]
  /\ Continue(h, "settle", "Ok")
  /\ UNCHANGED <<sessionVars, lifecycle_mutex>>

\* JobRegistry::close_session detaches the records; the handler keeps them.
CloseDetach(h) ==
  /\ pc[h] = "snapshot"
  /\ DetachSession(arg[h])
  /\ queued' = [queued EXCEPT ![h] = queue_ \cap OfSession(arg[h])]
  /\ running' = [running EXCEPT ![h] = (jobs_ \ queue_) \cap OfSession(arg[h])]
  /\ uncancelled' = [uncancelled EXCEPT
                       ![h] = (jobs_ \ queue_) \cap OfSession(arg[h])]
  /\ Continue(h, "settle", "Ok")
  /\ UNCHANGED <<sessionVars, lifecycle_mutex>>

\* The snapshot's reserve throws before anything is detached.
CloseSnapshotThrows(h) ==
  /\ pc[h] = "snapshot" /\ AllocationMayFail
  /\ Continue(h, "reopen", "ResourceExhausted")
  /\ UNCHANGED <<registryVars, sessionVars, lifecycle_mutex, closeVars>>

\* The catch block reopens the same record and rethrows into dispatch.
CloseReopen(h) ==
  /\ pc[h] = "reopen" /\ LifecycleFree
  /\ closing' = closing \ {arg[h]}
  /\ Respond(h, "ResourceExhausted")
  /\ UNCHANGED <<registryVars, sessions, pending_session_creates,
                 next_session_id, lifecycle_mutex, closeVars>>

\* The three passes of settle_close_records.
SettleQueued(h) ==
  /\ pc[h] = "settle"
  /\ \E j \in queued[h] :
       /\ SettleQueuedRecord(j)
       /\ queued' = [queued EXCEPT ![h] = @ \ {j}]
  /\ UNCHANGED <<sessionVars, lifecycle_mutex, dispatchVars,
                 running, uncancelled>>

SettlePopped(h) ==
  /\ pc[h] = "settle" /\ queued[h] = {}
  /\ \E j \in uncancelled[h] :
       /\ SettlePoppedRecord(j)
       /\ uncancelled' = [uncancelled EXCEPT ![h] = @ \ {j}]
  /\ UNCHANGED <<sessionVars, lifecycle_mutex, dispatchVars,
                 queued, running>>

\* One evaluation of the wait predicate for the record awaited.
SettleWait(h) ==
  /\ pc[h] = "settle" /\ queued[h] = {} /\ uncancelled[h] = {}
  /\ \A j \in JobIds : h \notin terminal_changed[j]
  /\ \E j \in running[h] :
       IF terminal(state[j])
       THEN /\ running' = [running EXCEPT ![h] = @ \ {j}]
            /\ UNCHANGED registryVars
       ELSE SleepUntilTerminal(h, j) /\ UNCHANGED running
  /\ UNCHANGED <<sessionVars, lifecycle_mutex, dispatchVars,
                 queued, uncancelled>>

\* Mutant: the Session is erased without waiting for its popped records.
CloseFinalize_NoWait(h) ==
  /\ pc[h] = "settle" /\ queued[h] = {} /\ uncancelled[h] = {}
  /\ LifecycleFree
  /\ sessions' = sessions \ {arg[h]}
  /\ closing' = closing \ {arg[h]}
  /\ running' = [running EXCEPT ![h] = {}]
  /\ Respond(h, "Ok")
  /\ UNCHANGED <<registryVars, pending_session_creates, next_session_id,
                 lifecycle_mutex, queued, uncancelled>>

\* finalize_session_close; a record that is not there any more terminates.
CloseFinalize(h) ==
  /\ pc[h] = "settle" /\ queued[h] = {} /\ uncancelled[h] = {}
  /\ running[h] = {} /\ LifecycleFree
  /\ terminated' = (terminated \/ arg[h] \notin sessions \cap closing)
  /\ sessions' = sessions \ {arg[h]}
  /\ closing' = closing \ {arg[h]}
  /\ Leave(h, Answer("Ok"))
  /\ UNCHANGED <<registryVars, pending_session_creates, next_session_id,
                 lifecycle_mutex, shutting_down, closeVars>>

-----------------------------------------------------------------------------
(* submit                                                                    *)

\* Mutant: the lifecycle lock is dropped between validation and publication.
SubmitValidate_Unlocks(h) ==
  /\ Calls(h, "JobSubmit") /\ LifecycleFree
  /\ IF OpenSession(arg[h]) THEN Continue(h, "enqueue", "Ok")
                            ELSE Refuse(h, "NotFound")
  /\ UNCHANGED <<registryVars, sessionVars, lifecycle_mutex, closeVars>>

\* The lifecycle lock is taken here and kept until the registry answered.
SubmitValidate(h) ==
  /\ Calls(h, "JobSubmit") /\ LifecycleFree
  /\ IF OpenSession(arg[h])
     THEN Continue(h, "enqueue", "Ok") /\ lifecycle_mutex' = h
     ELSE Refuse(h, "NotFound") /\ UNCHANGED lifecycle_mutex
  /\ UNCHANGED <<registryVars, sessionVars, closeVars>>

SubmitPublish(h) ==
  /\ pc[h] = "enqueue"
  /\ \/ /\ SubmitRefusal # "Ok"
        /\ Refuse(h, SubmitRefusal)
        /\ UNCHANGED registryVars
     \/ /\ SubmitRefusal = "Ok"
        /\ Enqueue(arg[h])
        /\ IF next_id_ \in jobs_ THEN Refuse(h, "Internal") ELSE Respond(h, "Ok")
     \/ /\ SubmitRefusal = "Ok"
        /\ EnqueueThrows
        /\ Respond(h, "ResourceExhausted")
  /\ lifecycle_mutex' = NoHandler
  /\ UNCHANGED <<sessionVars, closeVars>>

-----------------------------------------------------------------------------
(* job.status, job.cancel, job.result, job.release, daemon.shutdown          *)

\* find: the handler retains the record from here on.
Find(h) ==
  /\ pc[h] = "call" /\ method[h] \in {"JobStatus", "JobCancel", "JobResult"}
  /\ IF arg[h] \in jobs_ THEN Continue(h, "found", "Ok")
                         ELSE Refuse(h, "NotFound")
  /\ UNCHANGED <<registryVars, sessionVars, lifecycle_mutex, closeVars>>

ReadStatus(h) ==
  /\ pc[h] = "found" /\ method[h] = "JobStatus"
  /\ \E r \in {[code |-> "Ok", state |-> state[arg[h]],
                outcome |-> outcome[arg[h]]]}
              \cup (IF AllocationMayFail THEN {Answer("ResourceExhausted")} ELSE {}) :
        Leave(h, r)
  /\ UNCHANGED <<registryVars, sessionVars, lifecycle_mutex, shutting_down,
                 terminated, closeVars>>

CancelJob(h) ==
  /\ pc[h] = "found" /\ method[h] = "JobCancel"
  /\ CancelRecord(arg[h])
  /\ Respond(h, "Ok")
  /\ UNCHANGED <<sessionVars, lifecycle_mutex, closeVars>>

ReadResult(h) ==
  /\ pc[h] = "found" /\ method[h] = "JobResult"
  /\ Refuse(h, ResultCode(arg[h]))
  /\ UNCHANGED <<registryVars, sessionVars, lifecycle_mutex, closeVars>>

ReleaseJob(h) ==
  /\ Calls(h, "JobRelease")
  /\ Release(arg[h])
  /\ IF ReleaseCode(arg[h]) = "Ok" THEN Respond(h, "Ok")
                                  ELSE Refuse(h, ReleaseCode(arg[h]))
  /\ UNCHANGED <<sessionVars, lifecycle_mutex, closeVars>>

\* The no-throw commit of daemon.shutdown.
AcceptShutdown(h) ==
  /\ Calls(h, "DaemonShutdown")
  /\ shutting_down' = TRUE
  /\ Leave(h, Answer("Ok"))
  /\ UNCHANGED <<registryVars, sessionVars, lifecycle_mutex, terminated,
                 closeVars>>

-----------------------------------------------------------------------------
(* The server joins every handler before it destroys the Service, so the     *)
(* registry stops only when no dispatch is in progress and none follows.     *)

Stop ==
  /\ \A h \in Handlers : pc[h] = "idle"
  /\ StopRegistry
  /\ UNCHANGED serviceVars

Clear == ClearRegistry /\ UNCHANGED serviceVars

\* What a dispatching thread does on its own account.
HandlerStep(h) ==
  \/ CreateReserve(h) \/ CreateRejected(h) \/ CreatePublish(h)
  \/ CreateRollback(h)
  \/ CloseBegin(h) \/ CloseDetach(h) \/ CloseSnapshotThrows(h)
  \/ CloseReopen(h) \/ SettleQueued(h) \/ SettlePopped(h) \/ SettleWait(h)
  \/ CloseFinalize(h)
  \/ SubmitValidate(h) \/ SubmitPublish(h)
  \/ Find(h) \/ ReadStatus(h) \/ CancelJob(h) \/ ReadResult(h)
  \/ ReleaseJob(h) \/ AcceptShutdown(h) \/ Return(h)

Next ==
  \/ \E h \in Handlers, m \in Requests : \E i \in Args(m) : Begin(h, m, i)
  \/ \E h \in Handlers : HandlerStep(h)
  \/ \E w \in Workers : WorkerStep(w) /\ UNCHANGED serviceVars
  \/ \E w \in Workers : Execute(w) /\ UNCHANGED serviceVars
  \/ \E w \in Workers : SpuriousWake(w) /\ UNCHANGED serviceVars
  \/ \E h \in Handlers, j \in JobIds : WakeSpuriously(h, j) /\ UNCHANGED serviceVars
  \/ Stop
  \/ Clear

Spec == Init /\ [][Next]_vars

\* Threads are scheduled and the mutexes do not starve a waiter for ever: a
\* handler's sections that need lifecycle_mutex are enabled again and again.
\* Nothing is assumed of Execute: a kernel execution may hang for ever.
FairSpec ==
  /\ Spec
  /\ \A h \in Handlers : SF_vars(HandlerStep(h))
  /\ \A w \in Workers : WF_vars(WorkerStep(w) /\ UNCHANGED serviceVars)

-----------------------------------------------------------------------------
(* Properties                                                                *)

SessionTypeOK ==
  /\ sessions \subseteq SessionIds /\ closing \subseteq SessionIds
  /\ pending_session_creates \in Nat
  /\ next_session_id \in 0..(SessionIdSpan - 1)
  /\ lifecycle_mutex \in Handlers \cup {NoHandler}

DispatchTypeOK ==
  /\ shutting_down \in BOOLEAN /\ terminated \in BOOLEAN
  /\ pc \in [Handlers -> Labels]
  /\ method \in [Handlers -> Methods]
  /\ arg \in [Handlers -> SessionIds \cup JobIds \cup {NoId}]
  /\ reply \in [Handlers -> Replies]

CloseTypeOK ==
  /\ queued \in [Handlers -> SUBSET JobIds]
  /\ running \in [Handlers -> SUBSET JobIds]
  /\ uncancelled \in [Handlers -> SUBSET JobIds]

\* The types of the registries, the records and the threads' locals.
TypeOK == RegistryTypeOK /\ SessionTypeOK /\ DispatchTypeOK /\ CloseTypeOK

Live(j) == state[j] \in {"Queued", "Running"}
Holders(j) == {w \in Workers : held[w] = j}
Joined == stopping_ /\ \A w \in Workers : wpc[w] = "exit"
Settlers(j) == {h \in Handlers : j \in queued[h]}

\* Once close_session has erased a Session, every execution ever admitted to
\* it is terminal: submit cannot slip a record in behind the detach
\* (lifecycle_mutex is kept across validation and publication) and the close
\* waits for every popped record.
NoWorkOutlivesItsSession ==
  \A j \in JobIds : Live(j) => session_id[j] \in sessions

\* A retained record belongs to a Session that is still in the map, and the
\* detach of a close leaves none of its Session's records behind: later
\* lookups of them are NotFound while the close is still waiting.
NoRecordOutlivesItsSession ==
  /\ \A j \in jobs_ : session_id[j] \in sessions
  /\ \A h \in Handlers :
       pc[h] = "settle" => \A j \in jobs_ : session_id[j] # arg[h]

\* Every unfinished execution has exactly one thread or queue that will finish
\* it: worker queue, one worker's execute, or one closing handler.  Nothing
\* is lost between pop, detach and settle, and nothing is run twice.  (Only
\* after stop has joined the workers is the queue dropped with its records.)
OneOwner ==
  \A j \in JobIds :
    /\ \A v, w \in Holders(j) : v = w
    /\ \A g, h \in Settlers(j) : g = h
    /\ j \in queue_ => Holders(j) = {} /\ Settlers(j) = {}
    /\ Holders(j) = {} \/ Settlers(j) = {}
    /\ Live(j) => \/ j \in queue_ \/ Holders(j) # {} \/ Settlers(j) # {}
                  \/ Joined

\* Capacity is never overcommitted: Sessions, those closing included, and the
\* creates still compiling fit in maximum_sessions, each reservation belongs
\* to exactly one create in progress, and the retained records fit in
\* maximum_jobs.
CapacityRespected ==
  /\ Cardinality(sessions) + pending_session_creates <= maximum_sessions
  /\ pending_session_creates =
       Cardinality({h \in Handlers : pc[h] \in {"compile", "rollback"}})
  /\ Cardinality(jobs_) <= maximum_jobs_

\* The std::terminate of finalize_session_close and of the reservation's
\* destructor are unreachable.
NeverTerminates == ~terminated

\* A cancellation that is accepted before the record is terminal decides it:
\* neither success nor another failure is published over it afterwards.  (stop
\* cancels without the record mutex; a publication that read the token before
\* that cancellation is ordered before it.)
CancellationDecides ==
  [][\A j \in JobIds :
       Live(j) /\ cancellation[j] => state'[j] \notin {"Succeeded", "Failed"}]_vars

\* The three terminal snapshots the wire format admits (a Cancelled record
\* carries Cancelled, a Failed one another failure).
Settled(j) ==
  \/ state[j] = "Succeeded" /\ outcome[j] = "Ok" /\ result[j]
  \/ state[j] = "Failed" /\ outcome[j] \notin {"Ok", "Cancelled"} /\ ~result[j]
  \/ state[j] = "Cancelled" /\ outcome[j] = "Cancelled" /\ ~result[j]

\* A published terminal snapshot is final: no close, release, late worker
\* fence or stop changes its state, its outcome or its result, although
\* readers that found the record earlier are still going to copy it.
PublishedIsFinal ==
  [][\A j \in JobIds :
       Settled(j) => /\ state'[j] = state[j] /\ outcome'[j] = outcome[j]
                     /\ result'[j] = result[j]]_vars

\* A record no worker holds any more is not left half published, whatever
\* allocations failed on the way (finish_failure_safely).
WorkersLeaveSettledRecords ==
  \A j \in JobIds : terminal(state[j]) /\ Holders(j) = {} => Settled(j)

\* Ids are never reused: a new record takes an id no record ever had, and a
\* new Session an id under which nothing was ever submitted.
FreshIdentity ==
  [][/\ \A j \in jobs_' \ jobs_ : state[j] = "Unborn"
     /\ \A s \in sessions' \ sessions :
          \A j \in JobIds : session_id[j] # s]_vars

\* stop reaches every execution that a worker could still be running: none
\* goes on uncancelled while the destructor joins.
StopReachesEveryExecution ==
  stopping_ => \A w \in Workers :
                 held[w] # NoId /\ Live(held[w]) => cancellation[held[w]]

\* "outcome ... carries the final failure category for Failed or Cancelled"
\* (protocol.hpp, JobStatus): a job.status response that reports Cancelled
\* carries the Cancelled category.
CancelledStatusCarriesItsFailure ==
  \A h \in Handlers :
    reply[h].state = "Cancelled" => reply[h].outcome = "Cancelled"

-----------------------------------------------------------------------------
(* Liveness, when the kernel may hang: nothing but a kernel execution that   *)
(* never returns can hold anything up.                                       *)

Hung(w) == wpc[w] = "execute"

\* A dispatch can be held up for ever only by closing the very Session a hung
\* execution belongs to: no other request, and no close of another Session,
\* waits for it, and no notification of terminal_changed is missed.  Nor does
\* anything else leave a Session closing for ever: a close whose snapshot fails
\* opens it again.
BlockedOnlyByOwnWork ==
  /\ \A h \in Handlers :
       \/ []<>(pc[h] = "idle")
       \/ <>[](/\ method[h] = "SessionClose"
               /\ \E w \in Workers : Hung(w) /\ session_id[held[w]] = arg[h])
  /\ \A s \in SessionIds :
       \/ []<>(s \notin closing)
       \/ <>[](\E w \in Workers : Hung(w) /\ session_id[held[w]] = s)

\* Every admitted execution reaches a terminal state, unless the daemon stops
\* or a worker hangs: no wakeup through ready_ is lost and no record is
\* forgotten.
AdmittedWorkFinishes ==
  \A j \in JobIds :
    \/ Live(j) ~> ~Live(j) \/ stopping_
    \/ \E w \in Workers : <>[]Hung(w)

\* The join of stop returns unless a worker hangs.
StopCompletes ==
  \/ stopping_ ~> Joined
  \/ \E w \in Workers : <>[]Hung(w)

=============================================================================
