------------------------------- MODULE System -------------------------------
(***************************************************************************)
(* The whole daemon: the process and Server of Daemon around the Service   *)
(* of Service.  A connection's thread is the handler that dispatches its   *)
(* requests, so a handler that reads a request begins a dispatch, the      *)
(* response of the dispatch says whether a shutdown was accepted, and the  *)
(* Service goes with the other members of the Server, on Main.             *)
(***************************************************************************)
EXTENDS Daemon

CONSTANTS Workers, JobIdSpan, maximum_jobs_, AllocationMayFail,
          Requests, SessionIdSpan, maximum_sessions

VARIABLES
  jobs_, queue_, next_id_, stopping_, ready_, session_id, state, job_outcome,
  result, cancellation, terminal_changed, wpc, held, caught, sessions,
  closing, pending_session_creates, next_session_id, lifecycle_mutex,
  shutting_down, terminated, dpc, method, arg, reply, queued, running,
  uncancelled,
  shutdown_after_write   \* field of the response a dispatch is to return

S == INSTANCE Service WITH Handlers <- Connections, NoHandler <- None,
                           outcome <- job_outcome, pc <- dpc

registryVars == <<jobs_, queue_, next_id_, stopping_, ready_, session_id,
                  state, job_outcome, result, cancellation, terminal_changed,
                  wpc, held, caught>>
serviceVars == <<sessions, closing, pending_session_creates, next_session_id,
                 lifecycle_mutex, shutting_down, terminated, dpc, method, arg,
                 reply, queued, running, uncancelled>>
orchestrationVars == <<registryVars, serviceVars, shutdown_after_write>>
systemVars == <<vars, orchestrationVars>>

SystemInit ==
  /\ Init /\ S!Init
  /\ shutdown_after_write = [c \in Connections |-> FALSE]

\* A step of the process or the Server that is not a call into the Service.
Apart(step) == step /\ UNCHANGED orchestrationVars

\* A step inside the Service, on a thread of whoever calls it.
Inside(step) == step /\ UNCHANGED <<vars, shutdown_after_write>>

\* serve_connection waits for its peer; a request that was read is dispatched.
ConnectionWaits(c) ==
  /\ PeerStep(c) /\ UNCHANGED processVars
  /\ IF pc'[c] = "dispatch"
     THEN /\ \E m \in Requests : \E i \in S!Args(m) : S!Begin(c, m, i)
          /\ shutdown_after_write' = [shutdown_after_write EXCEPT ![c] = FALSE]
     ELSE UNCHANGED orchestrationVars

\* One critical section of a dispatch; a shutdown is accepted by the fence and
\* the flag of the response.
DispatchStep(c) ==
  /\ pc[c] = "dispatch" /\ dpc[c] # "reply"
  /\ S!HandlerStep(c)
  /\ shutdown_after_write' =
       [shutdown_after_write EXCEPT ![c] = @ \/ S!Calls(c, "DaemonShutdown")]
  /\ UNCHANGED vars

\* dispatch returns its response to serve_connection.
DispatchReturns(c) ==
  /\ Dispatch(c) /\ UNCHANGED processVars
  /\ accepted_shutdown'[c] =
       (reply[c].code = "Ok" /\ shutdown_after_write[c])
  /\ S!Return(c)
  /\ UNCHANGED shutdown_after_write

\* The members of the Server are destroyed: ~JobRegistry stops, joins and
\* clears, before main goes on.
DestroyService ==
  /\ pc[Main] = "destroyed"
  /\ \/ S!StopRegistry
     \/ jobs_ \cup queue_ # {} /\ S!ClearRegistry
  /\ Inside(UNCHANGED serviceVars)

ServiceDestroyed == S!Joined /\ jobs_ \cup queue_ = {}

MainGoesOn == Apart(MainStep) /\ (pc[Main] = "destroyed" => ServiceDestroyed)

WorkerGoesOn(w) == Inside(S!WorkerStep(w) /\ UNCHANGED serviceVars)

SystemNext ==
  \/ MainGoesOn \/ DestroyService
  \/ Apart(WaiterStep) \/ Apart(WaitFails)
  \/ Apart(AcceptStep /\ UNCHANGED processVars)
  \/ \E s \in Signals : Apart(SignalArrives(s))
  \/ \E c \in Connections :
       \/ Apart((Connect(c) \/ OwnStep(c)) /\ UNCHANGED processVars)
       \/ ConnectionWaits(c) \/ DispatchStep(c) \/ DispatchReturns(c)
       \/ Inside(\E j \in S!JobIds :
                   S!WakeSpuriously(c, j) /\ UNCHANGED serviceVars)
  \/ \E w \in Workers :
       \/ WorkerGoesOn(w)
       \/ Inside((S!Execute(w) \/ S!SpuriousWake(w)) /\ UNCHANGED serviceVars)
  \/ Ended /\ UNCHANGED systemVars

SystemSpec == SystemInit /\ [][SystemNext]_systemVars

\* The fairness of both parts.  A dispatch is not assumed to return any more:
\* it does if its own steps go on.
SystemFairSpec ==
  /\ SystemSpec
  /\ WF_systemVars(MainGoesOn) /\ WF_systemVars(DestroyService)
  /\ WF_systemVars(Apart(WaiterStep))
  /\ WF_systemVars(ListenerGone /\ Apart(AcceptStep /\ UNCHANGED processVars))
  /\ \A c \in Connections :
       /\ WF_systemVars(Apart(OwnStep(c) /\ UNCHANGED processVars))
       /\ WF_systemVars(c \in shut /\ ConnectionWaits(c))
       /\ SF_systemVars(DispatchStep(c) \/ DispatchReturns(c))
  /\ \A w \in Workers : WF_systemVars(WorkerGoesOn(w))

-----------------------------------------------------------------------------
(* Properties                                                                *)

\* What Service assumes of its caller holds in the daemon: ~JobRegistry stops
\* only when no dispatch is in progress and none can follow.
ServiceIsUsedAsSpecified == S!Spec

\* A daemon that refuses work because it is shutting down does go down:
\* between the fence of dispatch and the end of main nothing waits for ever,
\* but for a peer that does not read its acknowledgement and a kernel
\* execution that does not return.
ShutdownEndsTheProcess ==
  \/ shutting_down ~> Ended
  \/ \E c \in Connections : <>[](pc[c] \in {"respond", "fail"})
  \/ \E w \in Workers : <>[]S!Hung(w)

=============================================================================
