----------------------------- MODULE JobContract -----------------------------
(***************************************************************************)
(* What the orchestration service promises about Sessions and executions,   *)
(* without threads, queues, locks or records in flight:                     *)
(*   - an execution is admitted only to a Session that admits work, under   *)
(*     an identity no execution had before;                                 *)
(*   - its life goes forward to one terminal state and stays there, and a   *)
(*     cancellation requested in time excludes every other end;             *)
(*   - it can be released only when terminal, and is forgotten as a whole   *)
(*     when its Session closes;                                             *)
(*   - a Session is gone only when all its executions are over.             *)
(***************************************************************************)
CONSTANTS Jobs, Sessions, NoSession

VARIABLES
  alive,      \* Sessions that occupy the namespace
  admitting,  \* those that accept executions
  retained,   \* executions a client can look up
  life,       \* lifecycle state of every execution
  owner,      \* Session of every execution
  cancelled,  \* executions whose cancellation was requested
  stopped     \* the service is being destroyed

contractVars == <<alive, admitting, retained, life, owner, cancelled, stopped>>

Over == {"Succeeded", "Failed", "Cancelled"}
Unfinished(j) == life[j] \in {"Queued", "Running"}

Init ==
  /\ alive = {} /\ admitting = {} /\ retained = {} /\ cancelled = {}
  /\ life = [j \in Jobs |-> "Unborn"]
  /\ owner = [j \in Jobs |-> NoSession]
  /\ stopped = FALSE

Open(s) ==
  /\ s \notin alive /\ \A j \in Jobs : owner[j] # s
  /\ alive' = alive \cup {s} /\ admitting' = admitting \cup {s}
  /\ UNCHANGED <<retained, life, owner, cancelled, stopped>>

Suspend(s) ==
  /\ s \in admitting
  /\ admitting' = admitting \ {s}
  /\ UNCHANGED <<alive, retained, life, owner, cancelled, stopped>>

Resume(s) ==
  /\ s \in alive \ admitting
  /\ admitting' = admitting \cup {s}
  /\ UNCHANGED <<alive, retained, life, owner, cancelled, stopped>>

Admit(j, s) ==
  /\ ~stopped /\ s \in admitting /\ life[j] = "Unborn"
  /\ life' = [life EXCEPT ![j] = "Queued"]
  /\ owner' = [owner EXCEPT ![j] = s]
  /\ retained' = retained \cup {j}
  /\ UNCHANGED <<alive, admitting, cancelled, stopped>>

Run(j) ==
  /\ life[j] = "Queued"
  /\ life' = [life EXCEPT ![j] = "Running"]
  /\ UNCHANGED <<alive, admitting, retained, owner, cancelled, stopped>>

RequestCancel(j) ==
  /\ Unfinished(j)
  /\ cancelled' = cancelled \cup {j}
  /\ UNCHANGED <<alive, admitting, retained, life, owner, stopped>>

\* The end of an execution.  Only a detached queued one ends without Running,
\* and then as Cancelled.
End(j, s) ==
  /\ s \in {"Succeeded", "Failed"} => life[j] = "Running" /\ j \notin cancelled
  /\ s = "Cancelled" => Unfinished(j)
  /\ life' = [life EXCEPT ![j] = s]
  /\ cancelled' \in {cancelled} \cup (IF s = "Cancelled" THEN {cancelled \cup {j}} ELSE {})
  /\ UNCHANGED <<alive, admitting, retained, owner, stopped>>

Release(j) ==
  /\ j \in retained /\ life[j] \in Over
  /\ retained' = retained \ {j}
  /\ UNCHANGED <<alive, admitting, life, owner, cancelled, stopped>>

\* A suspended Session forgets all its executions at once.
Forget(s) ==
  /\ s \in alive \ admitting
  /\ retained' = {j \in retained : owner[j] # s}
  /\ UNCHANGED <<alive, admitting, life, owner, cancelled, stopped>>

Close(s) ==
  /\ s \in alive \ admitting
  /\ \A j \in Jobs : owner[j] = s => j \notin retained /\ life[j] \in Over
  /\ alive' = alive \ {s}
  /\ UNCHANGED <<admitting, retained, life, owner, cancelled, stopped>>

Stop ==
  /\ ~stopped /\ stopped' = TRUE
  /\ cancelled' = cancelled \cup retained
  /\ UNCHANGED <<alive, admitting, retained, life, owner>>

ForgetAll ==
  /\ stopped /\ retained' = {}
  /\ UNCHANGED <<alive, admitting, life, owner, cancelled, stopped>>

Next ==
  \/ \E s \in Sessions : Open(s) \/ Suspend(s) \/ Resume(s) \/ Forget(s) \/ Close(s)
  \/ \E j \in Jobs : Run(j) \/ RequestCancel(j) \/ Release(j)
  \/ \E j \in Jobs, s \in Sessions : Admit(j, s)
  \/ \E j \in Jobs, s \in Over : End(j, s)
  \/ Stop \/ ForgetAll

Spec == Init /\ [][Next]_contractVars

=============================================================================
