---------------------- MODULE ServiceExecutionProofs -----------------------
(***************************************************************************)
(* Who owns a record (OwnershipInv): queue, worker or closing handler, and *)
(* what that says of its fields; what stop reaches; the theorems about     *)
(* publication and cancellation; and the service implements JobContract:   *)
(* every step of its threads is a step of the contract or leaves what a    *)
(* client can see as it was. The invariant of the executions is completed  *)
(* by what the mapping needs.                                              *)
(***************************************************************************)
EXTENDS ServiceRefinement, ServiceLifecycleProofs

USE RegistryAssumption, ServiceAssumption, SMTT(20), ZenonT(20)

-----------------------------------------------------------------------------
(* Who owns a record                                                         *)

\* OwnershipInv depends on the records' terminal fields and on who has them.
LEMMA OwnershipStutter ==
  ASSUME OwnershipInv,
         UNCHANGED <<state, outcome, result, held, wpc, queued, queue_, stopping_>>
  PROVE  OwnershipInv'
<1>1. SettlerInv' /\ HolderInv' BY Zenon DEF OwnershipInv, SettlerInv, HolderInv
<1>2. OwnerInv' BY Zenon DEF OwnershipInv, OwnerInv, Live, Joined
<1>3. FieldInv' BY Zenon DEF OwnershipInv, FieldInv, Settled
<1> QED BY Zenon, <1>1, <1>2, <1>3 DEF OwnershipInv

\* A worker inside execute has a record that is nobody else's, with its terminal
\* fields empty.
LEMMA HeldAlone ==
  ASSUME TypeOK, WorkerControlInv, OwnershipInv, NEW w \in Workers, held[w] # NoId
  PROVE  /\ held[w] \in JobIds /\ wpc[w] \notin {"wait", "exit"}
         /\ \A v \in Workers : v # w => held[v] # held[w]
         /\ \A h \in Handlers : \A j \in queued[h] : j \in JobIds /\ j # held[w]
         /\ outcome[held[w]] = "Ok" /\ ~result[held[w]]
<1>1. held[w] \in JobIds /\ wpc[w] \notin {"wait", "exit"}
  BY Zenon DEF TypeOK, RegistryTypeOK, WorkerTypeOK, WorkerControlInv
<1>2. \A v \in Workers : v # w => held[v] # held[w]
  BY Zenon DEF OwnershipInv, HolderInv
<1>3. \A h \in Handlers : \A j \in queued[h] : j \in JobIds /\ j # held[w]
  BY Zenon DEF OwnershipInv, SettlerInv, TypeOK, CloseTypeOK
<1>4. outcome[held[w]] = "Ok" /\ ~result[held[w]]
  BY Zenon DEF OwnershipInv, HolderInv
<1> QED BY Zenon, <1>1, <1>2, <1>3, <1>4

\* A worker keeps its place when the record of another one changes.
LEMMA HolderElsewhere ==
  ASSUME TypeOK, WorkerControlInv, OwnershipInv, NEW v \in Workers,
         wpc'[v] = wpc[v], held'[v] = held[v],
         held[v] # NoId => /\ state'[held[v]] = state[held[v]]
                           /\ outcome'[held[v]] = outcome[held[v]]
                           /\ result'[held[v]] = result[held[v]]
  PROVE  /\ wpc'[v] = "popped" => state'[held'[v]] = "Queued"
         /\ wpc'[v] \in {"running", "compile", "execute", "publish",
                         "finish_cancelled", "finish_failure"}
              => state'[held'[v]] = "Running"
         /\ wpc'[v] \in {"fence", "fallback"}
              => state'[held'[v]] \in {"Running", "Cancelled"}
         /\ held'[v] # NoId => outcome'[held'[v]] = "Ok" /\ ~result'[held'[v]]
<1>1. wpc[v] \notin {"wait", "exit"} <=> held[v] # NoId BY Zenon DEF WorkerControlInv
<1>2. /\ wpc[v] = "popped" => state[held[v]] = "Queued"
      /\ wpc[v] \in {"running", "compile", "execute", "publish",
                     "finish_cancelled", "finish_failure"}
           => state[held[v]] = "Running"
      /\ wpc[v] \in {"fence", "fallback"} => state[held[v]] \in {"Running", "Cancelled"}
  BY Zenon DEF OwnershipInv, HolderInv
<1>3. held[v] # NoId => outcome[held[v]] = "Ok" /\ ~result[held[v]]
  BY Zenon DEF OwnershipInv, HolderInv
<1>4. held'[v] # NoId => outcome'[held'[v]] = "Ok" /\ ~result'[held'[v]]
  BY Zenon, <1>3
<1>5. /\ wpc'[v] = "popped" => state'[held'[v]] = "Queued"
      /\ wpc'[v] \in {"running", "compile", "execute", "publish",
                      "finish_cancelled", "finish_failure"}
           => state'[held'[v]] = "Running"
      /\ wpc'[v] \in {"fence", "fallback"} => state'[held'[v]] \in {"Running", "Cancelled"}
  BY Zenon, <1>1, <1>2
<1> QED BY Zenon, <1>4, <1>5

\* What a step of worker w inside execute does when it does not leave it: only
\* the state of the record it holds changes, and the worker's new place fits.
LEMMA OwnershipKept ==
  ASSUME TypeOK, WorkerControlInv, OwnershipInv, NEW w \in Workers,
         held[w] # NoId,
         UNCHANGED <<held, outcome, result, queued, queue_, stopping_>>,
         \A v \in Workers : v # w => wpc'[v] = wpc[v],
         \A j \in JobIds : j # held[w] => state'[j] = state[j],
         \/ /\ wpc'[w] \in {"running", "compile", "execute", "publish",
                            "finish_cancelled", "finish_failure"}
            /\ state'[held[w]] = "Running"
         \/ /\ wpc'[w] \in {"fence", "fallback"}
            /\ state'[held[w]] \in {"Running", "Cancelled"}
  PROVE  OwnershipInv'
<1>0. /\ held[w] \in JobIds /\ wpc[w] \notin {"wait", "exit"}
      /\ \A v \in Workers : v # w => held[v] # held[w]
      /\ \A h \in Handlers : \A j \in queued[h] : j \in JobIds /\ j # held[w]
      /\ outcome[held[w]] = "Ok" /\ ~result[held[w]]
  BY Zenon, HeldAlone
<1>1. SettlerInv' BY Zenon, <1>0 DEF OwnershipInv, SettlerInv
<1>2. HolderInv'
  <2>1. \A v, u \in Workers : held'[v] = held'[u] /\ held'[v] # NoId => v = u
    BY Zenon DEF OwnershipInv, HolderInv
  <2>2. ASSUME NEW v \in Workers, v # w
        PROVE  held[v] # NoId => state'[held[v]] = state[held[v]]
    BY Zenon, <1>0, <2>2 DEF TypeOK, RegistryTypeOK, WorkerTypeOK
  <2>3. \A v \in Workers : held'[v] # NoId => outcome'[held'[v]] = "Ok" /\ ~result'[held'[v]]
    BY Zenon DEF OwnershipInv, HolderInv
  <2> QED BY Zenon, <2>1, <2>2, <2>3, HolderElsewhere DEF HolderInv
<1>3. OwnerInv'
  <2>1. Joined => FALSE BY Zenon, <1>0 DEF Joined
  <2>2. ASSUME NEW j \in JobIds, Live(j)', j # held[w]
        PROVE  Live(j)
    BY Zenon, <2>2 DEF Live
  <2> QED BY Zenon, <2>1, <2>2 DEF OwnershipInv, OwnerInv
<1>4. FieldInv'
  <2>1. ASSUME NEW j \in JobIds, ~terminal(state'[j])
        PROVE  outcome'[j] = "Ok" /\ ~result'[j]
    BY Zenon, <1>0, <2>1 DEF OwnershipInv, FieldInv
  <2>2. ASSUME NEW j \in JobIds, terminal(state'[j]), \A v \in Workers : held'[v] # j
        PROVE  Settled(j)'
    <3>1. state'[j] = state[j] BY Zenon, <2>2
    <3>2. Settled(j) BY Zenon, <2>2, <3>1 DEF OwnershipInv, FieldInv
    <3> QED BY Zenon, <3>1, <3>2 DEF Settled
  <2> QED BY Zenon, <2>1, <2>2 DEF FieldInv
<1> QED BY Zenon, <1>1, <1>2, <1>3, <1>4 DEF OwnershipInv

\* What a step does in which worker w publishes the end of the record it holds
\* and leaves execute.
LEMMA OwnershipDone ==
  ASSUME TypeOK, WorkerControlInv, OwnershipInv, NEW w \in Workers,
         NEW i \in JobIds, held[w] = i, held'[w] = NoId, wpc'[w] = "wait",
         UNCHANGED <<queued, queue_, stopping_>>,
         \A v \in Workers : v # w => wpc'[v] = wpc[v] /\ held'[v] = held[v],
         \A j \in JobIds : j # i => /\ state'[j] = state[j]
                                    /\ outcome'[j] = outcome[j]
                                    /\ result'[j] = result[j],
         Settled(i)'
  PROVE  OwnershipInv'
<1>1. \A j \in JobIds : j # NoId BY DEF JobIds, NoId
<1>0. /\ held[w] \in JobIds /\ wpc[w] \notin {"wait", "exit"}
      /\ \A v \in Workers : v # w => held[v] # held[w]
      /\ \A h \in Handlers : \A j \in queued[h] : j \in JobIds /\ j # held[w]
  BY Zenon, <1>1, HeldAlone
<1>2. terminal(state'[i]) BY Zenon DEF Settled, terminal
<1>3. SettlerInv' BY <1>0, <1>1 DEF OwnershipInv, SettlerInv
<1>4. HolderInv'
  <2>1. \A v, u \in Workers : held'[v] = held'[u] /\ held'[v] # NoId => v = u
    BY DEF OwnershipInv, HolderInv
  <2>2. ASSUME NEW v \in Workers, v # w, held[v] # NoId
        PROVE  /\ state'[held[v]] = state[held[v]]
               /\ outcome'[held[v]] = outcome[held[v]]
               /\ result'[held[v]] = result[held[v]]
    BY ZenonT(60), <1>0, <2>2 DEF TypeOK, RegistryTypeOK, WorkerTypeOK
  <2> QED BY Zenon, <2>1, <2>2, HolderElsewhere DEF HolderInv
<1>5. OwnerInv'
  <2>1. Joined => FALSE BY Zenon, <1>0 DEF Joined
  <2>2. ASSUME NEW j \in JobIds, Live(j)'
        PROVE  Live(j) /\ j # i
    BY Zenon, <1>2, <2>2 DEF Live, terminal
  <2> QED BY Zenon, <2>1, <2>2 DEF OwnershipInv, OwnerInv
<1>6. FieldInv'
  <2>1. ASSUME NEW j \in JobIds, ~terminal(state'[j])
        PROVE  outcome'[j] = "Ok" /\ ~result'[j]
    BY Zenon, <1>2, <2>1 DEF OwnershipInv, FieldInv
  <2>2. ASSUME NEW j \in JobIds, j # i, terminal(state'[j]),
               \A v \in Workers : held'[v] # j
        PROVE  Settled(j)'
    <3>1. Settled(j) BY Zenon, <2>2 DEF OwnershipInv, FieldInv
    <3> QED BY Zenon, <2>2, <3>1 DEF Settled
  <2> QED BY Zenon, <2>1, <2>2 DEF FieldInv
<1> QED BY Zenon, <1>3, <1>4, <1>5, <1>6 DEF OwnershipInv

\* A terminal publication by the worker that holds the record.
LEMMA OwnershipPublish ==
  ASSUME TypeOK, WorkerControlInv, OwnershipInv, NEW w \in Workers,
         held[w] # NoId, NEW s, NEW c, NEW r, Publish(held[w], s, c, r), Done(w),
         \/ s = "Succeeded" /\ c = "Ok" /\ r = TRUE
         \/ s = "Failed" /\ c \notin {"Ok", "Cancelled"} /\ r = FALSE
         \/ s = "Cancelled" /\ c = "Cancelled" /\ r = FALSE,
         UNCHANGED <<queued, queue_, stopping_>>
  PROVE  OwnershipInv'
<1> DEFINE i == held[w]
<1>1. i \in JobIds BY Zenon DEF TypeOK, RegistryTypeOK, WorkerTypeOK
<1>2. /\ held'[w] = NoId /\ wpc'[w] = "wait"
      /\ \A v \in Workers : v # w => wpc'[v] = wpc[v] /\ held'[v] = held[v]
  BY Zenon DEF Done, Goto, TypeOK, RegistryTypeOK, WorkerTypeOK
<1>3. /\ state'[i] = s /\ outcome'[i] = c /\ result'[i] = r
      /\ \A j \in JobIds : j # i => /\ state'[j] = state[j]
                                    /\ outcome'[j] = outcome[j]
                                    /\ result'[j] = result[j]
  BY Zenon, <1>1 DEF Publish, TypeOK, RegistryTypeOK, RecordTypeOK
<1> HIDE DEF i
<1>4. \A j \in {i} : Settled(j)'
  <2>1. CASE s = "Succeeded" /\ c = "Ok" /\ r = TRUE BY Zenon, <1>3, <2>1 DEF Settled
  <2>2. CASE s = "Failed" /\ c \notin {"Ok", "Cancelled"} /\ r = FALSE
    BY Zenon, <1>3, <2>2 DEF Settled
  <2>3. CASE s = "Cancelled" /\ c = "Cancelled" /\ r = FALSE
    BY Zenon, <1>3, <2>3 DEF Settled
  <2> QED BY Zenon, <2>1, <2>2, <2>3
<1> QED BY Zenon, <1>1, <1>2, <1>3, <1>4, OwnershipDone DEF i

\* The diagnostic of a publication cannot be allocated: the record is left for
\* the fence or the fallback of the same worker.
LEMMA OwnershipThrows ==
  ASSUME TypeOK, WorkerControlInv, OwnershipInv, NEW w \in Workers,
         held[w] # NoId, NEW begun, DiagnosticThrows(held[w], begun),
         state[held[w]] \in {"Running", "Cancelled"},
         NEW l \in {"fence", "fallback"}, Goto(w, l),
         UNCHANGED <<held, queued, queue_, stopping_>>
  PROVE  OwnershipInv'
<1>1. /\ wpc'[w] \in {"fence", "fallback"}
      /\ \A v \in Workers : v # w => wpc'[v] = wpc[v]
  BY Zenon DEF Goto, TypeOK, RegistryTypeOK, WorkerTypeOK
<1>2. held[w] \in JobIds BY Zenon DEF TypeOK, RegistryTypeOK, WorkerTypeOK
<1>3. /\ state'[held[w]] \in {"Running", "Cancelled"}
      /\ \A j \in JobIds : j # held[w] => state'[j] = state[j]
      /\ UNCHANGED <<outcome, result>>
  BY Zenon, <1>2 DEF DiagnosticThrows, TypeOK, RegistryTypeOK, RecordTypeOK
<1> QED BY Zenon, <1>1, <1>3, OwnershipKept

\* The body of finish_failure publishes Cancelled or the genuine failure in hand.
LEMMA OwnershipFailure ==
  ASSUME TypeOK, WorkerControlInv, OwnershipInv, NEW w \in Workers,
         wpc[w] \in {"finish_failure", "fence", "fallback"}, held[w] # NoId,
         PublishFailure(held[w], caught[w]), Done(w),
         UNCHANGED <<queued, queue_, stopping_>>
  PROVE  OwnershipInv'
<1>1. caught[w] \notin {"Ok", "Cancelled"} BY Zenon DEF WorkerControlInv
<1> QED BY Zenon, <1>1, OwnershipPublish DEF PublishFailure

\* Worker steps keep OwnershipInv.
LEMMA OwnershipWorkerStep ==
  ASSUME TypeOK, WorkerControlInv, QueueInv, RetentionInv, OwnershipInv,
         NEW w \in Workers, WorkerStep(w) \/ Execute(w) \/ SpuriousWake(w),
         UNCHANGED queued
  PROVE  OwnershipInv'
<1>0. wpc[w] \notin {"wait", "exit"} => held[w] # NoId BY Zenon DEF WorkerControlInv
<1>1. CASE WorkerSleep(w) \/ SpuriousWake(w)
  BY Zenon, <1>1, OwnershipStutter
     DEF WorkerSleep, SpuriousWake, mapVars, recordVars, workerVars
<1>2. CASE WorkerExit(w)
  <2>1. /\ UNCHANGED <<state, outcome, result, held, queued, queue_, stopping_>>
        /\ wpc[w] = "wait" /\ wpc'[w] = "exit"
        /\ \A v \in Workers : v # w => wpc'[v] = wpc[v]
    BY Zenon, <1>2 DEF WorkerExit, mapVars, recordVars, Goto, TypeOK, RegistryTypeOK,
                WorkerTypeOK
  <2>2. SettlerInv' BY Zenon, <2>1 DEF OwnershipInv, SettlerInv
  <2>3. HolderInv'
    <3>1. \A v, u \in Workers : held'[v] = held'[u] /\ held'[v] # NoId => v = u
      BY Zenon, <2>1 DEF OwnershipInv, HolderInv
    <3>2. held[w] = NoId BY Zenon, <2>1 DEF WorkerControlInv
    <3> QED BY Zenon, <2>1, <3>1, <3>2, HolderElsewhere DEF HolderInv
  <2>4. OwnerInv' BY Zenon, <2>1 DEF OwnershipInv, OwnerInv, Live, Joined
  <2>5. FieldInv' BY Zenon, <2>1 DEF OwnershipInv, FieldInv, Settled
  <2> QED BY Zenon, <2>2, <2>3, <2>4, <2>5 DEF OwnershipInv
<1>3. CASE WorkerPop(w)
  <2>1. PICK i \in queue_ : /\ queue_' = queue_ \ {i}
                            /\ held' = [held EXCEPT ![w] = i]
    BY Zenon, <1>3 DEF WorkerPop
  <2>2. /\ UNCHANGED <<state, outcome, result, queued, stopping_>>
        /\ wpc[w] = "wait" /\ held[w] = NoId /\ wpc'[w] = "popped" /\ held'[w] = i
        /\ \A v \in Workers : v # w => wpc'[v] = wpc[v] /\ held'[v] = held[v]
    BY Zenon, <1>3, <2>1 DEF WorkerPop, recordVars, Goto, TypeOK, RegistryTypeOK,
                      WorkerTypeOK, WorkerControlInv
  <2>3. /\ i \in JobIds /\ i # NoId /\ state[i] = "Queued"
        /\ \A v \in Workers : held[v] # i
        /\ \A h \in Handlers : i \notin queued[h]
    BY DEF QueueInv, RetentionInv, TypeOK, RegistryTypeOK, MapTypeOK, JobIds, NoId
  <2>4. outcome[i] = "Ok" /\ ~result[i]
    BY Zenon, <2>3 DEF OwnershipInv, FieldInv, terminal
  <2>5. SettlerInv' BY <2>2, <2>3 DEF OwnershipInv, SettlerInv
  <2>6. HolderInv'
    <3>1. \A v, u \in Workers : held'[v] = held'[u] /\ held'[v] # NoId => v = u
      BY <2>2, <2>3 DEF OwnershipInv, HolderInv
    <3> QED BY Zenon, <2>2, <2>3, <2>4, <3>1, HolderElsewhere DEF HolderInv
  <2>7. OwnerInv'
    <3>1. Joined => FALSE BY Zenon, <2>2 DEF Joined
    <3>2. \A j \in JobIds : j # NoId BY DEF JobIds, NoId
    <3> QED BY Zenon, <2>1, <2>2, <3>1, <3>2 DEF OwnershipInv, OwnerInv, Live
  <2>8. FieldInv'
    <3>1. \A j \in JobIds : (\A v \in Workers : held'[v] # j)
                              => \A v \in Workers : held[v] # j
      BY <2>2 DEF JobIds, NoId
    <3> QED BY Zenon, <2>2, <3>1 DEF OwnershipInv, FieldInv, Settled
  <2> QED BY Zenon, <2>5, <2>6, <2>7, <2>8 DEF OwnershipInv
<1>4. CASE BeginExecute(w)
  <2>1. state[held[w]] = "Queued" /\ held[w] # NoId
    BY Zenon, <1>0, <1>4 DEF BeginExecute, OwnershipInv, HolderInv
  <2>2. held[w] \in JobIds BY Zenon, <2>1 DEF TypeOK, RegistryTypeOK, WorkerTypeOK
  <2>3. /\ UNCHANGED <<held, outcome, result, queue_, stopping_>>
        /\ state' = [state EXCEPT ![held[w]] = "Running"] /\ Goto(w, "running")
    BY Zenon, <1>4, <2>1 DEF BeginExecute, mapVars
  <2>4. /\ wpc'[w] = "running" /\ state'[held[w]] = "Running"
        /\ \A v \in Workers : v # w => wpc'[v] = wpc[v]
        /\ \A j \in JobIds : j # held[w] => state'[j] = state[j]
    BY Zenon, <2>2, <2>3 DEF Goto, TypeOK, RegistryTypeOK, WorkerTypeOK, RecordTypeOK
  <2> QED BY Zenon, <2>1, <2>3, <2>4, OwnershipKept
<1>5. CASE CheckBeforeCompile(w) \/ Compile(w) \/ Execute(w)
  <2>1. state[held[w]] = "Running" /\ held[w] # NoId
    BY Zenon, <1>0, <1>5 DEF CheckBeforeCompile, Compile, Execute, OwnershipInv, HolderInv
  <2>2. UNCHANGED <<held, state, outcome, result, queue_, stopping_>>
    BY Zenon, <1>5 DEF CheckBeforeCompile, Compile, Execute, mapVars, recordVars, FailWith
  <2>3. \E l \in {"compile", "execute", "publish", "finish_cancelled",
                  "finish_failure", "fence"} : Goto(w, l)
    BY Zenon, <1>5 DEF CheckBeforeCompile, Compile, Execute, FailWith
  <2>4. /\ wpc'[w] \in {"compile", "execute", "publish", "finish_cancelled",
                        "finish_failure", "fence"}
        /\ \A v \in Workers : v # w => wpc'[v] = wpc[v]
    BY Zenon, <2>3 DEF Goto, TypeOK, RegistryTypeOK, WorkerTypeOK
  <2> QED BY Zenon, <2>1, <2>2, <2>4, OwnershipKept
<1>6. CASE FinalPublication(w)
  <2>1. state[held[w]] = "Running" /\ held[w] # NoId
    BY Zenon, <1>0, <1>6 DEF FinalPublication, OwnershipInv, HolderInv
  <2>2. UNCHANGED <<queue_, stopping_>> BY Zenon, <1>6 DEF FinalPublication, mapVars
  <2> QED BY Zenon, <1>6, <2>1, <2>2, OwnershipPublish, OwnershipThrows
          DEF FinalPublication, FailWith
<1>7. CASE FinishCancelled(w)
  <2>1. state[held[w]] = "Running" /\ held[w] # NoId
    BY Zenon, <1>0, <1>7 DEF FinishCancelled, OwnershipInv, HolderInv
  <2>2. UNCHANGED <<queue_, stopping_>> BY Zenon, <1>7 DEF FinishCancelled, mapVars
  <2> QED BY Zenon, <1>7, <2>1, <2>2, OwnershipPublish, OwnershipThrows
          DEF FinishCancelled, FailWith
<1>8. CASE FinishFailure(w)
  <2>1. state[held[w]] = "Running" /\ held[w] # NoId
    BY Zenon, <1>0, <1>8 DEF FinishFailure, OwnershipInv, HolderInv
  <2>2. UNCHANGED <<queue_, stopping_>> BY Zenon, <1>8 DEF FinishFailure, mapVars
  <2> QED BY Zenon, <1>8, <2>1, <2>2, OwnershipFailure, OwnershipThrows
          DEF FinishFailure, FailWith
<1>9. CASE Fence(w)
  <2>1. state[held[w]] \in {"Running", "Cancelled"} /\ held[w] # NoId
    BY Zenon, <1>0, <1>9 DEF Fence, OwnershipInv, HolderInv
  <2>2. UNCHANGED <<queue_, stopping_>> BY Zenon, <1>9 DEF Fence, mapVars
  <2> QED BY Zenon, <1>9, <2>1, <2>2, OwnershipFailure, OwnershipThrows DEF Fence
<1>10. CASE Fallback(w)
  <2>1. held[w] # NoId BY Zenon, <1>0, <1>10 DEF Fallback
  <2>2. UNCHANGED <<queue_, stopping_>> BY Zenon, <1>10 DEF Fallback, mapVars
  <2> QED BY Zenon, <1>10, <2>1, <2>2, OwnershipFailure DEF Fallback
<1> QED
  BY Zenon, <1>1, <1>2, <1>3, <1>4, <1>5, <1>6, <1>7, <1>8, <1>9, <1>10 DEF WorkerStep

\* The detach hands the queued records of the Session to the closing handler.
LEMMA OwnershipDetach ==
  ASSUME TypeOK, HandlerControlInv, QueueInv, RetentionInv, OwnershipInv,
         NEW h \in Handlers, CloseDetach(h)
  PROVE  OwnershipInv'
<1>1. /\ UNCHANGED <<state, outcome, result, held, wpc, stopping_>>
      /\ queue_' = queue_ \ OfSession(arg[h])
      /\ queued'[h] = queue_ \cap OfSession(arg[h])
      /\ \A g \in Handlers : g # h => queued'[g] = queued[g]
  BY Zenon DEF CloseDetach, DetachSession, recordVars, workerVars, TypeOK, CloseTypeOK
<1>2. \A j \in queue_ : /\ state[j] = "Queued" /\ \A w \in Workers : held[w] # j
                        /\ \A g \in Handlers : j \notin queued[g]
  BY DEF QueueInv, RetentionInv
<1>3. SettlerInv' BY Zenon, <1>1, <1>2 DEF OwnershipInv, SettlerInv
<1>4. HolderInv' BY Zenon, <1>1 DEF OwnershipInv, HolderInv
<1>5. OwnerInv'
  <2> SUFFICES ASSUME NEW j \in JobIds, Live(j), ~Joined,
                      \A w \in Workers : held[w] # j
               PROVE  j \in queue_' \/ \E g \in Handlers : j \in queued'[g]
    BY Zenon, <1>1 DEF OwnerInv, Live, Joined
  <2>1. CASE j \in queue_ BY Zenon, <1>1, <2>1
  <2>2. CASE \E g \in Handlers : j \in queued[g]
    <3>1. PICK g \in Handlers : j \in queued[g] BY Zenon, <2>2
    <3>2. g # h BY Zenon, <3>1 DEF CloseDetach, HandlerControlInv
    <3> QED BY Zenon, <1>1, <3>1, <3>2
  <2> QED BY Zenon, <2>1, <2>2 DEF OwnershipInv, OwnerInv
<1>6. FieldInv' BY Zenon, <1>1 DEF OwnershipInv, FieldInv, Settled
<1> QED BY Zenon, <1>3, <1>4, <1>5, <1>6 DEF OwnershipInv

\* The first pass of a close ends a detached record that nobody else has.
LEMMA OwnershipSettle ==
  ASSUME TypeOK, WorkerControlInv, OwnershipInv, NEW h \in Handlers, SettleQueued(h)
  PROVE  OwnershipInv'
<1>1. PICK i \in queued[h] : /\ SettleQueuedRecord(i)
                             /\ queued' = [queued EXCEPT ![h] = @ \ {i}]
  BY Zenon DEF SettleQueued
<1>2. /\ i \in JobIds /\ state[i] = "Queued" /\ \A w \in Workers : held[w] # i
      /\ \A g \in Handlers : i \in queued[g] => g = h
  BY Zenon DEF OwnershipInv, SettlerInv, TypeOK, CloseTypeOK
<1>3. /\ UNCHANGED <<held, wpc, queue_, stopping_>>
      /\ state'[i] = "Cancelled" /\ outcome'[i] = "Cancelled" /\ result'[i] = FALSE
      /\ \A j \in JobIds : j # i => /\ state'[j] = state[j]
                                    /\ outcome'[j] = outcome[j]
                                    /\ result'[j] = result[j]
      /\ queued'[h] = queued[h] \ {i}
      /\ \A g \in Handlers : g # h => queued'[g] = queued[g]
  BY Zenon, <1>1, <1>2 DEF SettleQueuedRecord, Publish, mapVars, workerVars, TypeOK,
                    RegistryTypeOK, RecordTypeOK, CloseTypeOK
<1>4. SettlerInv'
  <2>1. \A g \in Handlers : \A j \in queued'[g] : j \in queued[g] /\ j \in JobIds /\ j # i
    BY Zenon, <1>2, <1>3 DEF TypeOK, CloseTypeOK
  <2> QED BY Zenon, <1>3, <2>1 DEF OwnershipInv, SettlerInv
<1>5. HolderInv'
  <2>1. \A v, u \in Workers : held'[v] = held'[u] /\ held'[v] # NoId => v = u
    BY Zenon, <1>3 DEF OwnershipInv, HolderInv
  <2>2. \A v \in Workers : held[v] # NoId => held[v] \in JobIds /\ held[v] # i
    BY Zenon, <1>2 DEF TypeOK, RegistryTypeOK, WorkerTypeOK
  <2> QED BY Zenon, <1>3, <2>1, <2>2, HolderElsewhere DEF HolderInv
<1>6. OwnerInv'
  <2> SUFFICES ASSUME NEW j \in JobIds, Live(j)', ~Joined, j \notin queue_,
                      \A w \in Workers : held[w] # j
               PROVE  \E g \in Handlers : j \in queued'[g]
    BY Zenon, <1>3 DEF OwnerInv, Joined
  <2>1. j # i /\ Live(j) BY Zenon, <1>3 DEF Live
  <2>2. PICK g \in Handlers : j \in queued[g] BY Zenon, <2>1 DEF OwnershipInv, OwnerInv
  <2>3. j \in queued'[g] BY Zenon, <1>3, <2>1, <2>2
  <2> QED BY Zenon, <2>3
<1>7. FieldInv'
  <2>1. ASSUME NEW j \in JobIds, ~terminal(state'[j])
        PROVE  outcome'[j] = "Ok" /\ ~result'[j]
    BY Zenon, <1>3, <2>1 DEF OwnershipInv, FieldInv, terminal
  <2>2. ASSUME NEW j \in JobIds, terminal(state'[j]), \A v \in Workers : held'[v] # j
        PROVE  Settled(j)'
    <3>1. CASE j = i BY Zenon, <1>3, <3>1 DEF Settled
    <3>2. CASE j # i
      <4>1. Settled(j) BY Zenon, <1>3, <2>2, <3>2 DEF OwnershipInv, FieldInv
      <4> QED BY Zenon, <1>3, <3>2, <4>1 DEF Settled
    <3> QED BY Zenon, <3>1, <3>2
  <2> QED BY Zenon, <2>1, <2>2 DEF FieldInv
<1> QED BY Zenon, <1>4, <1>5, <1>6, <1>7 DEF OwnershipInv

\* An admission takes an id nobody refers to; its record goes into the queue.
LEMMA OwnershipSubmit ==
  ASSUME TypeOK, WorkerControlInv, IdentityInv, OwnershipInv, NEW h \in Handlers,
         SubmitPublish(h)
  PROVE  OwnershipInv'
<1>1. UNCHANGED <<held, wpc, queued, stopping_>>
  BY Zenon DEF SubmitPublish, Enqueue, EnqueueThrows, registryVars, workerVars, closeVars
<1>2. CASE UNCHANGED <<state, outcome, result, queue_>>
  BY Zenon, <1>1, <1>2, OwnershipStutter
<1>3. CASE /\ next_id_ # 0 /\ queue_' = queue_ \cup {next_id_}
           /\ state' = [state EXCEPT ![next_id_] = "Queued"]
           /\ outcome' = [outcome EXCEPT ![next_id_] = "Ok"]
           /\ result' = [result EXCEPT ![next_id_] = FALSE]
  <2> DEFINE i == next_id_
  <2>1. i \in JobIds /\ i >= i /\ i # 0
    BY <1>3 DEF TypeOK, RegistryTypeOK, MapTypeOK, JobIds
  <2>2. state[i] = "Unborn" BY Zenon, <1>3, <2>1 DEF IdentityInv
  <2>3. /\ \A w \in Workers : held[w] # i
        /\ \A g \in Handlers : i \notin queued[g]
    BY Zenon, <2>1, <2>2 DEF IdentityInv, NoId
  <2>4. /\ state'[i] = "Queued" /\ outcome'[i] = "Ok" /\ result'[i] = FALSE
        /\ \A j \in JobIds : j # i => /\ state'[j] = state[j]
                                      /\ outcome'[j] = outcome[j]
                                      /\ result'[j] = result[j]
    BY Zenon, <1>3, <2>1 DEF TypeOK, RegistryTypeOK, RecordTypeOK
  <2> HIDE DEF i
  <2>5. SettlerInv'
    <3>1. \A g \in Handlers : \A j \in queued[g] : j \in JobIds /\ j # i
      BY Zenon, <2>3 DEF TypeOK, CloseTypeOK
    <3> QED BY Zenon, <1>1, <2>4, <3>1 DEF OwnershipInv, SettlerInv
  <2>6. HolderInv'
    <3>1. \A v, u \in Workers : held'[v] = held'[u] /\ held'[v] # NoId => v = u
      BY Zenon, <1>1 DEF OwnershipInv, HolderInv
    <3>2. \A v \in Workers : held[v] # NoId => held[v] \in JobIds /\ held[v] # i
      BY Zenon, <2>3 DEF TypeOK, RegistryTypeOK, WorkerTypeOK
    <3> QED BY Zenon, <1>1, <2>4, <3>1, <3>2, HolderElsewhere DEF HolderInv
  <2>7. OwnerInv'
    <3>1. ASSUME NEW j \in JobIds, j # i, Live(j)' PROVE Live(j)
      BY Zenon, <2>4, <3>1 DEF Live
    <3>2. i \in queue_' /\ queue_ \subseteq queue_' BY Zenon, <1>3 DEF i
    <3>3. Joined => Joined' BY Zenon, <1>1 DEF Joined
    <3> QED BY Zenon, <1>1, <3>1, <3>2, <3>3 DEF OwnershipInv, OwnerInv
  <2>8. FieldInv'
    <3>1. ASSUME NEW j \in JobIds, ~terminal(state'[j])
          PROVE  outcome'[j] = "Ok" /\ ~result'[j]
      BY Zenon, <2>4, <3>1 DEF OwnershipInv, FieldInv
    <3>2. ASSUME NEW j \in JobIds, terminal(state'[j]), \A v \in Workers : held'[v] # j
          PROVE  Settled(j)'
      <4>1. j # i BY Zenon, <2>4, <3>2 DEF terminal
      <4>2. Settled(j) BY Zenon, <1>1, <2>4, <3>2, <4>1 DEF OwnershipInv, FieldInv
      <4> QED BY Zenon, <2>4, <4>1, <4>2 DEF Settled
    <3> QED BY Zenon, <3>1, <3>2 DEF FieldInv
  <2> QED BY Zenon, <2>5, <2>6, <2>7, <2>8 DEF OwnershipInv
<1> QED BY Zenon, <1>2, <1>3
        DEF SubmitPublish, SubmitRefusal, Enqueue, EnqueueThrows, registryVars,
            recordVars

\* No other step of a handler touches the terminal fields, the queue or what a
\* close has in its hands.
LEMMA HandlerFields ==
  ASSUME NEW h, HandlerStep(h), ~CloseDetach(h), ~SettleQueued(h), ~SubmitPublish(h)
  PROVE  UNCHANGED <<state, outcome, result, queued, queue_>>
BY Zenon DEF HandlerStep, CreateReserve, CreateRejected, CreatePublish,
       CreateRollback, CloseBegin, CloseSnapshotThrows, CloseReopen,
       SettlePopped, SettlePoppedRecord, CancelRecord, SettleWait,
       SleepUntilTerminal, CloseFinalize, SubmitValidate, Find, ReadStatus,
       CancelJob, ReadResult, ReleaseJob, Release, AcceptShutdown, Return,
       registryVars, mapVars, recordVars, closeVars

\* Every step keeps OwnershipInv.
LEMMA OwnershipStep ==
  ASSUME LifecycleInv, OwnershipInv, [Next]_vars
  PROVE  OwnershipInv'
<1> USE DEF LifecycleInv, ControlInv
<1>1. ASSUME NEW h \in Handlers, NEW m \in Requests, NEW i \in Args(m), Begin(h, m, i)
      PROVE  OwnershipInv'
  BY Zenon, <1>1, OwnershipStutter DEF Begin, registryVars, closeVars
<1>2. ASSUME NEW h \in Handlers, HandlerStep(h)
      PROVE  OwnershipInv'
  <2>1. CASE CloseDetach(h) BY Zenon, <2>1, OwnershipDetach
  <2>2. CASE SettleQueued(h) BY Zenon, <2>2, OwnershipSettle
  <2>3. CASE SubmitPublish(h) BY Zenon, <2>3, OwnershipSubmit
  <2>4. CASE ~(CloseDetach(h) \/ SettleQueued(h) \/ SubmitPublish(h))
    <3>1. UNCHANGED <<held, wpc, stopping_>> BY Zenon, <1>2, HandlerLeavesWorkers
    <3>2. UNCHANGED <<state, outcome, result, queued, queue_>>
      BY Zenon, <1>2, <2>4, HandlerFields
    <3> QED BY Zenon, <3>1, <3>2, OwnershipStutter
  <2> QED BY Zenon, <2>1, <2>2, <2>3, <2>4
<1>3. ASSUME NEW w \in Workers, WorkerStep(w) \/ Execute(w) \/ SpuriousWake(w),
             UNCHANGED serviceVars
      PROVE  OwnershipInv'
  BY Zenon, <1>3, OwnershipWorkerStep DEF serviceVars
<1>4. CASE /\ \E h \in Handlers, j \in JobIds : WakeSpuriously(h, j)
           /\ UNCHANGED serviceVars
  BY Zenon, <1>4, OwnershipStutter DEF WakeSpuriously, mapVars, workerVars, serviceVars
<1>5. CASE Stop
  <2>1. /\ UNCHANGED <<state, outcome, result, held, wpc, queued, queue_>>
        /\ ~stopping_
    BY Zenon, <1>5 DEF Stop, StopRegistry, workerVars, serviceVars
  <2>2. SettlerInv' /\ HolderInv'
    BY Zenon, <2>1 DEF OwnershipInv, SettlerInv, HolderInv
  <2>3. OwnerInv' BY Zenon, <2>1 DEF OwnershipInv, OwnerInv, Live, Joined
  <2>4. FieldInv' BY Zenon, <2>1 DEF OwnershipInv, FieldInv, Settled
  <2> QED BY Zenon, <2>2, <2>3, <2>4 DEF OwnershipInv
<1>6. CASE Clear
  <2>1. /\ UNCHANGED <<state, outcome, result, held, wpc, queued, stopping_>>
        /\ Joined'
    BY Zenon, <1>6 DEF Clear, ClearRegistry, recordVars, workerVars, serviceVars, Joined
  <2>2. SettlerInv' /\ HolderInv'
    BY Zenon, <2>1 DEF OwnershipInv, SettlerInv, HolderInv
  <2>3. OwnerInv' BY Zenon, <2>1 DEF OwnerInv
  <2>4. FieldInv' BY Zenon, <2>1 DEF OwnershipInv, FieldInv, Settled
  <2> QED BY Zenon, <2>2, <2>3, <2>4 DEF OwnershipInv
<1>7. CASE UNCHANGED vars
  BY Zenon, <1>7, OwnershipStutter DEF vars, registryVars, serviceVars
<1> QED BY Zenon, <1>1, <1>2, <1>3, <1>4, <1>5, <1>6, <1>7 DEF Next

\* A thread in a dispatch is not idle.
LEMMA HandlerNotIdle ==
  ASSUME NEW h, HandlerStep(h)
  PROVE  pc[h] # "idle"
BY Zenon DEF HandlerStep, CreateReserve, CreateRejected, CreatePublish,
       CreateRollback, CloseBegin, CloseDetach, CloseSnapshotThrows, CloseReopen,
       SettleQueued, SettlePopped, SettleWait, CloseFinalize, SubmitValidate,
       SubmitPublish, Find, ReadStatus, CancelJob, ReadResult, ReleaseJob,
       AcceptShutdown, Return, Calls

\* Every step keeps StopReachesEveryExecution: no dispatch is in progress when
\* stop walks the map, so every live record is in it; and no worker pops a
\* record afterwards.
LEMMA StopStep ==
  ASSUME LifecycleInv, StopReachesEveryExecution, [Next]_vars
  PROVE  StopReachesEveryExecution'
<1> USE DEF LifecycleInv, ControlInv
<1>1. CASE Stop
  <2>1. /\ UNCHANGED <<state, held>> /\ ~stopping_
        /\ \A h \in Handlers : pc[h] = "idle"
        /\ cancellation' = [j \in JobIds |-> cancellation[j] \/ j \in jobs_]
    BY Zenon, <1>1 DEF Stop, StopRegistry, workerVars
  <2>2. ASSUME NEW w \in Workers, held[w] # NoId, Live(held[w])
        PROVE  cancellation'[held[w]]
    <3>1. held[w] \in JobIds
      BY Zenon, <2>2 DEF TypeOK, RegistryTypeOK, WorkerTypeOK
    <3>2. held[w] \in jobs_ BY Zenon, <2>1, <2>2, <3>1 DEF RetentionInv
    <3> QED BY Zenon, <2>1, <3>1, <3>2
  <2> QED BY Zenon, <2>1, <2>2 DEF StopReachesEveryExecution, Live
<1>2. CASE ~Stop /\ ~stopping_
  <2>1. ~stopping_'
    <3>1. ASSUME NEW h \in Handlers, HandlerStep(h) PROVE ~stopping_'
      BY Zenon, <1>2, <3>1, HandlerLeavesWorkers
    <3>2. ASSUME NEW w \in Workers, WorkerStep(w) \/ Execute(w) \/ SpuriousWake(w)
          PROVE  ~stopping_'
      BY Zenon, <1>2, <3>2, WorkerFrame
    <3> QED BY Zenon, <1>2, <3>1, <3>2 DEF Next, vars, registryVars, Begin,
               WakeSpuriously, mapVars, Clear, ClearRegistry
  <2> QED BY Zenon, <2>1 DEF StopReachesEveryExecution
<1>3. CASE ~Stop /\ stopping_
  <2>1. \A h \in Handlers : ~HandlerStep(h)
    BY Zenon, <1>3, HandlerNotIdle DEF HandlerControlInv
  <2>2. ASSUME NEW w \in Workers, WorkerStep(w) \/ Execute(w) \/ SpuriousWake(w),
               NEW v \in Workers, held'[v] # NoId, Live(held[v])'
        PROVE  held'[v] = held[v] /\ Live(held[v]) /\ cancellation' = cancellation
    <3>1. held'[v] \in {held[v], NoId}
      BY Zenon, <1>3, <2>2
         DEF WorkerStep, WorkerSleep, WorkerExit, WorkerPop, BeginExecute,
             CheckBeforeCompile, Compile, FinalPublication, FinishCancelled,
             FinishFailure, Fence, Fallback, Execute, SpuriousWake, Done, FailWith,
             workerVars, TypeOK, RegistryTypeOK, WorkerTypeOK
    <3>2. held'[v] = held[v] /\ held[v] \in JobIds
      BY Zenon, <2>2, <3>1 DEF TypeOK, RegistryTypeOK, WorkerTypeOK
    <3>3. \A j \in JobIds : Live(j)' => Live(j)
      BY Zenon, <2>2, WorkerRecords DEF TypeOK
    <3>4. Live(held[v]) BY Zenon, <2>2, <3>2, <3>3 DEF Live
    <3> QED BY Zenon, <2>2, <3>2, <3>4, WorkerFrame
  <2>3. ASSUME UNCHANGED <<held, state, cancellation>>
        PROVE  StopReachesEveryExecution'
    BY Zenon, <1>3, <2>3 DEF StopReachesEveryExecution, Live
  <2>4. ASSUME NEW w \in Workers, WorkerStep(w) \/ Execute(w) \/ SpuriousWake(w)
        PROVE  StopReachesEveryExecution'
    BY Zenon, <1>3, <2>2, <2>4 DEF StopReachesEveryExecution
  <2> QED BY Zenon, <1>3, <2>1, <2>3, <2>4
          DEF Next, vars, registryVars, Begin, WakeSpuriously, workerVars, Clear,
              ClearRegistry, recordVars
<1> QED BY Zenon, <1>1, <1>2, <1>3

\* The constructors establish the invariant.
LEMMA ExecutionInit ==
  ASSUME Init
  PROVE  ExecutionInv
<1> USE DEF Init, RegistryInit
<1>1. SettlerInv BY Zenon DEF SettlerInv
<1>2. HolderInv BY Zenon DEF HolderInv
<1>3. OwnerInv BY Zenon DEF OwnerInv, Live
<1>4. FieldInv BY Zenon DEF FieldInv, terminal
<1>5. StopReachesEveryExecution BY Zenon DEF StopReachesEveryExecution
<1> QED
  BY Zenon, <1>1, <1>2, <1>3, <1>4, <1>5, LifecycleInit DEF ExecutionInv, OwnershipInv

\* The ownership of every record by queue, worker or closing handler is kept
\* throughout, together with what it says of the record's fields and of stop.
THEOREM ExecutionInvariant == Spec => []ExecutionInv
<1>1. Init => ExecutionInv BY Zenon, ExecutionInit
<1>2. ExecutionInv /\ [Next]_vars => ExecutionInv'
  BY Zenon, LifecycleStep, OwnershipStep, StopStep DEF ExecutionInv
<1> QED BY <1>1, <1>2, PTL DEF Spec

\* Every unfinished execution is in exactly one place that will finish it: the
\* worker queue, one worker's execute or one closing handler.
THEOREM UnfinishedWorkHasOneOwner == Spec => []OneOwner
<1>1. ExecutionInv => OneOwner
  <2> SUFFICES ASSUME ExecutionInv, NEW j \in JobIds
               PROVE  /\ \A v, w \in Holders(j) : v = w
                      /\ \A g, h \in Settlers(j) : g = h
                      /\ j \in queue_ => Holders(j) = {} /\ Settlers(j) = {}
                      /\ Holders(j) = {} \/ Settlers(j) = {}
                      /\ Live(j) => \/ j \in queue_ \/ Holders(j) # {}
                                    \/ Settlers(j) # {} \/ Joined
    BY Zenon DEF OneOwner
  <2>0. j # NoId BY DEF JobIds, NoId
  <2>1. \A v, w \in Holders(j) : v = w
    BY Zenon, <2>0 DEF ExecutionInv, OwnershipInv, HolderInv, Holders
  <2>2. \A g, h \in Settlers(j) : g = h
    BY Zenon DEF ExecutionInv, OwnershipInv, SettlerInv, Settlers
  <2>3. j \in queue_ => Holders(j) = {} /\ Settlers(j) = {}
    BY DEF ExecutionInv, LifecycleInv, QueueInv, RetentionInv, Holders, Settlers
  <2>4. Holders(j) = {} \/ Settlers(j) = {}
    BY Zenon DEF ExecutionInv, OwnershipInv, SettlerInv, Holders, Settlers
  <2>5. Live(j) => j \in queue_ \/ Holders(j) # {} \/ Settlers(j) # {} \/ Joined
    BY Zenon DEF ExecutionInv, OwnershipInv, OwnerInv, Holders, Settlers
  <2> QED BY Zenon, <2>1, <2>2, <2>3, <2>4, <2>5
<1> QED BY <1>1, ExecutionInvariant, PTL

\* Whatever allocations fail in execute, finish_failure_safely leaves no record
\* half published when the worker drops it.
THEOREM NoHalfPublishedRecord == Spec => []WorkersLeaveSettledRecords
<1>1. ExecutionInv => WorkersLeaveSettledRecords
  BY Zenon DEF ExecutionInv, OwnershipInv, FieldInv, WorkersLeaveSettledRecords, Holders
<1> QED BY <1>1, ExecutionInvariant, PTL

\* stop cancels every execution that a worker could still be running.
THEOREM StopCancelsRunningWork == Spec => []StopReachesEveryExecution
<1>1. ExecutionInv => StopReachesEveryExecution BY Zenon DEF ExecutionInv
<1> QED BY <1>1, ExecutionInvariant, PTL

\* A publication or its failed attempt touches one record.
LEMMA PublishFrame ==
  ASSUME RegistryTypeOK, NEW i \in JobIds, NEW j \in JobIds, j # i,
         \/ \E s, c, r : Publish(i, s, c, r)
         \/ \E c : PublishFailure(i, c)
         \/ \E begun : DiagnosticThrows(i, begun)
  PROVE  state'[j] = state[j] /\ outcome'[j] = outcome[j] /\ result'[j] = result[j]
BY Zenon DEF Publish, PublishFailure, DiagnosticThrows, RegistryTypeOK, RecordTypeOK

\* What a worker does to the terminal fields: those of other records stay, and
\* its own record, if cancelled, comes to no other end than Cancelled.
LEMMA WorkerFields ==
  ASSUME ExecutionInv, NEW w \in Workers,
         WorkerStep(w) \/ Execute(w) \/ SpuriousWake(w), NEW j \in JobIds
  PROVE  /\ j # held[w] => /\ state'[j] = state[j] /\ outcome'[j] = outcome[j]
                           /\ result'[j] = result[j]
         /\ j = held[w] /\ Live(j) /\ cancellation[j]
              => state'[j] \notin {"Succeeded", "Failed"}
<1> USE DEF ExecutionInv, LifecycleInv, TypeOK
<1>1. CASE \/ WorkerSleep(w) \/ SpuriousWake(w) \/ WorkerExit(w) \/ WorkerPop(w)
           \/ CheckBeforeCompile(w) \/ Compile(w) \/ Execute(w)
  BY Zenon, <1>1 DEF WorkerSleep, SpuriousWake, WorkerExit, WorkerPop,
              CheckBeforeCompile, Compile, Execute, recordVars, Live
<1>2. CASE BeginExecute(w)
  <2>1. state[held[w]] = "Queued" /\ held[w] \in JobIds
    BY Zenon, <1>2
       DEF BeginExecute, OwnershipInv, HolderInv, ControlInv, WorkerControlInv,
                RegistryTypeOK, WorkerTypeOK
  <2>2. /\ state' = [state EXCEPT ![held[w]] = "Running"]
        /\ UNCHANGED <<outcome, result>>
    BY Zenon, <1>2, <2>1 DEF BeginExecute
  <2> QED BY Zenon, <2>1, <2>2 DEF RegistryTypeOK, RecordTypeOK
<1>3. CASE \/ FinalPublication(w) \/ FinishCancelled(w) \/ FinishFailure(w)
           \/ Fence(w) \/ Fallback(w)
  <2>1. held[w] \in JobIds
    BY Zenon, <1>3 DEF FinalPublication, FinishCancelled, FinishFailure, Fence, Fallback,
                ControlInv, WorkerControlInv, RegistryTypeOK, WorkerTypeOK
  <2>2. j # held[w] => /\ state'[j] = state[j] /\ outcome'[j] = outcome[j]
                       /\ result'[j] = result[j]
    BY Zenon, <1>3, <2>1, PublishFrame
       DEF FinalPublication, FinishCancelled, FinishFailure, Fence, Fallback
  <2>3. ASSUME j = held[w], Live(j), cancellation[j]
        PROVE  state'[j] \notin {"Succeeded", "Failed"}
    <3>1. \/ \E c, r : Publish(j, "Cancelled", c, r)
          \/ \E begun : DiagnosticThrows(j, begun)
      BY Zenon, <1>3, <2>3
         DEF FinalPublication, FinishCancelled, FinishFailure, Fence, Fallback,
             PublishFailure
    <3> QED BY Zenon, <2>3, <3>1 DEF Publish, DiagnosticThrows, Live, RegistryTypeOK,
                              RecordTypeOK
  <2> QED BY Zenon, <2>2, <2>3
<1> QED BY Zenon, <1>1, <1>2, <1>3 DEF WorkerStep

\* What any step does to the terminal fields of a record.
LEMMA RecordStep ==
  ASSUME ExecutionInv, [Next]_vars, NEW j \in JobIds
  PROVE  /\ Live(j) /\ cancellation[j] => state'[j] \notin {"Succeeded", "Failed"}
         /\ Settled(j) => /\ state'[j] = state[j] /\ outcome'[j] = outcome[j]
                          /\ result'[j] = result[j]
<1> DEFINE Same == state'[j] = state[j] /\ outcome'[j] = outcome[j] /\ result'[j] = result[j]
           Ends == Live(j) /\ cancellation[j] => state'[j] \notin {"Succeeded", "Failed"}
<1>0. Same => Ends BY Zenon DEF Live
<1>1. ASSUME NEW h \in Handlers, HandlerStep(h)
      PROVE  Ends /\ (Settled(j) => Same)
  <2>1. CASE SettleQueued(h)
    <3>1. PICK i \in queued[h] : SettleQueuedRecord(i) BY Zenon, <2>1 DEF SettleQueued
    <3>2. state[i] = "Queued" /\ i \in JobIds
      BY Zenon
         DEF ExecutionInv, OwnershipInv, SettlerInv, LifecycleInv, TypeOK, CloseTypeOK
    <3>3. \E s, c, r : Publish(i, s, c, r) BY Zenon, <3>1 DEF SettleQueuedRecord
    <3>4. CASE j = i
      <4>1. ~Settled(j) BY Zenon, <3>2, <3>4 DEF Settled
      <4>2. state'[j] = "Cancelled"
        BY Zenon, <3>1, <3>2, <3>4 DEF SettleQueuedRecord, Publish, ExecutionInv,
                 LifecycleInv, TypeOK, RegistryTypeOK, RecordTypeOK
      <4> QED BY Zenon, <4>1, <4>2
    <3>5. CASE j # i
      BY Zenon, <1>0, <3>2, <3>3, <3>5, PublishFrame
         DEF ExecutionInv, LifecycleInv, TypeOK
    <3> QED BY Zenon, <3>4, <3>5
  <2>2. CASE SubmitPublish(h)
    <3>1. CASE UNCHANGED <<state, outcome, result>> BY Zenon, <1>0, <3>1
    <3>2. CASE /\ next_id_ # 0
               /\ state' = [state EXCEPT ![next_id_] = "Queued"]
               /\ outcome' = [outcome EXCEPT ![next_id_] = "Ok"]
               /\ result' = [result EXCEPT ![next_id_] = FALSE]
      <4>1. CASE j = next_id_
        <5>1. j >= next_id_ BY <4>1 DEF JobIds
        <5>2. state[j] = "Unborn"
          BY Zenon, <3>2, <5>1 DEF ExecutionInv, LifecycleInv, IdentityInv
        <5> QED BY Zenon, <5>2 DEF Live, Settled
      <4>2. CASE j # next_id_
        BY Zenon, <1>0, <3>2, <4>2 DEF ExecutionInv, LifecycleInv, TypeOK, RegistryTypeOK,
                                RecordTypeOK
      <4> QED BY Zenon, <4>1, <4>2
    <3> QED BY Zenon, <2>2, <3>1, <3>2
            DEF SubmitPublish, SubmitRefusal, Enqueue, EnqueueThrows, registryVars,
                recordVars
  <2>3. CASE CloseDetach(h)
    BY Zenon, <1>0, <2>3 DEF CloseDetach, DetachSession, recordVars
  <2>4. CASE ~(CloseDetach(h) \/ SettleQueued(h) \/ SubmitPublish(h))
    BY Zenon, <1>0, <1>1, <2>4, HandlerFields
  <2> QED BY Zenon, <2>1, <2>2, <2>3, <2>4
<1>2. ASSUME NEW w \in Workers, WorkerStep(w) \/ Execute(w) \/ SpuriousWake(w)
      PROVE  Ends /\ (Settled(j) => Same)
  <2>1. /\ j # held[w] => Same
        /\ j = held[w] => Ends
    BY Zenon, <1>2, WorkerFields
  <2>2. ASSUME j = held[w] PROVE ~Settled(j)
    <3>1. held[w] # NoId BY <2>2 DEF JobIds, NoId
    <3>2. outcome[j] = "Ok" /\ ~result[j]
      BY Zenon, <2>2, <3>1, HeldAlone DEF ExecutionInv, LifecycleInv, ControlInv
    <3> QED BY Zenon, <3>2 DEF Settled
  <2> QED BY Zenon, <1>0, <2>1, <2>2
<1>3. CASE UNCHANGED <<state, outcome, result>> BY Zenon, <1>0, <1>3
<1> QED BY Zenon, <1>1, <1>2, <1>3
        DEF Next, vars, registryVars, Begin, WakeSpuriously, Stop, StopRegistry,
            Clear, ClearRegistry, recordVars

\* A cancellation accepted before the record is terminal decides its end: no
\* success and no other failure is published over it.
THEOREM AcceptedCancellationDecides == Spec => CancellationDecides
<1>1. ExecutionInv /\ [Next]_vars =>
        [\A j \in JobIds :
           Live(j) /\ cancellation[j] => state'[j] \notin {"Succeeded", "Failed"}]_vars
  BY Zenon, RecordStep
<1> QED BY <1>1, ExecutionInvariant, PTL DEF Spec, CancellationDecides

\* A published terminal snapshot never changes again.
THEOREM TerminalSnapshotsAreFinal == Spec => PublishedIsFinal
<1>1. ExecutionInv /\ [Next]_vars =>
        [\A j \in JobIds :
           Settled(j) => /\ state'[j] = state[j] /\ outcome'[j] = outcome[j]
                         /\ result'[j] = result[j]]_vars
  BY Zenon, RecordStep
<1> QED BY <1>1, ExecutionInvariant, PTL DEF Spec, PublishedIsFinal

-----------------------------------------------------------------------------
(* Records never admitted, and records with a worker                         *)

\* A handler leaves the token of a record it never found, took or admits alone.
LEMMA HandlerTokens ==
  ASSUME ContractInv, NEW h \in Handlers, HandlerStep(h), ~SubmitPublish(h),
         NEW j \in JobIds, state[j] = "Unborn"
  PROVE  cancellation'[j] = cancellation[j]
<1> USE DEF ContractInv, ExecutionInv, LifecycleInv
<1>1. CASE SettleQueued(h)
  <2>1. PICK i \in queued[h] : SettleQueuedRecord(i) BY Zenon, <1>1 DEF SettleQueued
  <2>2. i # j BY Zenon DEF IdentityInv
  <2> QED
    BY Zenon, <2>1, <2>2 DEF SettleQueuedRecord, TypeOK, RegistryTypeOK, RecordTypeOK
<1>2. CASE SettlePopped(h)
  <2>1. PICK i \in uncancelled[h] : CancelRecord(i)
    BY Zenon, <1>2 DEF SettlePopped, SettlePoppedRecord
  <2>2. i # j BY Zenon DEF IdentityInv, ControlInv, HandlerControlInv
  <2> QED BY Zenon, <2>1, <2>2 DEF CancelRecord, TypeOK, RegistryTypeOK, RecordTypeOK
<1>3. CASE CancelJob(h)
  <2>1. CancelRecord(arg[h]) /\ pc[h] = "found" BY Zenon, <1>3 DEF CancelJob
  <2>2. arg[h] # j BY Zenon, <2>1 DEF UntouchedInv
  <2> QED BY Zenon, <2>1, <2>2 DEF CancelRecord, TypeOK, RegistryTypeOK, RecordTypeOK
<1>4. CASE ~(SettleQueued(h) \/ SettlePopped(h) \/ CancelJob(h))
  <2>1. UNCHANGED cancellation
    BY Zenon, <1>4
       DEF HandlerStep, CreateReserve, CreateRejected, CreatePublish,
           CreateRollback, CloseBegin, CloseDetach, DetachSession,
           CloseSnapshotThrows, CloseReopen, SettleWait, SleepUntilTerminal,
           CloseFinalize, SubmitValidate, Find, ReadStatus, ReadResult,
           ReleaseJob, Release, AcceptShutdown, Return, registryVars, recordVars
  <2> QED BY Zenon, <2>1
<1> QED BY Zenon, <1>1, <1>2, <1>3, <1>4

\* A handler finds only what is retained.
LEMMA HandlerFinds ==
  ASSUME TypeOK, NEW h \in Handlers, HandlerStep(h), pc'[h] = "found"
  PROVE  arg'[h] \in jobs_
<1>1. CASE Find(h)
  BY Zenon, <1>1 DEF Find, Continue, Refuse, Respond, Leave, Jump, TypeOK, DispatchTypeOK
<1>2. CASE ~Find(h)
  <2>1. \/ UNCHANGED pc /\ pc[h] = "settle"
        \/ \E l \in Labels \ {"found"} : Jump(h, l)
    BY Zenon, <1>2
       DEF HandlerStep, CreateReserve, CreateRejected, CreatePublish,
           CreateRollback, CloseBegin, CloseDetach, CloseSnapshotThrows,
           CloseReopen, SettleQueued, SettlePopped, SettleWait, CloseFinalize,
           SubmitValidate, SubmitPublish, ReadStatus, CancelJob, ReadResult,
           ReleaseJob, AcceptShutdown, Return, Continue, Refuse, Respond, Leave,
           dispatchVars, Labels
  <2> QED BY Zenon, <2>1 DEF Jump, TypeOK, DispatchTypeOK
<1> QED BY Zenon, <1>1, <1>2

\* What was admitted once stays so.
LEMMA AdmittedStays ==
  ASSUME LifecycleInv, [Next]_vars, NEW j \in JobIds, state[j] # "Unborn"
  PROVE  state'[j] # "Unborn"
<1> USE DEF LifecycleInv
<1>1. ASSUME NEW h \in Handlers, HandlerStep(h) PROVE state'[j] # "Unborn"
  <2>1. CASE SubmitPublish(h)
    <3>1. \/ UNCHANGED state
          \/ state' = [state EXCEPT ![next_id_] = "Queued"]
      BY Zenon, <2>1 DEF SubmitPublish, Enqueue, EnqueueThrows, registryVars, recordVars
    <3> QED BY Zenon, <3>1 DEF TypeOK, RegistryTypeOK, RecordTypeOK
  <2>2. CASE ~SubmitPublish(h) BY Zenon, <1>1, <2>2, HandlerRecords
  <2> QED BY Zenon, <2>1, <2>2
<1>2. ASSUME NEW w \in Workers, WorkerStep(w) \/ Execute(w) \/ SpuriousWake(w)
      PROVE  state'[j] # "Unborn"
  BY Zenon, <1>2, WorkerRecords DEF TypeOK, ControlInv
<1>3. CASE UNCHANGED state BY Zenon, <1>3
<1> QED BY Zenon, <1>1, <1>2, <1>3
        DEF Next, vars, registryVars, Begin, WakeSpuriously, Stop, StopRegistry,
            Clear, ClearRegistry, recordVars

\* Every step keeps UntouchedInv.
LEMMA UntouchedStep ==
  ASSUME ContractInv, [Next]_vars
  PROVE  UntouchedInv'
<1> USE DEF ContractInv, ExecutionInv, LifecycleInv
<1>0. \A j \in JobIds : state'[j] = "Unborn" => state[j] = "Unborn"
  BY Zenon, AdmittedStays
<1>1. ASSUME NEW h \in Handlers, HandlerStep(h) PROVE UntouchedInv'
  <2>1. ASSUME NEW j \in JobIds, state'[j] = "Unborn"
        PROVE  ~cancellation'[j] /\ session_id'[j] = NoId
    <3>1. state[j] = "Unborn" BY Zenon, <1>0, <2>1
    <3>2. ~cancellation[j] /\ session_id[j] = NoId BY Zenon, <3>1 DEF UntouchedInv
    <3>3. CASE SubmitPublish(h)
      <4>1. \/ UNCHANGED <<cancellation, session_id>>
            \/ /\ state' = [state EXCEPT ![next_id_] = "Queued"]
               /\ \E s : session_id' = [session_id EXCEPT ![next_id_] = s]
               /\ cancellation' = [cancellation EXCEPT ![next_id_] = FALSE]
        BY Zenon, <3>3 DEF SubmitPublish, Enqueue, EnqueueThrows, registryVars, recordVars
      <4> QED BY Zenon, <2>1, <3>2, <4>1 DEF TypeOK, RegistryTypeOK, RecordTypeOK
    <3>4. CASE ~SubmitPublish(h)
      <4>1. cancellation'[j] = cancellation[j] BY Zenon, <1>1, <3>1, <3>4, HandlerTokens
      <4>2. UNCHANGED session_id BY Zenon, <1>1, <3>4, HandlerRecords
      <4> QED BY Zenon, <3>2, <4>1, <4>2
    <3> QED BY Zenon, <3>3, <3>4
  <2>2. ASSUME NEW g \in Handlers, pc'[g] = "found" PROVE state'[arg'[g]] # "Unborn"
    <3>1. arg'[g] \in JobIds /\ state[arg'[g]] # "Unborn"
      <4>1. CASE g = h
        BY Zenon, <1>1, <2>2, <4>1, HandlerFinds
           DEF IdentityInv, TypeOK, RegistryTypeOK, MapTypeOK
      <4>2. CASE g # h
        <5>1. pc'[g] = pc[g] /\ arg'[g] = arg[g] BY Zenon, <1>1, <4>2, HandlerLeavesOthers
        <5> QED BY Zenon, <2>2, <5>1 DEF UntouchedInv, ControlInv, HandlerControlInv
      <4> QED BY Zenon, <4>1, <4>2
    <3> QED BY Zenon, <1>0, <3>1
  <2> QED BY Zenon, <2>1, <2>2 DEF UntouchedInv
<1>2. CASE UNCHANGED <<pc, arg, session_id>> /\ \A j \in JobIds :
             state[j] = "Unborn" => cancellation'[j] = cancellation[j]
  <2>1. ASSUME NEW j \in JobIds, state'[j] = "Unborn"
        PROVE  ~cancellation'[j] /\ session_id'[j] = NoId
    BY Zenon, <1>0, <1>2, <2>1 DEF UntouchedInv
  <2>2. ASSUME NEW g \in Handlers, pc'[g] = "found" PROVE state'[arg'[g]] # "Unborn"
    BY Zenon, <1>0, <1>2, <2>2 DEF UntouchedInv, ControlInv, HandlerControlInv
  <2> QED BY Zenon, <2>1, <2>2 DEF UntouchedInv
<1>3. ASSUME NEW h \in Handlers, NEW m, NEW i, Begin(h, m, i) PROVE UntouchedInv'
  <2>1. /\ UNCHANGED <<state, session_id, cancellation>>
        /\ Jump(h, "reply") \/ Jump(h, "call")
        /\ \A g \in Handlers \ {h} : arg'[g] = arg[g]
    BY Zenon, <1>3 DEF Begin, Leave, registryVars, TypeOK, DispatchTypeOK
  <2>2. \A g \in Handlers : pc'[g] = "found" => pc[g] = "found" /\ arg'[g] = arg[g]
    BY Zenon, <2>1 DEF Jump, TypeOK, DispatchTypeOK
  <2> QED BY Zenon, <2>1, <2>2 DEF UntouchedInv
<1>4. ASSUME NEW w \in Workers, WorkerStep(w) \/ Execute(w) \/ SpuriousWake(w)
      PROVE  UNCHANGED <<session_id, cancellation>>
  BY Zenon, <1>4, WorkerFrame
<1>5. ASSUME Stop, NEW j \in JobIds, state[j] = "Unborn"
      PROVE  cancellation'[j] = cancellation[j]
  <2>1. j \notin jobs_ BY Zenon, <1>5 DEF IdentityInv
  <2> QED
    BY Zenon, <1>5, <2>1 DEF Stop, StopRegistry, TypeOK, RegistryTypeOK, RecordTypeOK
<1>6. Stop => UNCHANGED <<pc, arg, session_id>>
  BY Zenon DEF Stop, StopRegistry, serviceVars
<1>7. CASE UNCHANGED <<pc, arg, session_id, cancellation>> BY Zenon, <1>2, <1>7
<1> QED BY Zenon, <1>1, <1>2, <1>3, <1>4, <1>5, <1>6, <1>7
        DEF Next, vars, registryVars, serviceVars, WakeSpuriously, Clear,
            ClearRegistry, recordVars

\* Without allocation failures a worker parts with its record when it publishes,
\* and at no other step.
LEMMA WorkerKeepsUnfinished ==
  ASSUME ContractInv, ~AllocationMayFail, NEW w \in Workers,
         WorkerStep(w) \/ Execute(w) \/ SpuriousWake(w)
  PROVE  /\ \A v \in Workers : v # w => held'[v] = held[v]
         /\ held'[w] # NoId => Live(held[w])'
<1> USE DEF ContractInv, ExecutionInv, LifecycleInv, TypeOK, RegistryTypeOK
<1>1. CASE \/ WorkerSleep(w) \/ SpuriousWake(w) \/ WorkerExit(w)
           \/ CheckBeforeCompile(w) \/ Compile(w) \/ Execute(w)
  <2>1. UNCHANGED <<held, state>>
    BY Zenon, <1>1 DEF WorkerSleep, SpuriousWake, WorkerExit, CheckBeforeCompile, Compile,
                Execute, FailWith, workerVars, recordVars
  <2>2. held[w] # NoId => Live(held[w]) BY Zenon DEF HeldInv
  <2> QED BY Zenon, <2>1, <2>2 DEF Live
<1>2. CASE WorkerPop(w)
  <2>1. PICK j \in queue_ : held' = [held EXCEPT ![w] = j] BY Zenon, <1>2 DEF WorkerPop
  <2>2. UNCHANGED state BY Zenon, <1>2 DEF WorkerPop, recordVars
  <2>3. state[j] = "Queued" BY Zenon DEF QueueInv
  <2> QED BY Zenon, <2>1, <2>2, <2>3 DEF WorkerTypeOK, Live
<1>3. CASE BeginExecute(w)
  <2>1. state[held[w]] = "Queued" /\ held[w] \in JobIds
    BY Zenon, <1>3
       DEF BeginExecute, OwnershipInv, HolderInv, ControlInv, WorkerControlInv,
                WorkerTypeOK
  <2>2. UNCHANGED held /\ state' = [state EXCEPT ![held[w]] = "Running"]
    BY Zenon, <1>3, <2>1 DEF BeginExecute
  <2> QED BY Zenon, <2>1, <2>2 DEF RecordTypeOK, Live
<1>4. CASE \/ FinalPublication(w) \/ FinishCancelled(w) \/ FinishFailure(w)
           \/ Fence(w) \/ Fallback(w)
  <2>1. Done(w)
    BY Zenon, <1>4 DEF FinalPublication, FinishCancelled, FinishFailure, Fence, Fallback,
                DiagnosticThrows
  <2> QED BY Zenon, <2>1 DEF Done, WorkerTypeOK
<1> QED BY Zenon, <1>1, <1>2, <1>3, <1>4 DEF WorkerStep

\* Every step keeps HeldInv.
LEMMA HeldStep ==
  ASSUME ContractInv, [Next]_vars
  PROVE  HeldInv'
<1> SUFFICES ASSUME ~AllocationMayFail, NEW w \in Workers, held'[w] # NoId
             PROVE  Live(held[w])'
  BY Zenon DEF HeldInv
<1> USE DEF ContractInv, ExecutionInv, LifecycleInv
<1>0. ASSUME held'[w] = held[w], state'[held[w]] \in {state[held[w]], "Queued"}
      PROVE  Live(held[w])'
  BY Zenon, <1>0 DEF HeldInv, Live
<1>1. ASSUME NEW h \in Handlers, HandlerStep(h) PROVE Live(held[w])'
  <2>1. held'[w] = held[w] BY Zenon, <1>1, HandlerLeavesWorkers
  <2>2. held[w] \in JobIds /\ held[w] \notin queued[h]
    BY Zenon, <2>1, HeldAlone DEF ControlInv
  <2>3. CASE SubmitPublish(h)
    <3>1. \/ UNCHANGED state
          \/ state' = [state EXCEPT ![next_id_] = "Queued"]
      BY Zenon, <2>3 DEF SubmitPublish, Enqueue, EnqueueThrows, registryVars, recordVars
    <3>2. state'[held[w]] \in {state[held[w]], "Queued"}
      BY Zenon, <2>2, <3>1 DEF TypeOK, RegistryTypeOK, RecordTypeOK
    <3> QED BY Zenon, <1>0, <2>1, <3>2
  <2>4. CASE ~SubmitPublish(h)
    <3>1. state'[held[w]] = state[held[w]] BY Zenon, <1>1, <2>2, <2>4, HandlerRecords
    <3> QED BY Zenon, <1>0, <2>1, <3>1
  <2> QED BY Zenon, <2>3, <2>4
<1>2. ASSUME NEW v \in Workers, WorkerStep(v) \/ Execute(v) \/ SpuriousWake(v)
      PROVE  Live(held[w])'
  <2>1. CASE v = w BY Zenon, <1>2, <2>1, WorkerKeepsUnfinished
  <2>2. CASE v # w
    <3>1. held'[w] = held[w] BY Zenon, <1>2, <2>2, WorkerKeepsUnfinished
    <3>2. held[w] \in JobIds /\ held[w] # held[v]
      BY Zenon, <2>2, <3>1, HeldAlone DEF ControlInv
    <3>3. state'[held[w]] = state[held[w]]
      BY Zenon, <1>2, <3>2, WorkerRecords DEF TypeOK, ControlInv
    <3> QED BY Zenon, <1>0, <3>1, <3>3
  <2> QED BY Zenon, <2>1, <2>2
<1>3. CASE UNCHANGED <<state, held>> BY Zenon, <1>0, <1>3
<1> QED BY Zenon, <1>1, <1>2, <1>3
        DEF Next, vars, registryVars, Begin, WakeSpuriously, Stop, StopRegistry,
            Clear, ClearRegistry, recordVars, workerVars

\* The invariant under the mapping holds throughout.
THEOREM ContractInvariant == Spec => []ContractInv
<1>1. Init => UntouchedInv /\ HeldInv
  BY DEF Init, RegistryInit, UntouchedInv, HeldInv
<1>2. ContractInv /\ [Next]_vars => UntouchedInv' /\ HeldInv'
  BY Zenon, UntouchedStep, HeldStep
<1>3. ContractInv <=> ExecutionInv /\ UntouchedInv /\ HeldInv BY Zenon DEF ContractInv
<1> QED BY <1>1, <1>2, <1>3, ExecutionInvariant, PTL DEF Spec

-----------------------------------------------------------------------------
(* The mapping                                                               *)

\* The service starts as the contract does.
LEMMA ContractInit ==
  ASSUME Init
  PROVE  Contract!Init
<1>1. {j \in JobIds : cancellation[j]} = {} BY Zenon DEF Init, RegistryInit
<1> QED BY Zenon, <1>1 DEF Init, RegistryInit, Contract!Init

\* What a client can see of the service.
View == <<sessions, closing, jobs_, state, session_id, cancellation, stopping_>>

\* A step that keeps the view keeps the contract's variables.
LEMMA ViewStutter ==
  ASSUME UNCHANGED View
  PROVE  UNCHANGED Contract!contractVars
BY Zenon DEF View, Contract!contractVars

\* The set of cancelled executions follows the tokens.
LEMMA TokenCancelled ==
  ASSUME RecordTypeOK, NEW j \in JobIds, cancellation' = [cancellation EXCEPT ![j] = TRUE]
  PROVE  {i \in JobIds : cancellation'[i]} = {i \in JobIds : cancellation[i]} \cup {j}
BY Zenon DEF RecordTypeOK

\* A publication over a running record is the end of an execution; a token that
\* is cancelled admits Cancelled only.
LEMMA PublishEnds ==
  ASSUME NEW j \in JobIds, NEW s \in {"Succeeded", "Failed", "Cancelled"}, NEW c, NEW r,
         Publish(j, s, c, r), state[j] = "Running",
         s # "Cancelled" => ~cancellation[j],
         UNCHANGED <<sessions, closing, jobs_, session_id, cancellation, stopping_>>
  PROVE  Contract!Next
<1>1. s \in {"Succeeded", "Failed"} => j \notin {i \in JobIds : cancellation[i]}
  BY Zenon
<1>2. {i \in JobIds : cancellation'[i]} = {i \in JobIds : cancellation[i]} BY Zenon
<1>3. state' = [state EXCEPT ![j] = s] BY Zenon DEF Publish
<1>4. Contract!End(j, s)
  BY Zenon, <1>1, <1>2, <1>3 DEF Contract!End, Contract!Unfinished
<1> QED BY Zenon, <1>4 DEF Contract!Next, Contract!Over

\* The steps of the workers: Run, End, or nothing a client can see.
LEMMA WorkerSimulates ==
  ASSUME ContractInv, ~AllocationMayFail, NEW w \in Workers,
         WorkerStep(w) \/ Execute(w) \/ SpuriousWake(w), UNCHANGED serviceVars
  PROVE  Contract!Next \/ UNCHANGED View
<1> USE DEF ContractInv, ExecutionInv, LifecycleInv
<1>0. UNCHANGED <<sessions, closing, jobs_, session_id, cancellation, stopping_>>
  BY Zenon, WorkerFrame DEF serviceVars
<1>1. CASE \/ WorkerSleep(w) \/ SpuriousWake(w) \/ WorkerExit(w) \/ WorkerPop(w)
           \/ CheckBeforeCompile(w) \/ Compile(w) \/ Execute(w)
  BY Zenon, <1>0, <1>1
     DEF WorkerSleep, SpuriousWake, WorkerExit, WorkerPop, CheckBeforeCompile, Compile,
         Execute, recordVars, View
<1>2. CASE BeginExecute(w)
  <2>1. state[held[w]] = "Queued" /\ held[w] \in JobIds
    BY Zenon, <1>2
       DEF BeginExecute, OwnershipInv, HolderInv, ControlInv, WorkerControlInv,
                TypeOK, RegistryTypeOK, WorkerTypeOK
  <2>2. state' = [state EXCEPT ![held[w]] = "Running"]
    BY Zenon, <1>2, <2>1 DEF BeginExecute
  <2>3. {i \in JobIds : cancellation'[i]} = {i \in JobIds : cancellation[i]}
    BY Zenon, <1>0
  <2>4. Contract!Run(held[w]) BY Zenon, <1>0, <2>1, <2>2, <2>3 DEF Contract!Run
  <2> QED BY Zenon, <2>1, <2>4 DEF Contract!Next
<1>3. CASE \/ FinalPublication(w) \/ FinishCancelled(w) \/ FinishFailure(w)
           \/ Fence(w) \/ Fallback(w)
  <2>1. wpc[w] \in {"publish", "finish_cancelled", "finish_failure", "fence", "fallback"}
    BY Zenon, <1>3 DEF FinalPublication, FinishCancelled, FinishFailure, Fence, Fallback
  <2>2. held[w] # NoId /\ held[w] \in JobIds
    BY Zenon, <2>1 DEF ControlInv, WorkerControlInv, TypeOK, RegistryTypeOK, WorkerTypeOK
  <2>3. state[held[w]] = "Running"
    BY Zenon, <2>1, <2>2 DEF OwnershipInv, HolderInv, HeldInv, Live
  <2>4. \E s \in {"Succeeded", "Failed", "Cancelled"} : \E c, r :
           Publish(held[w], s, c, r) /\ (s # "Cancelled" => ~cancellation[held[w]])
    BY Zenon, <1>3 DEF FinalPublication, FinishCancelled, FinishFailure, Fence, Fallback,
                PublishFailure, DiagnosticThrows
  <2> QED BY Zenon, <1>0, <2>2, <2>3, <2>4, PublishEnds
<1> QED BY Zenon, <1>1, <1>2, <1>3 DEF WorkerStep

\* A cancellation is requested of an unfinished record, or changes nothing.
LEMMA CancelSimulates ==
  ASSUME ContractInv, NEW j \in JobIds, state[j] # "Unborn", CancelRecord(j),
         UNCHANGED <<sessions, closing>>
  PROVE  Contract!Next \/ UNCHANGED View
<1> USE DEF ContractInv, ExecutionInv, LifecycleInv, TypeOK, RegistryTypeOK
<1>0. UNCHANGED <<jobs_, state, session_id, stopping_>> BY Zenon DEF CancelRecord, mapVars
<1>1. CASE terminal(state[j])
  <2>1. cancellation' = cancellation
    BY Zenon, <1>1 DEF CancelRecord, RecordTypeOK
  <2> QED BY Zenon, <1>0, <2>1 DEF View
<1>2. CASE ~terminal(state[j])
  <2>1. cancellation' = [cancellation EXCEPT ![j] = TRUE]
    BY Zenon, <1>2 DEF CancelRecord, RecordTypeOK
  <2>2. state[j] \in {"Queued", "Running"}
    BY Zenon, <1>2 DEF RecordTypeOK, States, terminal
  <2>3. {i \in JobIds : cancellation'[i]} = {i \in JobIds : cancellation[i]} \cup {j}
    BY Zenon, <2>1, TokenCancelled
  <2>4. Contract!RequestCancel(j)
    BY Zenon, <1>0, <2>2, <2>3 DEF Contract!RequestCancel, Contract!Unfinished
  <2> QED BY Zenon, <2>4 DEF Contract!Next
<1> QED BY Zenon, <1>1, <1>2

\* The sections of create_session and of the begin, undo and end of a close.
LEMMA SessionSimulates ==
  ASSUME ContractInv, NEW h \in Handlers,
         CreatePublish(h) \/ CloseBegin(h) \/ CloseReopen(h) \/ CloseFinalize(h)
  PROVE  Contract!Next \/ UNCHANGED View
<1> USE DEF ContractInv, ExecutionInv, LifecycleInv
<1>0. /\ UNCHANGED <<jobs_, state, session_id, cancellation, stopping_>>
      /\ {i \in JobIds : cancellation'[i]} = {i \in JobIds : cancellation[i]}
  BY Zenon DEF CreatePublish, CloseBegin, CloseReopen, CloseFinalize, registryVars
<1>1. CASE CreatePublish(h)
  <2>1. CASE UNCHANGED sessionVars BY Zenon, <1>0, <2>1 DEF sessionVars, View
  <2>2. CASE /\ next_session_id # 0 /\ next_session_id \notin sessions
             /\ sessions' = sessions \cup {next_session_id} /\ UNCHANGED closing
    <3>1. next_session_id \in SessionIds
      BY <2>2 DEF TypeOK, SessionTypeOK, SessionIds
    <3>2. \A j \in JobIds : session_id[j] # next_session_id
      <4>1. ASSUME NEW j \in JobIds PROVE session_id[j] # next_session_id
        <5>1. session_id[j] < next_session_id BY Zenon, <2>2 DEF IdentityInv
        <5>2. session_id[j] \in Nat /\ next_session_id \in Nat
          BY DEF TypeOK, RegistryTypeOK, RecordTypeOK, SessionTypeOK
        <5> QED BY <5>1, <5>2
      <4> QED BY Zenon, <4>1
    <3>3. (sessions \ closing)' = (sessions \ closing) \cup {next_session_id}
      BY Zenon, <2>2 DEF SessionInv
    <3>4. Contract!Open(next_session_id)
      BY Zenon, <1>0, <2>2, <3>2, <3>3 DEF Contract!Open
    <3> QED BY Zenon, <3>1, <3>4 DEF Contract!Next
  <2> QED BY Zenon, <1>1, <2>1, <2>2 DEF CreatePublish
<1>2. CASE CloseBegin(h)
  <2>1. CASE UNCHANGED <<sessions, closing>> BY Zenon, <1>0, <2>1 DEF View
  <2>2. CASE OpenSession(arg[h]) /\ closing' = closing \cup {arg[h]} /\ UNCHANGED sessions
    <3>1. arg[h] \in SessionIds
      BY Zenon, <2>2 DEF OpenSession, TypeOK, SessionTypeOK
    <3>2. (sessions \ closing)' = (sessions \ closing) \ {arg[h]} BY Zenon, <2>2
    <3>3. Contract!Suspend(arg[h])
      BY Zenon, <1>0, <2>2, <3>2 DEF Contract!Suspend, OpenSession
    <3> QED BY Zenon, <3>1, <3>3 DEF Contract!Next
  <2> QED BY Zenon, <1>2, <2>1, <2>2 DEF CloseBegin
<1>3. CASE CloseReopen(h)
  <2>1. arg[h] \in closing /\ closing \subseteq sessions /\ arg[h] \in SessionIds
    BY Zenon, <1>3 DEF CloseReopen, SessionInv, Closing, TypeOK, SessionTypeOK
  <2>2. closing' = closing \ {arg[h]} /\ UNCHANGED sessions BY Zenon, <1>3 DEF CloseReopen
  <2>3. (sessions \ closing)' = (sessions \ closing) \cup {arg[h]} BY Zenon, <2>1, <2>2
  <2>4. Contract!Resume(arg[h]) BY Zenon, <1>0, <2>1, <2>2, <2>3 DEF Contract!Resume
  <2> QED BY Zenon, <2>1, <2>4 DEF Contract!Next
<1>4. CASE CloseFinalize(h)
  <2>1. /\ arg[h] \in closing /\ closing \subseteq sessions /\ arg[h] \in SessionIds
        /\ pc[h] = "settle" /\ queued[h] = {} /\ running[h] = {}
    BY Zenon, <1>4 DEF CloseFinalize, SessionInv, Closing, TypeOK, SessionTypeOK
  <2>2. sessions' = sessions \ {arg[h]} /\ closing' = closing \ {arg[h]}
    BY Zenon, <1>4 DEF CloseFinalize
  <2>3. (sessions \ closing)' = sessions \ closing BY Zenon, <2>1, <2>2
  <2>4. ASSUME NEW j \in JobIds, session_id[j] = arg[h]
        PROVE  j \notin jobs_ /\ state[j] \in {"Succeeded", "Failed", "Cancelled"}
    <3>1. j \notin jobs_ BY Zenon, <2>1, <2>4 DEF RetentionInv
    <3>2. ~stopping_ BY Zenon, <2>1 DEF ControlInv, HandlerControlInv
    <3>3. ~Live(j)
      <4>1. ASSUME NEW g \in Handlers, pc[g] = "settle", arg[g] = session_id[j],
                   j \in queued[g] \cup running[g]
            PROVE  FALSE
        <5>1. g = h BY Zenon, <2>1, <2>4, <4>1 DEF SessionInv, Closing
        <5> QED BY Zenon, <2>1, <4>1, <5>1
      <4> QED BY Zenon, <3>1, <3>2, <4>1 DEF RetentionInv
    <3>4. state[j] # "Unborn" BY <2>1, <2>4 DEF UntouchedInv, SessionIds, NoId
    <3> QED
      BY Zenon, <3>1, <3>3, <3>4 DEF Live, TypeOK, RegistryTypeOK, RecordTypeOK, States
  <2>5. Contract!Close(arg[h])
    BY Zenon, <1>0, <2>1, <2>2, <2>3, <2>4 DEF Contract!Close, Contract!Over
  <2> QED BY Zenon, <2>1, <2>5 DEF Contract!Next
<1> QED BY Zenon, <1>1, <1>2, <1>3, <1>4

\* The detach of a close forgets the executions of its Session at once, and its
\* queued records end as Cancelled.
LEMMA SettleSimulates ==
  ASSUME ContractInv, NEW h \in Handlers, CloseDetach(h) \/ SettleQueued(h)
  PROVE  Contract!Next
<1> USE DEF ContractInv, ExecutionInv, LifecycleInv
<1>1. CASE CloseDetach(h)
  <2>1. arg[h] \in closing /\ closing \subseteq sessions /\ arg[h] \in SessionIds
    BY Zenon, <1>1 DEF CloseDetach, SessionInv, Closing, TypeOK, SessionTypeOK
  <2>2. /\ jobs_' = jobs_ \ OfSession(arg[h])
        /\ UNCHANGED <<sessions, closing, state, session_id, cancellation, stopping_>>
    BY Zenon, <1>1 DEF CloseDetach, DetachSession, recordVars, sessionVars
  <2>3. jobs_' = {j \in jobs_ : session_id[j] # arg[h]}
    BY Zenon, <2>2 DEF OfSession, TypeOK, RegistryTypeOK, MapTypeOK
  <2>4. {i \in JobIds : cancellation'[i]} = {i \in JobIds : cancellation[i]}
    BY Zenon, <2>2
  <2>5. Contract!Forget(arg[h]) BY Zenon, <2>1, <2>2, <2>3, <2>4 DEF Contract!Forget
  <2> QED BY Zenon, <2>1, <2>5 DEF Contract!Next
<1>2. CASE SettleQueued(h)
  <2>1. PICK j \in queued[h] : SettleQueuedRecord(j) BY Zenon, <1>2 DEF SettleQueued
  <2>2. j \in JobIds /\ state[j] = "Queued"
    BY Zenon DEF OwnershipInv, SettlerInv, TypeOK, CloseTypeOK
  <2>3. UNCHANGED <<sessions, closing, jobs_, session_id, stopping_>>
    BY Zenon, <1>2, <2>1 DEF SettleQueued, SettleQueuedRecord, sessionVars, mapVars
  <2>4. {i \in JobIds : cancellation'[i]} = {i \in JobIds : cancellation[i]} \cup {j}
    BY Zenon, <2>1, <2>2, TokenCancelled DEF SettleQueuedRecord, TypeOK, RegistryTypeOK
  <2>5. state' = [state EXCEPT ![j] = "Cancelled"]
    BY Zenon, <2>1 DEF SettleQueuedRecord, Publish
  <2>6. Contract!End(j, "Cancelled")
    BY Zenon, <2>2, <2>3, <2>4, <2>5 DEF Contract!End, Contract!Unfinished
  <2> QED BY Zenon, <2>2, <2>6 DEF Contract!Next, Contract!Over
<1> QED BY Zenon, <1>1, <1>2

\* A submission admits an execution to its open Session under an id nobody had,
\* or changes nothing a client can see.
LEMMA SubmitSimulates ==
  ASSUME ContractInv, NEW h \in Handlers, SubmitPublish(h)
  PROVE  Contract!Next \/ UNCHANGED View
<1> USE DEF ContractInv, ExecutionInv, LifecycleInv
<1>0. pc[h] = "enqueue" /\ UNCHANGED <<sessions, closing>>
  BY Zenon DEF SubmitPublish, sessionVars
<1>1. CASE UNCHANGED <<jobs_, recordVars, stopping_>>
  BY Zenon, <1>0, <1>1 DEF recordVars, View
<1>2. CASE /\ next_id_ # 0 /\ UNCHANGED stopping_
           /\ jobs_' = jobs_ \cup {next_id_}
           /\ session_id' = [session_id EXCEPT ![next_id_] = arg[h]]
           /\ state' = [state EXCEPT ![next_id_] = "Queued"]
           /\ cancellation' = [cancellation EXCEPT ![next_id_] = FALSE]
  <2> DEFINE j == next_id_
  <2>1. j \in JobIds /\ j >= next_id_
    BY <1>2 DEF TypeOK, RegistryTypeOK, MapTypeOK, JobIds
  <2>2. state[j] = "Unborn" BY Zenon, <1>2, <2>1 DEF IdentityInv
  <2>3. ~cancellation[j] BY Zenon, <2>1, <2>2 DEF UntouchedInv
  <2>4. {i \in JobIds : cancellation'[i]} = {i \in JobIds : cancellation[i]}
    BY Zenon, <1>2, <2>1, <2>3 DEF TypeOK, RegistryTypeOK, RecordTypeOK
  <2>5. arg[h] \in sessions \ closing /\ arg[h] \in SessionIds
    BY Zenon, <1>0 DEF SessionInv, TypeOK, SessionTypeOK
  <2>6. ~stopping_ BY Zenon, <1>0 DEF ControlInv, HandlerControlInv
  <2>7. Contract!Admit(j, arg[h])
    BY Zenon, <1>0, <1>2, <2>2, <2>4, <2>5, <2>6 DEF Contract!Admit
  <2> QED BY Zenon, <2>1, <2>5, <2>7 DEF Contract!Next
<1>3. SubmitRefusal = "Ok" => next_id_ # 0 BY Zenon DEF SubmitRefusal
<1> QED BY Zenon, <1>1, <1>2, <1>3
        DEF SubmitPublish, Enqueue, EnqueueThrows, registryVars, recordVars

\* A release drops a terminal record, or changes nothing.
LEMMA ReleaseSimulates ==
  ASSUME ContractInv, NEW h \in Handlers, ReleaseJob(h)
  PROVE  Contract!Next \/ UNCHANGED View
<1> USE DEF ContractInv, ExecutionInv, LifecycleInv
<1>0. /\ UNCHANGED <<sessions, closing, state, session_id, cancellation, stopping_>>
      /\ {i \in JobIds : cancellation'[i]} = {i \in JobIds : cancellation[i]}
  BY Zenon DEF ReleaseJob, Release, sessionVars, recordVars
<1>1. jobs_' = IF ReleaseCode(arg[h]) = "Ok" THEN jobs_ \ {arg[h]} ELSE jobs_
  BY Zenon DEF ReleaseJob, Release
<1>2. CASE ReleaseCode(arg[h]) = "Ok"
  <2>1. arg[h] \in jobs_ /\ state[arg[h]] \in {"Succeeded", "Failed", "Cancelled"}
    BY Zenon, <1>2 DEF ReleaseCode, terminal
  <2>2. arg[h] \in JobIds BY Zenon, <2>1 DEF TypeOK, RegistryTypeOK, MapTypeOK
  <2>3. Contract!Release(arg[h])
    BY Zenon, <1>0, <1>1, <1>2, <2>1 DEF Contract!Release, Contract!Over
  <2> QED BY Zenon, <2>2, <2>3 DEF Contract!Next
<1>3. CASE ReleaseCode(arg[h]) # "Ok" BY Zenon, <1>0, <1>1, <1>3 DEF View
<1> QED BY Zenon, <1>2, <1>3

\* The steps of the handlers.
LEMMA HandlerSimulates ==
  ASSUME ContractInv, NEW h \in Handlers, HandlerStep(h)
  PROVE  Contract!Next \/ UNCHANGED View
<1>1. CASE CreatePublish(h) \/ CloseBegin(h) \/ CloseReopen(h) \/ CloseFinalize(h)
  BY Zenon, <1>1, SessionSimulates
<1>2. CASE CloseDetach(h) \/ SettleQueued(h) BY Zenon, <1>2, SettleSimulates
<1>3. CASE SubmitPublish(h) BY Zenon, <1>3, SubmitSimulates
<1>4. CASE ReleaseJob(h) BY Zenon, <1>4, ReleaseSimulates
<1>5. CASE SettlePopped(h)
  <2>1. PICK j \in uncancelled[h] : CancelRecord(j)
    BY Zenon, <1>5 DEF SettlePopped, SettlePoppedRecord
  <2>2. j \in JobIds /\ state[j] # "Unborn"
    BY Zenon DEF ContractInv, ExecutionInv, LifecycleInv, IdentityInv, ControlInv,
           HandlerControlInv, TypeOK, CloseTypeOK
  <2>3. UNCHANGED <<sessions, closing>> BY Zenon, <1>5 DEF SettlePopped, sessionVars
  <2> QED BY Zenon, <2>1, <2>2, <2>3, CancelSimulates
<1>6. CASE CancelJob(h)
  <2>1. CancelRecord(arg[h]) /\ pc[h] = "found" /\ UNCHANGED <<sessions, closing>>
    BY Zenon, <1>6 DEF CancelJob, sessionVars
  <2>2. arg[h] \in JobIds /\ state[arg[h]] # "Unborn"
    BY Zenon, <2>1 DEF ContractInv, ExecutionInv, LifecycleInv, UntouchedInv, ControlInv,
                HandlerControlInv
  <2> QED BY Zenon, <2>1, <2>2, CancelSimulates
<1>7. CASE \/ CreateReserve(h) \/ CreateRejected(h) \/ CreateRollback(h)
           \/ CloseSnapshotThrows(h) \/ SettleWait(h) \/ SubmitValidate(h) \/ Find(h)
           \/ ReadStatus(h) \/ ReadResult(h) \/ AcceptShutdown(h) \/ Return(h)
  BY Zenon, <1>7
     DEF CreateReserve, CreateRejected, CreateRollback, CloseSnapshotThrows,
         SettleWait, SleepUntilTerminal, SubmitValidate, Find, ReadStatus, ReadResult,
         AcceptShutdown, Return, registryVars, mapVars, sessionVars, View
<1> QED BY ZenonT(60), <1>1, <1>2, <1>3, <1>4, <1>5, <1>6, <1>7 DEF HandlerStep

\* Stopping cancels what is retained, and the cleared registry forgets it.
LEMMA StopSimulates ==
  ASSUME ContractInv, Stop \/ Clear
  PROVE  Contract!Next
<1> USE DEF ContractInv, ExecutionInv, LifecycleInv
<1>1. CASE Stop
  <2>1. {i \in JobIds : cancellation'[i]} = {i \in JobIds : cancellation[i]} \cup jobs_
    BY Zenon, <1>1 DEF Stop, StopRegistry, TypeOK, RegistryTypeOK, RecordTypeOK, MapTypeOK
  <2>2. /\ ~stopping_ /\ stopping_' = TRUE
        /\ UNCHANGED <<sessions, closing, jobs_, state, session_id>>
    BY Zenon, <1>1 DEF Stop, StopRegistry, serviceVars
  <2>3. Contract!Stop BY Zenon, <2>1, <2>2 DEF Contract!Stop
  <2> QED BY Zenon, <2>3 DEF Contract!Next
<1>2. CASE Clear
  <2>1. /\ stopping_ /\ jobs_' = {}
        /\ UNCHANGED <<sessions, closing, state, session_id, cancellation, stopping_>>
    BY Zenon, <1>2 DEF Clear, ClearRegistry, recordVars, serviceVars
  <2>2. {i \in JobIds : cancellation'[i]} = {i \in JobIds : cancellation[i]}
    BY Zenon, <2>1
  <2>3. Contract!ForgetAll BY Zenon, <2>1, <2>2 DEF Contract!ForgetAll
  <2> QED BY Zenon, <2>3 DEF Contract!Next
<1> QED BY Zenon, <1>1, <1>2

\* Every step of the service is one of the contract or a stutter.
LEMMA StepSimulates ==
  ASSUME ContractInv, ~AllocationMayFail, [Next]_vars
  PROVE  [Contract!Next]_(Contract!contractVars)
<1>1. Contract!Next \/ UNCHANGED View
  <2>1. CASE \E h \in Handlers : HandlerStep(h) BY Zenon, <2>1, HandlerSimulates
  <2>2. CASE \E w \in Workers : /\ WorkerStep(w) \/ Execute(w) \/ SpuriousWake(w)
                                /\ UNCHANGED serviceVars
    BY Zenon, <2>2, WorkerSimulates
  <2>3. CASE Stop \/ Clear BY Zenon, <2>3, StopSimulates
  <2>4. CASE UNCHANGED View BY Zenon, <2>4
  <2> QED BY Zenon, <2>1, <2>2, <2>3, <2>4
          DEF Next, vars, registryVars, serviceVars, sessionVars, mapVars, Begin,
              WakeSpuriously, View
<1> QED BY Zenon, <1>1, ViewStutter

\* While allocations succeed, the Service with its threads, locks and records in
\* flight implements the contract of its Sessions and executions, for any number
\* of threads, ids and any capacities.  (With a failing diagnostic it does not:
\* finish_cancelled may leave Cancelled behind for the fence to overwrite.)
THEOREM ServiceImplementsContract == ~AllocationMayFail => (Spec => ImplementsContract)
<1> SUFFICES ASSUME ~AllocationMayFail PROVE Spec => ImplementsContract BY Zenon
<1>1. Init => Contract!Init BY Zenon, ContractInit
<1>2. ContractInv /\ [Next]_vars => [Contract!Next]_(Contract!contractVars)
  BY Zenon, StepSimulates
<1> QED BY <1>1, <1>2, ContractInvariant, PTL DEF Spec, ImplementsContract, Contract!Spec

=============================================================================
