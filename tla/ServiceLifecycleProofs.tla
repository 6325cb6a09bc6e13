---------------------- MODULE ServiceLifecycleProofs -----------------------
(***************************************************************************)
(* Type correctness of the service, with one lemma for every operator the  *)
(* actions are built from; what a thread's position says of what it holds  *)
(* (ControlInv); the Session map against the lifecycle lock (SessionInv);  *)
(* the identity of what is referred to (IdentityInv); the queue            *)
(* (QueueInv); an unfinished record is retained, or in the hands of the    *)
(* one handler closing its Session (RetentionInv); and the theorems of the *)
(* lifecycle invariant, of the identity of records and of the capacities.  *)
(***************************************************************************)
EXTENDS ServiceInvariant, TLAPS, FiniteSetTheorems

USE RegistryAssumption, ServiceAssumption, SMTT(20), ZenonT(20)

-----------------------------------------------------------------------------
(* Types                                                                     *)

\* The uint64 increment of submit and create_session stays in range: it is the
\* successor, or zero exactly when the ids are exhausted.
LEMMA NextIdType ==
  ASSUME NEW n \in Nat, NEW span \in Nat, span > 1
  PROVE  /\ NextId(n, span) \in 0..(span - 1)
         /\ n + 1 < span => NextId(n, span) = n + 1
         /\ n + 1 = span => NextId(n, span) = 0
BY DEF NextId

\* A terminal publication under the record mutex keeps the record types.
LEMMA PublishType ==
  ASSUME RecordTypeOK, UNCHANGED <<session_id, cancellation>>,
         NEW j, NEW s \in States, NEW c \in Codes,
         NEW r \in BOOLEAN, Publish(j, s, c, r)
  PROVE  RecordTypeOK'
BY Zenon DEF RecordTypeOK, Publish

\* So does the body of finish_failure, whichever branch the token selects.
LEMMA PublishFailureType ==
  ASSUME RecordTypeOK, UNCHANGED <<session_id, cancellation>>,
         NEW j, NEW c \in Codes, PublishFailure(j, c)
  PROVE  RecordTypeOK'
BY Zenon, PublishType DEF PublishFailure, States, Codes

\* So does a publication whose diagnostic fails to allocate.
LEMMA DiagnosticType ==
  ASSUME RecordTypeOK, UNCHANGED <<session_id, cancellation>>,
         NEW j, NEW begun, DiagnosticThrows(j, begun)
  PROVE  RecordTypeOK'
BY Zenon DEF RecordTypeOK, DiagnosticThrows, States

\* A worker that leaves execute keeps the worker types.
LEMMA DoneType ==
  ASSUME WorkerTypeOK, NEW w \in Workers, Done(w)
  PROVE  WorkerTypeOK'
BY Zenon DEF WorkerTypeOK, Done, Goto, WorkerStates, Codes

\* So does one that goes on with a failure category in hand.
LEMMA FailWithType ==
  ASSUME WorkerTypeOK, NEW w \in Workers, NEW c \in Codes,
         NEW l \in WorkerStates, FailWith(w, c, l)
  PROVE  WorkerTypeOK'
BY Zenon DEF WorkerTypeOK, FailWith, Goto

\* So does one that only moves on.
LEMMA GotoType ==
  ASSUME WorkerTypeOK, NEW w \in Workers, NEW l \in WorkerStates, Goto(w, l),
         UNCHANGED <<held, caught>>
  PROVE  WorkerTypeOK'
BY Zenon DEF WorkerTypeOK, Goto

\* The three parts of the registry's type depend on their own variables only.
LEMMA RegistryStutterType ==
  /\ MapTypeOK /\ UNCHANGED <<mapVars, ready_>> => MapTypeOK'
  /\ RecordTypeOK /\ UNCHANGED recordVars => RecordTypeOK'
  /\ WorkerTypeOK /\ UNCHANGED workerVars => WorkerTypeOK'
BY Zenon DEF MapTypeOK, mapVars, RecordTypeOK, recordVars, WorkerTypeOK, workerVars

\* Every step of worker_loop and execute keeps the registry's types; a worker
\* that is inside execute holds a record (ControlInv).
LEMMA WorkerType ==
  ASSUME RegistryTypeOK, ControlInv, NEW w \in Workers,
         WorkerStep(w) \/ Execute(w) \/ SpuriousWake(w)
  PROVE  RegistryTypeOK'
<1> USE DEF RegistryTypeOK
<1>1. CASE WorkerSleep(w) \/ SpuriousWake(w)
  BY Zenon, <1>1, RegistryStutterType DEF WorkerSleep, SpuriousWake, MapTypeOK, mapVars
<1>2. CASE WorkerExit(w)
  BY Zenon, <1>2, RegistryStutterType, GotoType DEF WorkerExit, WorkerStates
<1>3. CASE WorkerPop(w)
  <2>1. MapTypeOK' BY Zenon, <1>3 DEF WorkerPop, MapTypeOK
  <2>2. WorkerTypeOK'
    BY Zenon, <1>3 DEF WorkerPop, MapTypeOK, WorkerTypeOK, WorkerStates, Goto
  <2> QED BY Zenon, <1>3, <2>1, <2>2, RegistryStutterType DEF WorkerPop
<1>4. CASE BeginExecute(w)
  <2>1. CASE state[held[w]] # "Queued"
    <3>1. result[held[w]] \in BOOLEAN
      BY Zenon, <1>4
         DEF RecordTypeOK, WorkerTypeOK, ControlInv, WorkerControlInv, BeginExecute
    <3>2. RecordTypeOK'
      BY Zenon, <1>4, <2>1, <3>1, PublishType DEF BeginExecute, States, Codes
    <3> QED BY Zenon, <1>4, <2>1, <3>2, DoneType, RegistryStutterType DEF BeginExecute
  <2>2. CASE state[held[w]] = "Queued"
    <3>1. RecordTypeOK' BY Zenon, <1>4, <2>2 DEF BeginExecute, RecordTypeOK, States
    <3> QED BY Zenon, <1>4, <2>2, <3>1, GotoType, RegistryStutterType
            DEF BeginExecute, WorkerStates
  <2> QED BY Zenon, <2>1, <2>2
<1>5. CASE CheckBeforeCompile(w)
  BY Zenon, <1>5, GotoType, RegistryStutterType DEF CheckBeforeCompile, WorkerStates
<1>6. CASE Compile(w)
  <2>1. WorkerTypeOK'
    BY Zenon, <1>6, GotoType, FailWithType DEF Compile, WorkerStates, Codes, Thrown
  <2> QED BY Zenon, <1>6, <2>1, RegistryStutterType DEF Compile
<1>7. CASE Execute(w)
  <2>1. WorkerTypeOK'
    BY Zenon, <1>7, GotoType, FailWithType DEF Execute, WorkerStates, Codes, Thrown
  <2> QED BY Zenon, <1>7, <2>1, RegistryStutterType DEF Execute
<1>8. CASE FinalPublication(w)
  <2>1. WorkerTypeOK'
    BY Zenon, <1>8, DoneType, FailWithType DEF FinalPublication, WorkerStates, Codes
  <2>2. RecordTypeOK'
    BY Zenon, <1>8, PublishType, DiagnosticType DEF FinalPublication, States, Codes
  <2> QED BY Zenon, <1>8, <2>1, <2>2, RegistryStutterType DEF FinalPublication
<1>9. CASE FinishCancelled(w)
  <2>1. WorkerTypeOK'
    BY Zenon, <1>9, DoneType, FailWithType DEF FinishCancelled, WorkerStates, Codes
  <2>2. RecordTypeOK'
    BY Zenon, <1>9, PublishType, DiagnosticType DEF FinishCancelled, States, Codes
  <2> QED BY Zenon, <1>9, <2>1, <2>2, RegistryStutterType DEF FinishCancelled
<1>10. CASE FinishFailure(w)
  <2>1. WorkerTypeOK'
    BY Zenon, <1>10, DoneType, FailWithType DEF FinishFailure, WorkerStates, Codes
  <2>2. RecordTypeOK'
    BY Zenon, <1>10, PublishFailureType, DiagnosticType DEF FinishFailure, WorkerTypeOK
  <2> QED BY Zenon, <1>10, <2>1, <2>2, RegistryStutterType DEF FinishFailure
<1>11. CASE Fence(w)
  <2>1. WorkerTypeOK' BY Zenon, <1>11, DoneType, GotoType DEF Fence, WorkerStates
  <2>2. RecordTypeOK'
    BY Zenon, <1>11, PublishFailureType, DiagnosticType DEF Fence, WorkerTypeOK
  <2> QED BY Zenon, <1>11, <2>1, <2>2, RegistryStutterType DEF Fence
<1>12. CASE Fallback(w)
  <2>1. RecordTypeOK' BY Zenon, <1>12, PublishFailureType DEF Fallback, WorkerTypeOK
  <2> QED BY Zenon, <1>12, <2>1, DoneType, RegistryStutterType DEF Fallback
<1> QED
  BY Zenon, <1>1, <1>2, <1>3, <1>4, <1>5, <1>6, <1>7, <1>8, <1>9, <1>10, <1>11, <1>12
     DEF WorkerStep

\* A dispatch that ends with a well-formed response keeps the dispatch types.
LEMMA LeaveType ==
  ASSUME DispatchTypeOK, NEW h \in Handlers, NEW r \in Replies, Leave(h, r),
         shutting_down' \in BOOLEAN, terminated' \in BOOLEAN
  PROVE  DispatchTypeOK'
BY Zenon DEF DispatchTypeOK, Leave, Jump, Labels, Methods

\* A response without a job snapshot is well formed.
LEMMA AnswerType ==
  ASSUME NEW c \in Codes
  PROVE  Answer(c) \in Replies
BY Zenon DEF Answer, Replies, States, Codes

\* Answering with a category keeps the dispatch types.
LEMMA RespondType ==
  ASSUME DispatchTypeOK, NEW h \in Handlers, NEW c \in Codes, Respond(h, c)
  PROVE  DispatchTypeOK'
<1>1. Answer(c) \in Replies BY Zenon, AnswerType
<1>2. shutting_down' \in BOOLEAN /\ terminated' \in BOOLEAN
  BY Zenon DEF Respond, DispatchTypeOK
<1> QED BY Zenon, <1>1, <1>2, LeaveType DEF Respond

\* So does answering with a diagnostic whose allocation may fail.
LEMMA RefuseType ==
  ASSUME DispatchTypeOK, NEW h \in Handlers, NEW c \in Codes, Refuse(h, c)
  PROVE  DispatchTypeOK'
<1>1. Fenced(c) \subseteq Codes BY Zenon DEF Fenced, Codes
<1> QED BY Zenon, <1>1, RespondType DEF Refuse

\* So does going on to the next critical section.
LEMMA ContinueType ==
  ASSUME DispatchTypeOK, NEW h \in Handlers, NEW l \in Labels,
         NEW c \in Codes, Continue(h, l, c)
  PROVE  DispatchTypeOK'
<1>1. Answer(c) \in Replies BY Zenon, AnswerType
<1> QED BY Zenon, <1>1 DEF DispatchTypeOK, Continue, Jump

\* The four parts of TypeOK depend on their own variables only.
LEMMA ServiceStutterType ==
  /\ SessionTypeOK /\ UNCHANGED <<sessionVars, lifecycle_mutex>> => SessionTypeOK'
  /\ DispatchTypeOK /\ UNCHANGED dispatchVars => DispatchTypeOK'
  /\ CloseTypeOK /\ UNCHANGED closeVars => CloseTypeOK'
  /\ RegistryTypeOK /\ UNCHANGED registryVars => RegistryTypeOK'
BY Zenon DEF SessionTypeOK, sessionVars, DispatchTypeOK, dispatchVars, CloseTypeOK,
       closeVars, RegistryTypeOK, registryVars, MapTypeOK, RecordTypeOK,
       WorkerTypeOK

\* Cancelling a token keeps the registry's types.
LEMMA CancelType ==
  ASSUME RegistryTypeOK, NEW j, CancelRecord(j)
  PROVE  RegistryTypeOK'
<1>1. RecordTypeOK' BY Zenon DEF RegistryTypeOK, CancelRecord, RecordTypeOK
<1> QED BY Zenon, <1>1, RegistryStutterType DEF RegistryTypeOK, CancelRecord

\* The start of a dispatch, refused by the shutdown fence or not, keeps TypeOK.
LEMMA BeginType ==
  ASSUME TypeOK, NEW h \in Handlers, NEW m \in Requests, NEW i \in Args(m),
         Begin(h, m, i)
  PROVE  TypeOK'
<1> USE DEF TypeOK
<1>1. DispatchTypeOK'
  <2>1. CASE m # "DaemonShutdown" /\ shutting_down
    <3>1. \A c \in Fenced("Cancelled") : Answer(c) \in Replies
      BY Zenon, AnswerType DEF Fenced, Codes
    <3>2. \E c \in Fenced("Cancelled") : Leave(h, Answer(c)) BY Zenon, <2>1 DEF Begin
    <3>3. shutting_down' \in BOOLEAN /\ terminated' \in BOOLEAN
      BY Zenon DEF Begin, DispatchTypeOK
    <3> QED BY Zenon, <3>1, <3>2, <3>3, LeaveType
  <2>2. CASE ~(m # "DaemonShutdown" /\ shutting_down)
    <3>1. i \in SessionIds \cup JobIds \cup {NoId} BY Zenon DEF Args
    <3> QED BY ZenonT(60), <2>2, <3>1 DEF Begin, DispatchTypeOK, Jump, Labels
  <2> QED BY Zenon, <2>1, <2>2
<1> QED BY Zenon, <1>1, ServiceStutterType DEF Begin, sessionVars

\* Every section of create_session, the reservation's destructor included, keeps
\* TypeOK.
LEMMA CreateType ==
  ASSUME TypeOK, NEW h \in Handlers,
         \/ CreateReserve(h) \/ CreateRejected(h) \/ CreatePublish(h)
         \/ CreateRollback(h)
  PROVE  TypeOK'
<1> USE DEF TypeOK
<1>1. RegistryTypeOK' /\ CloseTypeOK'
  BY Zenon, ServiceStutterType
     DEF CreateReserve, CreateRejected, CreatePublish, CreateRollback
<1>2. SessionTypeOK'
  <2>1. next_session_id \in Nat /\ NextId(next_session_id, SessionIdSpan) \in 0..(SessionIdSpan - 1)
    BY NextIdType DEF SessionTypeOK
  <2>2. CASE CreateReserve(h) BY <2>2 DEF CreateReserve, SessionTypeOK
  <2>3. CASE CreateRejected(h) BY Zenon, <2>3, ServiceStutterType DEF CreateRejected
  <2>4. CASE CreatePublish(h)
    <3>1. CASE UNCHANGED sessionVars
      BY Zenon, <2>4, <3>1, ServiceStutterType DEF CreatePublish
    <3>2. CASE /\ next_session_id # 0
               /\ sessions' = sessions \cup {next_session_id}
               /\ ReleaseReservation
               /\ next_session_id' = NextId(next_session_id, SessionIdSpan)
               /\ UNCHANGED <<closing, lifecycle_mutex>>
      <4>1. sessions' \subseteq SessionIds BY <3>2 DEF SessionTypeOK, SessionIds
      <4> QED BY <2>1, <3>2, <4>1 DEF SessionTypeOK, ReleaseReservation
    <3> QED BY Zenon, <2>4, <3>1, <3>2 DEF CreatePublish
  <2>5. CASE CreateRollback(h)
    <3>1. UNCHANGED <<sessions, closing, next_session_id, lifecycle_mutex>>
      BY Zenon, <2>5 DEF CreateRollback
    <3>2. pending_session_creates \in Nat BY Zenon DEF SessionTypeOK
    <3>3. ReleaseReservation BY Zenon, <2>5 DEF CreateRollback
    <3>4. pending_session_creates' \in Nat
      <4> HIDE DEF TypeOK
      <4> QED BY <3>2, <3>3 DEF ReleaseReservation
    <3> QED BY Zenon, <3>1, <3>4 DEF SessionTypeOK
  <2> QED BY Zenon, <2>2, <2>3, <2>4, <2>5
<1>3. DispatchTypeOK'
  <2>1. CASE CreateReserve(h)
    BY Zenon, <2>1, RespondType, ContinueType DEF CreateReserve, Codes, Labels
  <2>2. CASE CreateRejected(h)
    BY Zenon, <2>2, ContinueType DEF CreateRejected, Thrown, Codes, Labels
  <2>3. CASE CreatePublish(h)
    <3>1. CASE Leave(h, Answer("Ok")) /\ ReleaseReservation /\ UNCHANGED shutting_down
      <4>1. Answer("Ok") \in Replies BY Zenon, AnswerType DEF Codes
      <4>2. shutting_down' \in BOOLEAN /\ terminated' \in BOOLEAN
        BY Zenon, <3>1 DEF ReleaseReservation, DispatchTypeOK
      <4> QED BY Zenon, <3>1, <4>1, <4>2, LeaveType
    <3>2. CASE \E c \in {"Internal", "ResourceExhausted"} : Continue(h, "rollback", c)
      BY Zenon, <3>2, ContinueType DEF Codes, Labels
    <3> QED BY Zenon, <2>3, <3>1, <3>2 DEF CreatePublish
  <2>4. CASE CreateRollback(h)
    <3>1. reply[h] \in Replies BY Zenon DEF DispatchTypeOK
    <3>2. shutting_down' \in BOOLEAN /\ terminated' \in BOOLEAN
      BY Zenon, <2>4 DEF CreateRollback, ReleaseReservation, DispatchTypeOK
    <3> QED BY Zenon, <2>4, <3>1, <3>2, LeaveType DEF CreateRollback
  <2> QED BY Zenon, <2>1, <2>2, <2>3, <2>4
<1> QED BY Zenon, <1>1, <1>2, <1>3

\* The Session sections of close_session and the detach keep TypeOK.
LEMMA CloseType ==
  ASSUME TypeOK, NEW h \in Handlers,
         \/ CloseBegin(h) \/ CloseDetach(h) \/ CloseSnapshotThrows(h)
         \/ CloseReopen(h) \/ CloseFinalize(h)
  PROVE  TypeOK'
<1> USE DEF TypeOK
<1>1. CASE CloseBegin(h)
  <2>1. SessionTypeOK' BY Zenon, <1>1 DEF CloseBegin, SessionTypeOK, OpenSession
  <2>2. DispatchTypeOK'
    BY Zenon, <1>1, RefuseType, ContinueType DEF CloseBegin, Codes, Labels
  <2> QED BY Zenon, <1>1, <2>1, <2>2, ServiceStutterType DEF CloseBegin
<1>2. CASE CloseDetach(h)
  <2>1. MapTypeOK'
    BY Zenon, <1>2 DEF CloseDetach, DetachSession, RegistryTypeOK, MapTypeOK
  <2>2. RegistryTypeOK'
    BY Zenon, <1>2, <2>1, RegistryStutterType
       DEF CloseDetach, DetachSession, RegistryTypeOK
  <2>3. CloseTypeOK'
    BY Zenon, <1>2 DEF CloseDetach, CloseTypeOK, RegistryTypeOK, MapTypeOK
  <2>4. DispatchTypeOK' BY Zenon, <1>2, ContinueType DEF CloseDetach, Codes, Labels
  <2> QED BY Zenon, <1>2, <2>2, <2>3, <2>4, ServiceStutterType DEF CloseDetach
<1>3. CASE CloseSnapshotThrows(h)
  <2>1. DispatchTypeOK'
    BY Zenon, <1>3, ContinueType DEF CloseSnapshotThrows, Codes, Labels
  <2> QED BY Zenon, <1>3, <2>1, ServiceStutterType DEF CloseSnapshotThrows
<1>4. CASE CloseReopen(h)
  <2>1. SessionTypeOK' BY Zenon, <1>4 DEF CloseReopen, SessionTypeOK
  <2>2. DispatchTypeOK' BY Zenon, <1>4, RespondType DEF CloseReopen, Codes
  <2> QED BY Zenon, <1>4, <2>1, <2>2, ServiceStutterType DEF CloseReopen
<1>5. CASE CloseFinalize(h)
  <2>1. SessionTypeOK' BY Zenon, <1>5 DEF CloseFinalize, SessionTypeOK
  <2>2. Answer("Ok") \in Replies BY Zenon, AnswerType DEF Codes
  <2>3. shutting_down' \in BOOLEAN /\ terminated' \in BOOLEAN
    BY Zenon, <1>5 DEF CloseFinalize, DispatchTypeOK
  <2>4. DispatchTypeOK' BY Zenon, <1>5, <2>2, <2>3, LeaveType DEF CloseFinalize
  <2> QED BY Zenon, <1>5, <2>1, <2>4, ServiceStutterType DEF CloseFinalize
<1> QED BY Zenon, <1>1, <1>2, <1>3, <1>4, <1>5

\* The three passes of settle_close_records keep TypeOK.
LEMMA SettleType ==
  ASSUME TypeOK, NEW h \in Handlers,
         SettleQueued(h) \/ SettlePopped(h) \/ SettleWait(h)
  PROVE  TypeOK'
<1> USE DEF TypeOK
<1>1. SessionTypeOK' /\ DispatchTypeOK'
  BY Zenon, ServiceStutterType DEF SettleQueued, SettlePopped, SettleWait
<1>2. CloseTypeOK'
  <2>1. CASE SettleQueued(h) BY Zenon, <2>1 DEF SettleQueued, CloseTypeOK
  <2>2. CASE SettlePopped(h) BY Zenon, <2>2 DEF SettlePopped, CloseTypeOK
  <2>3. CASE SettleWait(h)
    <3>1. UNCHANGED <<queued, uncancelled>> BY Zenon, <2>3 DEF SettleWait
    <3>2. \/ UNCHANGED running
          \/ \E j : running' = [running EXCEPT ![h] = @ \ {j}]
      BY Zenon, <2>3 DEF SettleWait
    <3> QED BY Zenon, <3>1, <3>2 DEF CloseTypeOK
  <2> QED BY Zenon, <2>1, <2>2, <2>3
<1>3. RegistryTypeOK'
  <2>1. CASE SettleQueued(h)
    <3>1. RecordTypeOK'
      BY Zenon, <2>1 DEF SettleQueued, SettleQueuedRecord, Publish, RegistryTypeOK,
                  RecordTypeOK, States, Codes
    <3> QED BY Zenon, <2>1, <3>1, RegistryStutterType
            DEF SettleQueued, SettleQueuedRecord, RegistryTypeOK
  <2>2. CASE SettlePopped(h)
    BY Zenon, <2>2, CancelType DEF SettlePopped, SettlePoppedRecord
  <2>3. CASE SettleWait(h)
    <3>1. CASE UNCHANGED registryVars BY Zenon, <3>1, ServiceStutterType
    <3>2. CASE \E j \in running[h] : SleepUntilTerminal(h, j)
      <4>1. RecordTypeOK'
        BY <3>2 DEF SleepUntilTerminal, RegistryTypeOK, RecordTypeOK, CloseTypeOK
      <4> QED BY Zenon, <3>2, <4>1, RegistryStutterType
              DEF SleepUntilTerminal, RegistryTypeOK
    <3> QED BY Zenon, <2>3, <3>1, <3>2 DEF SettleWait
  <2> QED BY Zenon, <2>1, <2>2, <2>3
<1> QED BY Zenon, <1>1, <1>2, <1>3

\* Both sections of submit keep TypeOK: the Session it publishes to is a Session
\* id because it is in the map (SessionInv).
LEMMA SubmitType ==
  ASSUME TypeOK, SessionInv, NEW h \in Handlers,
         SubmitValidate(h) \/ SubmitPublish(h)
  PROVE  TypeOK'
<1> USE DEF TypeOK
<1>1. CASE SubmitValidate(h)
  <2>1. SessionTypeOK' BY Zenon, <1>1 DEF SubmitValidate, SessionTypeOK, sessionVars
  <2>2. DispatchTypeOK'
    BY Zenon, <1>1, RefuseType, ContinueType DEF SubmitValidate, Codes, Labels
  <2> QED BY Zenon, <1>1, <2>1, <2>2, ServiceStutterType DEF SubmitValidate
<1>2. CASE SubmitPublish(h)
  <2>1. SubmitRefusal \in Codes BY Zenon DEF SubmitRefusal, Codes
  <2>2. DispatchTypeOK'
    BY Zenon, <1>2, <2>1, RespondType, RefuseType DEF SubmitPublish, Codes
  <2>3. SessionTypeOK' BY Zenon, <1>2 DEF SubmitPublish, SessionTypeOK, sessionVars
  <2>4. /\ next_id_ \in Nat /\ arg[h] \in Nat
        /\ NextId(next_id_, JobIdSpan) \in 0..(JobIdSpan - 1)
    BY NextIdType DEF RegistryTypeOK, MapTypeOK, DispatchTypeOK, SessionIds,
                      JobIds, NoId
  <2>5. RegistryTypeOK'
    <3>1. CASE UNCHANGED registryVars BY Zenon, <3>1, ServiceStutterType
    <3>2. CASE EnqueueThrows
      <4>1. MapTypeOK' BY Zenon, <2>4, <3>2 DEF EnqueueThrows, RegistryTypeOK, MapTypeOK
      <4> QED BY Zenon, <3>2, <4>1, RegistryStutterType DEF EnqueueThrows, RegistryTypeOK
    <3>3. CASE SubmitRefusal = "Ok" /\ Enqueue(arg[h])
      <4>1. next_id_ \in JobIds
        BY <3>3 DEF SubmitRefusal, RegistryTypeOK, MapTypeOK, JobIds
      <4>2. MapTypeOK'
        BY Zenon, <2>4, <3>3, <4>1 DEF Enqueue, NotifyOne, RegistryTypeOK, MapTypeOK
      <4>3. RecordTypeOK'
        BY Zenon, <2>4, <3>3 DEF Enqueue, RegistryTypeOK, RecordTypeOK, recordVars,
                          States, Codes
      <4> QED BY Zenon, <3>3, <4>2, <4>3, RegistryStutterType DEF Enqueue, RegistryTypeOK
    <3> QED BY Zenon, <1>2, <3>1, <3>2, <3>3 DEF SubmitPublish
  <2> QED BY Zenon, <1>2, <2>2, <2>3, <2>5, ServiceStutterType DEF SubmitPublish
<1> QED BY Zenon, <1>1, <1>2

\* The job requests, daemon.shutdown and the return of a dispatch keep TypeOK.
LEMMA JobRequestType ==
  ASSUME TypeOK, ControlInv, NEW h \in Handlers,
         \/ Find(h) \/ ReadStatus(h) \/ CancelJob(h) \/ ReadResult(h)
         \/ ReleaseJob(h) \/ AcceptShutdown(h) \/ Return(h)
  PROVE  TypeOK'
<1> USE DEF TypeOK
<1>1. SessionTypeOK' /\ CloseTypeOK'
  BY Zenon, ServiceStutterType DEF Find, ReadStatus, CancelJob, ReadResult, ReleaseJob,
                            AcceptShutdown, Return
<1>2. RegistryTypeOK'
  <2>1. CASE ReleaseJob(h)
    <3>1. MapTypeOK' BY Zenon, <2>1 DEF ReleaseJob, Release, RegistryTypeOK, MapTypeOK
    <3> QED BY Zenon, <2>1, <3>1, RegistryStutterType
            DEF ReleaseJob, Release, RegistryTypeOK
  <2>2. CASE CancelJob(h) BY Zenon, <2>2, CancelType DEF CancelJob
  <2> QED BY Zenon, <2>1, <2>2, ServiceStutterType
          DEF Find, ReadStatus, ReadResult, AcceptShutdown, Return
<1>3. DispatchTypeOK'
  <2>1. CASE Find(h) BY Zenon, <2>1, RefuseType, ContinueType DEF Find, Codes, Labels
  <2>2. CASE ReadStatus(h)
    <3>1. [code |-> "Ok", state |-> state[arg[h]], outcome |-> outcome[arg[h]]]
            \in Replies
      BY Zenon, <2>2 DEF ReadStatus, ControlInv, HandlerControlInv, RegistryTypeOK,
                  RecordTypeOK, Replies, Codes
    <3>2. Answer("ResourceExhausted") \in Replies BY Zenon, AnswerType DEF Codes
    <3>3. \E r \in Replies : Leave(h, r) BY Zenon, <2>2, <3>1, <3>2 DEF ReadStatus
    <3>4. shutting_down' \in BOOLEAN /\ terminated' \in BOOLEAN
      BY Zenon, <2>2 DEF ReadStatus, DispatchTypeOK
    <3> QED BY Zenon, <3>3, <3>4, LeaveType
  <2>3. CASE CancelJob(h) BY Zenon, <2>3, RespondType DEF CancelJob, Codes
  <2>4. CASE ReadResult(h)
    <3>1. ResultCode(arg[h]) \in Codes
      BY Zenon, <2>4
         DEF ReadResult, ResultCode, ControlInv, HandlerControlInv, RegistryTypeOK,
                  RecordTypeOK, Codes
    <3> QED BY Zenon, <2>4, <3>1, RefuseType DEF ReadResult
  <2>5. CASE ReleaseJob(h)
    <3>1. ReleaseCode(arg[h]) \in Codes BY Zenon DEF ReleaseCode, Codes
    <3> QED BY Zenon, <2>5, <3>1, RespondType, RefuseType DEF ReleaseJob, Codes
  <2>6. CASE AcceptShutdown(h)
    <3>1. Answer("Ok") \in Replies BY Zenon, AnswerType DEF Codes
    <3> QED BY Zenon, <2>6, <3>1, LeaveType DEF AcceptShutdown, DispatchTypeOK
  <2>7. CASE Return(h)
    <3>1. Answer("Ok") \in Replies BY Zenon, AnswerType DEF Codes
    <3> QED BY Zenon, <2>7, <3>1 DEF Return, Jump, DispatchTypeOK, Labels
  <2> QED BY Zenon, <2>1, <2>2, <2>3, <2>4, <2>5, <2>6, <2>7
<1> QED BY Zenon, <1>1, <1>2, <1>3

\* Every step keeps TypeOK, given where the threads are and what they hold.
LEMMA TypeStep ==
  ASSUME TypeOK, ControlInv, SessionInv, [Next]_vars
  PROVE  TypeOK'
<1>1. CASE \E h \in Handlers, m \in Requests : \E i \in Args(m) : Begin(h, m, i)
  BY Zenon, <1>1, BeginType
<1>2. CASE \E h \in Handlers : HandlerStep(h)
  BY Zenon, <1>2, CreateType, CloseType, SettleType, SubmitType, JobRequestType
     DEF HandlerStep
<1>3. CASE /\ \E w \in Workers : WorkerStep(w) \/ Execute(w) \/ SpuriousWake(w)
           /\ UNCHANGED serviceVars
  <2>1. RegistryTypeOK' BY Zenon, <1>3, WorkerType DEF TypeOK
  <2> QED BY Zenon, <1>3, <2>1, ServiceStutterType
          DEF TypeOK, serviceVars, sessionVars, dispatchVars, closeVars
<1>4. CASE \/ /\ \E h \in Handlers, j \in JobIds : WakeSpuriously(h, j)
              /\ UNCHANGED serviceVars
           \/ Stop \/ Clear
  <2>1. RegistryTypeOK'
    <3> USE DEF TypeOK, RegistryTypeOK
    <3>1. ASSUME NEW h, NEW j, WakeSpuriously(h, j)
          PROVE  RegistryTypeOK'
      <4>1. RecordTypeOK' BY Zenon, <3>1 DEF WakeSpuriously, RecordTypeOK
      <4> QED BY Zenon, <3>1, <4>1, RegistryStutterType DEF WakeSpuriously
    <3>2. CASE Stop
      <4>1. MapTypeOK' BY Zenon, <3>2 DEF Stop, StopRegistry, MapTypeOK
      <4>2. cancellation' \in [JobIds -> BOOLEAN]
        BY Zenon, <3>2 DEF Stop, StopRegistry, RecordTypeOK
      <4>3. RecordTypeOK' BY Zenon, <3>2, <4>2 DEF Stop, StopRegistry, RecordTypeOK
      <4> QED BY Zenon, <3>2, <4>1, <4>3, RegistryStutterType DEF Stop, StopRegistry
    <3>3. CASE Clear
      <4>1. MapTypeOK' BY Zenon, <3>3 DEF Clear, ClearRegistry, MapTypeOK
      <4> QED BY Zenon, <3>3, <4>1, RegistryStutterType DEF Clear, ClearRegistry
    <3> QED BY Zenon, <1>4, <3>1, <3>2, <3>3
  <2>2. UNCHANGED serviceVars BY Zenon, <1>4 DEF Stop, Clear
  <2> QED BY Zenon, <2>1, <2>2, ServiceStutterType
          DEF TypeOK, serviceVars, sessionVars, dispatchVars, closeVars
<1>5. CASE UNCHANGED vars
  BY Zenon, <1>5, ServiceStutterType
     DEF vars, TypeOK, serviceVars, sessionVars, dispatchVars, closeVars
<1> QED BY Zenon, <1>1, <1>2, <1>3, <1>4, <1>5 DEF Next

\* No worker step touches the map, the ids, the stop flag, the owning Session of
\* a record or a token.
LEMMA WorkerFrame ==
  ASSUME NEW w, WorkerStep(w) \/ Execute(w) \/ SpuriousWake(w)
  PROVE  UNCHANGED <<jobs_, next_id_, stopping_, session_id, cancellation>>
BY Zenon DEF WorkerStep, WorkerSleep, WorkerExit, WorkerPop, BeginExecute,
       CheckBeforeCompile, Compile, FinalPublication, FinishCancelled,
       FinishFailure, Fence, Fallback, Execute, SpuriousWake, mapVars, recordVars

-----------------------------------------------------------------------------
(* What threads hold, and the Sessions                                       *)

\* A dispatching thread changes no worker's locals and not the stop flag; it can
\* only wake workers (the notify_one of submit).
LEMMA HandlerLeavesWorkers ==
  ASSUME NEW h, HandlerStep(h)
  PROVE  UNCHANGED <<wpc, held, caught, stopping_>> /\ ready_' \subseteq ready_
<1> USE DEF registryVars, mapVars, recordVars, workerVars
<1>1. CASE \/ CreateReserve(h) \/ CreateRejected(h) \/ CreatePublish(h)
           \/ CreateRollback(h) \/ CloseBegin(h) \/ CloseSnapshotThrows(h)
           \/ CloseReopen(h) \/ CloseFinalize(h) \/ SubmitValidate(h)
           \/ Find(h) \/ ReadStatus(h) \/ ReadResult(h) \/ AcceptShutdown(h)
           \/ Return(h)
  BY Zenon, <1>1 DEF CreateReserve, CreateRejected, CreatePublish, CreateRollback,
              CloseBegin, CloseSnapshotThrows, CloseReopen, CloseFinalize,
              SubmitValidate, Find, ReadStatus, ReadResult, AcceptShutdown, Return
<1>2. CASE CloseDetach(h) \/ SettleQueued(h) \/ SettlePopped(h) \/ SettleWait(h)
  BY Zenon, <1>2 DEF CloseDetach, DetachSession, SettleQueued, SettleQueuedRecord,
              SettlePopped, SettlePoppedRecord, CancelRecord, SettleWait,
              SleepUntilTerminal
<1>3. CASE CancelJob(h) \/ ReleaseJob(h)
  BY Zenon, <1>3 DEF CancelJob, CancelRecord, ReleaseJob, Release
<1>4. CASE SubmitPublish(h)
  BY Zenon, <1>4 DEF SubmitPublish, Enqueue, EnqueueThrows, NotifyOne
<1> QED BY Zenon, <1>1, <1>2, <1>3, <1>4 DEF HandlerStep

\* A dispatching thread changes no other dispatch's position, argument or
\* detached records.
LEMMA HandlerLeavesOthers ==
  ASSUME TypeOK, NEW h \in Handlers, HandlerStep(h), NEW g \in Handlers, g # h
  PROVE  /\ pc'[g] = pc[g] /\ arg'[g] = arg[g]
         /\ queued'[g] = queued[g] /\ running'[g] = running[g]
         /\ uncancelled'[g] = uncancelled[g]
<1> USE DEF TypeOK, DispatchTypeOK, CloseTypeOK, Continue, Respond, Refuse, Leave, Jump,
            closeVars, dispatchVars
<1>1. CASE \/ CreateReserve(h) \/ CreateRejected(h) \/ CreatePublish(h)
           \/ CreateRollback(h)
  BY Zenon, <1>1 DEF CreateReserve, CreateRejected, CreatePublish, CreateRollback
<1>2. CASE \/ CloseBegin(h) \/ CloseDetach(h) \/ CloseSnapshotThrows(h)
           \/ CloseReopen(h) \/ CloseFinalize(h)
  BY Zenon, <1>2 DEF CloseBegin, CloseDetach, CloseSnapshotThrows, CloseReopen,
              CloseFinalize
<1>3. CASE SettleQueued(h) \/ SettlePopped(h) \/ SettleWait(h)
  BY Zenon, <1>3 DEF SettleQueued, SettlePopped, SettleWait
<1>4. CASE SubmitValidate(h) \/ SubmitPublish(h)
  BY Zenon, <1>4 DEF SubmitValidate, SubmitPublish
<1>5. CASE \/ Find(h) \/ ReadStatus(h) \/ CancelJob(h) \/ ReadResult(h)
           \/ ReleaseJob(h) \/ AcceptShutdown(h) \/ Return(h)
  BY Zenon, <1>5 DEF Find, ReadStatus, CancelJob, ReadResult, ReleaseJob,
              AcceptShutdown, Return
<1> QED BY Zenon, <1>1, <1>2, <1>3, <1>4, <1>5 DEF HandlerStep

\* A worker that leaves execute holds nothing and is back at the wait.
LEMMA DoneControl ==
  ASSUME WorkerTypeOK, WorkerControlInv, NEW w \in Workers, w \notin ready_,
         Done(w), ready_' = ready_
  PROVE  WorkerControlInv'
BY DEF WorkerTypeOK, WorkerControlInv, Done, Goto

\* A worker that moves on inside execute still holds its record.
LEMMA GotoControl ==
  ASSUME WorkerTypeOK, WorkerControlInv, NEW w \in Workers, w \notin ready_,
         held[w] # NoId,
         NEW l \in WorkerStates \ {"wait", "exit", "finish_failure", "fence",
                                   "fallback"},
         Goto(w, l), UNCHANGED <<ready_, held, caught>>
  PROVE  WorkerControlInv'
BY DEF WorkerTypeOK, WorkerControlInv, Goto

\* A worker that enters a failure path carries a genuine failure category.
LEMMA FailWithControl ==
  ASSUME WorkerTypeOK, WorkerControlInv, NEW w \in Workers, w \notin ready_,
         held[w] # NoId,
         NEW c \in Codes \ {"Ok", "Cancelled"},
         NEW l \in WorkerStates \ {"wait", "exit"},
         FailWith(w, c, l), UNCHANGED ready_
  PROVE  WorkerControlInv'
BY DEF WorkerTypeOK, WorkerControlInv, FailWith, Goto

\* Worker steps keep what a worker's position says of the record it holds.
LEMMA WorkerControlStep ==
  ASSUME RegistryTypeOK, WorkerControlInv, NEW w \in Workers,
         WorkerStep(w) \/ Execute(w) \/ SpuriousWake(w)
  PROVE  WorkerControlInv'
<1> USE DEF RegistryTypeOK
<1>1. CASE WorkerSleep(w) \/ SpuriousWake(w)
  BY Zenon, <1>1 DEF WorkerSleep, SpuriousWake, WorkerControlInv, workerVars
<1>2. CASE WorkerExit(w)
  BY <1>2 DEF WorkerExit, WorkerControlInv, WorkerTypeOK, Goto
<1>3. CASE WorkerPop(w)
  BY <1>3 DEF WorkerPop, WorkerControlInv, WorkerTypeOK, Goto, MapTypeOK,
              JobIds, NoId
<1>4. ASSUME ~(WorkerSleep(w) \/ SpuriousWake(w) \/ WorkerExit(w) \/ WorkerPop(w))
      PROVE  WorkerControlInv'
  <2>1. held[w] # NoId /\ w \notin ready_
    BY Zenon, <1>4 DEF WorkerControlInv, WorkerStep, BeginExecute, CheckBeforeCompile,
                Compile, Execute, FinalPublication, FinishCancelled,
                FinishFailure, Fence, Fallback
  <2> USE <2>1, DoneControl, GotoControl, FailWithControl DEF WorkerStates
  <2>2. CASE BeginExecute(w) BY Zenon, <2>2 DEF BeginExecute
  <2>3. CASE CheckBeforeCompile(w) BY Zenon, <2>3 DEF CheckBeforeCompile
  <2>4. CASE Compile(w) BY Zenon, <2>4 DEF Compile, Thrown, Codes
  <2>5. CASE Execute(w) BY Zenon, <2>5 DEF Execute, Thrown, Codes
  <2>6. CASE FinalPublication(w) BY Zenon, <2>6 DEF FinalPublication, Codes
  <2>7. CASE FinishCancelled(w) BY Zenon, <2>7 DEF FinishCancelled, Codes
  <2>8. CASE FinishFailure(w) BY Zenon, <2>8 DEF FinishFailure, Codes
  <2>9. CASE Fence(w)
    <3>1. CASE Done(w) BY Zenon, <2>9, <3>1 DEF Fence
    <3>2. CASE Goto(w, "fallback") /\ UNCHANGED <<held, caught>>
      BY <2>9, <3>2 DEF Fence, WorkerControlInv, WorkerTypeOK, Goto
    <3> QED BY Zenon, <2>9, <3>1, <3>2 DEF Fence
  <2>10. CASE Fallback(w) BY Zenon, <2>10 DEF Fallback
  <2> QED BY Zenon, <1>4, <2>2, <2>3, <2>4, <2>5, <2>6, <2>7, <2>8, <2>9, <2>10
          DEF WorkerStep
<1> QED BY Zenon, <1>1, <1>2, <1>3, <1>4

\* Handler steps keep what a dispatch's position says of the records it has
\* detached; none runs once stop has begun.
LEMMA HandlerControlStep ==
  ASSUME TypeOK, HandlerControlInv, NEW h \in Handlers, HandlerStep(h)
  PROVE  HandlerControlInv'
<1>1. ~stopping_ /\ ~stopping_'
  <2>1. pc[h] # "idle"
    BY Zenon DEF HandlerStep, CreateReserve, CreateRejected, CreatePublish,
           CreateRollback, CloseBegin, CloseDetach, CloseSnapshotThrows,
           CloseReopen, CloseFinalize, SettleQueued, SettlePopped, SettleWait,
           SubmitValidate, SubmitPublish, Find, ReadStatus, CancelJob,
           ReadResult, ReleaseJob, AcceptShutdown, Return, Calls
  <2> QED BY Zenon, <2>1, HandlerLeavesWorkers DEF HandlerControlInv
<1>2. /\ pc'[h] = "found" => arg'[h] \in JobIds
      /\ pc'[h] # "settle" =>
            queued'[h] = {} /\ running'[h] = {} /\ uncancelled'[h] = {}
      /\ uncancelled'[h] \subseteq running'[h]
  <2> USE DEF TypeOK, DispatchTypeOK, CloseTypeOK, HandlerControlInv, Continue,
              Respond, Refuse, Leave, Jump, closeVars, dispatchVars
  <2>1. CASE \/ CreateReserve(h) \/ CreateRejected(h) \/ CreatePublish(h)
             \/ CreateRollback(h)
    BY Zenon, <2>1 DEF CreateReserve, CreateRejected, CreatePublish, CreateRollback, Calls
  <2>2. CASE \/ CloseBegin(h) \/ CloseDetach(h) \/ CloseSnapshotThrows(h)
             \/ CloseReopen(h) \/ CloseFinalize(h)
    <3>1. CASE CloseBegin(h) BY Zenon, <3>1 DEF CloseBegin, Calls
    <3>2. CASE CloseDetach(h) BY Zenon, <3>2 DEF CloseDetach
    <3>3. CASE CloseSnapshotThrows(h) BY Zenon, <3>3 DEF CloseSnapshotThrows
    <3>4. CASE CloseReopen(h) BY Zenon, <3>4 DEF CloseReopen
    <3>5. CASE CloseFinalize(h)
      <4>1. pc'[h] = "reply" /\ UNCHANGED <<queued, running, uncancelled>>
            /\ queued[h] = {} /\ running[h] = {} /\ uncancelled[h] = {}
        BY Zenon, <3>5 DEF CloseFinalize
      <4> QED BY Zenon, <4>1
    <3> QED BY Zenon, <2>2, <3>1, <3>2, <3>3, <3>4, <3>5
  <2>3. CASE SettleQueued(h) \/ SettlePopped(h) \/ SettleWait(h)
    <3>1. UNCHANGED <<pc, arg>> /\ pc[h] = "settle"
      BY Zenon, <2>3 DEF SettleQueued, SettlePopped, SettleWait
    <3>2. CASE SettleQueued(h) BY Zenon, <3>1, <3>2 DEF SettleQueued
    <3>3. CASE SettlePopped(h) BY Zenon, <3>1, <3>3 DEF SettlePopped
    <3>4. CASE SettleWait(h) BY Zenon, <3>1, <3>4 DEF SettleWait
    <3> QED BY Zenon, <2>3, <3>2, <3>3, <3>4
  <2>4. CASE SubmitValidate(h) \/ SubmitPublish(h)
    BY Zenon, <2>4 DEF SubmitValidate, SubmitPublish, Calls
  <2>5. CASE \/ Find(h) \/ ReadStatus(h) \/ CancelJob(h) \/ ReadResult(h)
             \/ ReleaseJob(h) \/ AcceptShutdown(h) \/ Return(h)
    BY Zenon, <2>5 DEF Find, ReadStatus, CancelJob, ReadResult, ReleaseJob,
                AcceptShutdown, Return, Calls, RegistryTypeOK, MapTypeOK
  <2> QED BY Zenon, <2>1, <2>2, <2>3, <2>4, <2>5 DEF HandlerStep
<1> QED BY ZenonT(60), <1>1, <1>2, HandlerLeavesOthers DEF HandlerControlInv

\* Every step keeps ControlInv.
LEMMA ControlStep ==
  ASSUME TypeOK, ControlInv, [Next]_vars
  PROVE  ControlInv'
<1> USE DEF ControlInv
<1>1. ASSUME NEW h \in Handlers, NEW m \in Requests, NEW i \in Args(m), Begin(h, m, i)
      PROVE  ControlInv'
  <2>1. WorkerControlInv' BY Zenon, <1>1 DEF WorkerControlInv, Begin, registryVars
  <2>2. HandlerControlInv'
    BY Zenon, <1>1 DEF HandlerControlInv, Begin, Leave, Jump, registryVars, closeVars,
                TypeOK, DispatchTypeOK, CloseTypeOK
  <2> QED BY Zenon, <2>1, <2>2
<1>2. ASSUME NEW h \in Handlers, HandlerStep(h)
      PROVE  ControlInv'
  <2>1. WorkerControlInv' BY Zenon, <1>2, HandlerLeavesWorkers DEF WorkerControlInv
  <2> QED BY Zenon, <1>2, <2>1, HandlerControlStep
<1>3. ASSUME NEW w \in Workers, WorkerStep(w) \/ Execute(w) \/ SpuriousWake(w),
             UNCHANGED serviceVars
      PROVE  ControlInv'
  <2>1. HandlerControlInv'
    BY Zenon, <1>3, WorkerFrame DEF HandlerControlInv, serviceVars
  <2> QED BY Zenon, <1>3, <2>1, WorkerControlStep DEF TypeOK
<1>4. CASE /\ \E h \in Handlers, j \in JobIds : WakeSpuriously(h, j)
           /\ UNCHANGED serviceVars
  BY <1>4 DEF WakeSpuriously, WorkerControlInv, HandlerControlInv, serviceVars,
              mapVars, workerVars
<1>5. CASE Stop \/ Clear \/ UNCHANGED vars
  <2>1. UNCHANGED <<wpc, held, caught>> /\ ready_' \subseteq ready_
    BY Zenon, <1>5 DEF Stop, Clear, StopRegistry, ClearRegistry, workerVars, vars,
                registryVars
  <2>2. /\ UNCHANGED <<pc, arg, queued, running, uncancelled>>
        /\ stopping_' => stopping_ \/ \A h \in Handlers : pc[h] = "idle"
    BY <1>5 DEF Stop, Clear, StopRegistry, ClearRegistry, serviceVars, vars,
                registryVars
  <2>3. WorkerControlInv' BY Zenon, <2>1 DEF WorkerControlInv
  <2>4. HandlerControlInv' BY Zenon, <2>2 DEF HandlerControlInv
  <2> QED BY Zenon, <2>3, <2>4
<1> QED BY Zenon, <1>1, <1>2, <1>3, <1>4, <1>5 DEF Next

\* SessionInv depends on the Session map, the lifecycle lock and the position
\* and argument of the dispatches only.
LEMMA SessionStutter ==
  ASSUME SessionInv,
         UNCHANGED <<sessions, closing, lifecycle_mutex, pc, arg>>
  PROVE  SessionInv'
BY Zenon DEF SessionInv, Closing

\* A step that neither enters nor leaves a critical label, and leaves the
\* Session map alone.
LEMMA SessionElsewhere ==
  ASSUME SessionInv, NEW h \in Handlers,
         UNCHANGED <<sessions, closing, lifecycle_mutex>>,
         pc[h] # "enqueue", pc'[h] # "enqueue",
         Closing(h)' => Closing(h) /\ arg'[h] = arg[h],
         \A g \in Handlers : g # h => pc'[g] = pc[g] /\ arg'[g] = arg[g]
  PROVE  SessionInv'
BY DEF SessionInv, Closing

\* Handler steps keep SessionInv: submit publishes under lifecycle_mutex to a
\* Session that stays open meanwhile, and only one close wins a Session.
LEMMA SessionHandlerStep ==
  ASSUME TypeOK, SessionInv, NEW h \in Handlers, HandlerStep(h)
  PROVE  SessionInv'
<1>1. \A g \in Handlers : g # h => pc'[g] = pc[g] /\ arg'[g] = arg[g]
  BY Zenon, HandlerLeavesOthers
<1> USE DEF TypeOK, DispatchTypeOK, Continue, Respond, Refuse, Leave, Jump, sessionVars
<1>2. CASE CreateReserve(h) \/ CreateRejected(h) \/ CreateRollback(h)
  <2>1. /\ pc[h] # "enqueue" /\ pc'[h] # "enqueue" /\ ~Closing(h)'
        /\ UNCHANGED <<sessions, closing, lifecycle_mutex>>
    BY Zenon, <1>2 DEF CreateReserve, CreateRejected, CreateRollback, Calls, Closing
  <2> QED BY Zenon, <1>1, <2>1, SessionElsewhere
<1>3. CASE CreatePublish(h)
  BY <1>1, <1>3 DEF CreatePublish, SessionInv, Closing
<1>4. CASE CloseBegin(h)
  <2>1. CASE OpenSession(arg[h])
    <3>1. \A g \in Handlers : pc[g] # "enqueue"
      BY Zenon, <1>4 DEF CloseBegin, LifecycleFree, SessionInv
    <3>2. /\ arg[h] \in sessions \ closing /\ closing' = closing \cup {arg[h]}
          /\ pc'[h] = "snapshot" /\ arg'[h] = arg[h]
          /\ UNCHANGED <<sessions, lifecycle_mutex>>
      BY Zenon, <1>4, <2>1 DEF CloseBegin, OpenSession
    <3> HIDE DEF TypeOK, DispatchTypeOK
    <3>3. \A g \in Handlers : Closing(g)' => g = h \/ (Closing(g) /\ arg'[g] = arg[g])
      BY Zenon, <1>1 DEF Closing
    <3>4. \A g \in Handlers : pc'[g] # "enqueue" /\ lifecycle_mutex' # g
      BY Zenon, <1>1, <3>1, <3>2 DEF SessionInv
    <3>5. closing' \subseteq sessions' BY Zenon, <3>2 DEF SessionInv
    <3>6. \A g \in Handlers : Closing(g)' => arg'[g] \in closing'
      BY Zenon, <3>2, <3>3 DEF SessionInv
    <3>7. \A g \in Handlers : Closing(g) => arg[g] # arg[h]
      BY Zenon, <3>2 DEF SessionInv
    <3>8. \A f, g \in Handlers : Closing(f)' /\ Closing(g)' /\ arg'[f] = arg'[g] => f = g
      BY Zenon, <3>2, <3>3, <3>7 DEF SessionInv
    <3> QED BY Zenon, <3>4, <3>5, <3>6, <3>8 DEF SessionInv, Closing
  <2>2. CASE ~OpenSession(arg[h])
    <3>1. /\ pc[h] # "enqueue" /\ pc'[h] # "enqueue" /\ ~Closing(h)'
          /\ UNCHANGED <<sessions, closing, lifecycle_mutex>>
      BY Zenon, <1>4, <2>2 DEF CloseBegin, Calls, Closing
    <3> QED BY Zenon, <1>1, <3>1, SessionElsewhere
  <2> QED BY Zenon, <2>1, <2>2
<1>5. CASE CloseDetach(h) \/ CloseSnapshotThrows(h)
  <2>1. /\ pc[h] # "enqueue" /\ pc'[h] # "enqueue" /\ Closing(h)
        /\ arg'[h] = arg[h]
        /\ UNCHANGED <<sessions, closing, lifecycle_mutex>>
    BY Zenon, <1>5 DEF CloseDetach, CloseSnapshotThrows, Closing
  <2> QED BY Zenon, <1>1, <2>1, SessionElsewhere
<1>6. CASE CloseReopen(h) \/ CloseFinalize(h)
  <2>1. /\ Closing(h) /\ pc'[h] = "reply" /\ closing' = closing \ {arg[h]}
        /\ sessions' \in {sessions, sessions \ {arg[h]}}
        /\ lifecycle_mutex = NoHandler /\ UNCHANGED lifecycle_mutex
    BY Zenon, <1>6 DEF CloseReopen, CloseFinalize, Closing, LifecycleFree
  <2>2. \A g \in Handlers : pc'[g] # "enqueue" /\ lifecycle_mutex' # g
    BY Zenon, <1>1, <2>1 DEF SessionInv
  <2>3. \A g \in Handlers : Closing(g)' => g # h /\ Closing(g) /\ arg'[g] = arg[g]
    BY Zenon, <1>1, <2>1 DEF Closing
  <2>4. closing' \subseteq sessions' BY Zenon, <2>1 DEF SessionInv
  <2>5. \A g \in Handlers : Closing(g)' => arg'[g] \in closing'
    BY Zenon, <2>1, <2>3 DEF SessionInv
  <2>6. \A f, g \in Handlers : Closing(f)' /\ Closing(g)' /\ arg'[f] = arg'[g] => f = g
    BY Zenon, <2>3 DEF SessionInv
  <2> QED BY Zenon, <2>2, <2>4, <2>5, <2>6 DEF SessionInv, Closing
<1>7. CASE SettleQueued(h) \/ SettlePopped(h) \/ SettleWait(h)
  BY Zenon, <1>7, SessionStutter DEF SettleQueued, SettlePopped, SettleWait, dispatchVars
<1>8. CASE SubmitValidate(h)
  <2>1. CASE OpenSession(arg[h])
    <3>1. /\ arg[h] \in sessions \ closing /\ pc'[h] = "enqueue" /\ arg'[h] = arg[h]
          /\ lifecycle_mutex = NoHandler /\ lifecycle_mutex' = h
          /\ UNCHANGED <<sessions, closing>>
      BY Zenon, <1>8, <2>1 DEF SubmitValidate, LifecycleFree, OpenSession
    <3> HIDE DEF TypeOK, DispatchTypeOK
    <3>2. \A g \in Handlers : Closing(g)' => Closing(g) /\ arg'[g] = arg[g]
      BY Zenon, <1>1, <3>1 DEF Closing
    <3>3. \A g \in Handlers : pc[g] # "enqueue"
      BY Zenon, <3>1, ServiceAssumption DEF SessionInv
    <3>4. \A g \in Handlers : pc'[g] = "enqueue" <=> g = h
      BY Zenon, <1>1, <3>1, <3>3
    <3>5. \A g \in Handlers : Closing(g)' => arg'[g] \in closing'
      BY Zenon, <3>1, <3>2 DEF SessionInv
    <3>6. \A f, g \in Handlers : Closing(f)' /\ Closing(g)' /\ arg'[f] = arg'[g] => f = g
      BY Zenon, <3>2 DEF SessionInv
    <3>7. closing' \subseteq sessions' BY Zenon, <3>1 DEF SessionInv
    <3> QED BY Zenon, <3>1, <3>4, <3>5, <3>6, <3>7 DEF SessionInv, Closing
  <2>2. CASE ~OpenSession(arg[h])
    <3>1. /\ pc[h] # "enqueue" /\ pc'[h] # "enqueue" /\ ~Closing(h)'
          /\ UNCHANGED <<sessions, closing, lifecycle_mutex>>
      BY Zenon, <1>8, <2>2 DEF SubmitValidate, Calls, Closing
    <3> QED BY Zenon, <1>1, <3>1, SessionElsewhere
  <2> QED BY Zenon, <2>1, <2>2
<1>9. CASE SubmitPublish(h)
  <2>1. /\ pc[h] = "enqueue" /\ pc'[h] = "reply" /\ lifecycle_mutex' = NoHandler
        /\ UNCHANGED <<sessions, closing>>
    BY Zenon, <1>9 DEF SubmitPublish
  <2>2. \A g \in Handlers : g # h => pc[g] # "enqueue"
    BY Zenon, <2>1 DEF SessionInv
  <2> HIDE DEF TypeOK, DispatchTypeOK
  <2> QED BY ZenonT(60), <1>1, <2>1, <2>2 DEF SessionInv, Closing
<1>10. CASE \/ Find(h) \/ ReadStatus(h) \/ CancelJob(h) \/ ReadResult(h)
            \/ ReleaseJob(h) \/ AcceptShutdown(h) \/ Return(h)
  <2>1. /\ pc[h] # "enqueue" /\ pc'[h] # "enqueue" /\ ~Closing(h)'
        /\ UNCHANGED <<sessions, closing, lifecycle_mutex>>
    BY Zenon, <1>10 DEF Find, ReadStatus, CancelJob, ReadResult, ReleaseJob,
                 AcceptShutdown, Return, Calls, Closing
  <2> QED BY Zenon, <1>1, <2>1, SessionElsewhere
<1> QED BY Zenon, <1>2, <1>3, <1>4, <1>5, <1>6, <1>7, <1>8, <1>9, <1>10 DEF HandlerStep

\* Every step keeps SessionInv.
LEMMA SessionStep ==
  ASSUME TypeOK, SessionInv, [Next]_vars
  PROVE  SessionInv'
<1>1. ASSUME NEW h \in Handlers, NEW m \in Requests, NEW i \in Args(m), Begin(h, m, i)
      PROVE  SessionInv'
  <2>1. /\ pc[h] # "enqueue" /\ pc'[h] # "enqueue" /\ ~Closing(h)'
        /\ UNCHANGED <<sessions, closing, lifecycle_mutex>>
        /\ \A g \in Handlers : g # h => pc'[g] = pc[g] /\ arg'[g] = arg[g]
    BY Zenon, <1>1 DEF Begin, Leave, Jump, sessionVars, TypeOK, DispatchTypeOK, Closing
  <2> QED BY Zenon, <2>1, SessionElsewhere
<1>2. ASSUME NEW h \in Handlers, HandlerStep(h)
      PROVE  SessionInv'
  BY Zenon, <1>2, SessionHandlerStep
<1>3. CASE UNCHANGED serviceVars BY Zenon, <1>3, SessionStutter DEF serviceVars
<1> QED BY Zenon, <1>1, <1>2, <1>3 DEF Next, Stop, Clear, vars

-----------------------------------------------------------------------------
(* Records, identities and the queue                                         *)

\* What a worker step does to the records: it touches only the one it holds,
\* brings none back to life, and takes none to Unborn.
LEMMA WorkerRecords ==
  ASSUME RegistryTypeOK, WorkerControlInv, NEW w \in Workers,
         WorkerStep(w) \/ Execute(w) \/ SpuriousWake(w), NEW j \in JobIds
  PROVE  /\ j # held[w] => state'[j] = state[j]
         /\ Live(j)' => Live(j)
         /\ state[j] # "Unborn" => state'[j] # "Unborn"
<1> USE DEF RegistryTypeOK, RecordTypeOK, WorkerTypeOK, Live
<1>1. CASE \/ WorkerSleep(w) \/ SpuriousWake(w) \/ WorkerExit(w) \/ WorkerPop(w)
           \/ CheckBeforeCompile(w) \/ Compile(w) \/ Execute(w)
  BY Zenon, <1>1 DEF WorkerSleep, SpuriousWake, WorkerExit, WorkerPop,
              CheckBeforeCompile, Compile, Execute, recordVars
<1>2. CASE BeginExecute(w) BY ZenonT(60), <1>2 DEF BeginExecute, Publish
<1>3. CASE FinalPublication(w)
  BY Zenon, <1>3 DEF FinalPublication, Publish, DiagnosticThrows
<1>4. CASE FinishCancelled(w)
  BY Zenon, <1>4 DEF FinishCancelled, Publish, DiagnosticThrows
<1>5. CASE FinishFailure(w)
  BY <1>5 DEF FinishFailure, PublishFailure, Publish, DiagnosticThrows
<1>6. CASE Fence(w) BY <1>6 DEF Fence, PublishFailure, Publish, DiagnosticThrows
<1>7. CASE Fallback(w) BY <1>7 DEF Fallback, PublishFailure, Publish
<1> QED BY Zenon, <1>1, <1>2, <1>3, <1>4, <1>5, <1>6, <1>7 DEF WorkerStep

\* Workers only take records from the queue, and put none back.
LEMMA WorkerHolds ==
  ASSUME RegistryTypeOK, NEW w \in Workers,
         WorkerStep(w) \/ Execute(w) \/ SpuriousWake(w)
  PROVE  /\ queue_' \subseteq queue_
         /\ \A v \in Workers : held'[v] \in {held[v], NoId} \cup queue_
BY Zenon DEF WorkerStep, WorkerSleep, WorkerExit, WorkerPop, BeginExecute,
       CheckBeforeCompile, Compile, FinalPublication, FinishCancelled,
       FinishFailure, Fence, Fallback, Execute, SpuriousWake, mapVars, Done,
       FailWith, Goto, workerVars, RegistryTypeOK, WorkerTypeOK

\* What a handler step other than an admission does to them.
LEMMA HandlerRecords ==
  ASSUME TypeOK, NEW h \in Handlers, HandlerStep(h), ~SubmitPublish(h),
         NEW j \in JobIds
  PROVE  /\ UNCHANGED <<session_id, next_id_>>
         /\ jobs_' \subseteq jobs_ /\ queue_' \subseteq queue_
         /\ j \notin queued[h] => state'[j] = state[j]
         /\ Live(j)' => Live(j)
         /\ state[j] # "Unborn" => state'[j] # "Unborn"
<1> USE DEF Live, mapVars, recordVars, registryVars
<1>1. CASE \/ CreateReserve(h) \/ CreateRejected(h) \/ CreatePublish(h)
           \/ CreateRollback(h) \/ CloseBegin(h) \/ CloseSnapshotThrows(h)
           \/ CloseReopen(h) \/ CloseFinalize(h) \/ SubmitValidate(h)
           \/ Find(h) \/ ReadStatus(h) \/ ReadResult(h) \/ AcceptShutdown(h)
           \/ Return(h)
  BY Zenon, <1>1 DEF CreateReserve, CreateRejected, CreatePublish, CreateRollback,
              CloseBegin, CloseSnapshotThrows, CloseReopen, CloseFinalize,
              SubmitValidate, Find, ReadStatus, ReadResult, AcceptShutdown, Return
<1>2. CASE CloseDetach(h) \/ SettlePopped(h) \/ SettleWait(h)
  BY Zenon, <1>2 DEF CloseDetach, DetachSession, SettlePopped, SettlePoppedRecord,
              CancelRecord, SettleWait, SleepUntilTerminal
<1>3. CASE SettleQueued(h)
  BY Zenon, <1>3 DEF SettleQueued, SettleQueuedRecord, Publish, TypeOK, RegistryTypeOK,
              RecordTypeOK
<1>4. CASE CancelJob(h) \/ ReleaseJob(h)
  BY Zenon, <1>4 DEF CancelJob, CancelRecord, ReleaseJob, Release
<1> QED BY Zenon, <1>1, <1>2, <1>3, <1>4 DEF HandlerStep

\* The records a close takes over come out of the retained map.
LEMMA HandlerTakes ==
  ASSUME TypeOK, NEW h \in Handlers, HandlerStep(h)
  PROVE  queued'[h] \cup running'[h] \subseteq queued[h] \cup running[h] \cup jobs_
                                                \cup queue_
<1> USE DEF TypeOK, CloseTypeOK, closeVars
<1>1. CASE CloseDetach(h) BY Zenon, <1>1 DEF CloseDetach
<1>2. CASE SettleQueued(h) \/ SettlePopped(h) \/ SettleWait(h)
  BY ZenonT(60), <1>2 DEF SettleQueued, SettlePopped, SettleWait
<1> QED BY Zenon, <1>1, <1>2
        DEF HandlerStep, CreateReserve, CreateRejected, CreatePublish,
            CreateRollback, CloseBegin, CloseSnapshotThrows, CloseReopen,
            CloseFinalize, SubmitValidate, SubmitPublish, Find, ReadStatus,
            CancelJob, ReadResult, ReleaseJob, AcceptShutdown, Return

\* Only a create changes the Session counter, and only it adds a Session.
LEMMA HandlerSessions ==
  ASSUME TypeOK, NEW h \in Handlers, HandlerStep(h), ~CreatePublish(h)
  PROVE  sessions' \subseteq sessions /\ UNCHANGED next_session_id
BY Zenon DEF HandlerStep, CreateReserve, CreateRejected, CreateRollback, CloseBegin,
       CloseDetach, CloseSnapshotThrows, CloseReopen, SettleQueued, SettlePopped,
       SettleWait, CloseFinalize, SubmitValidate, SubmitPublish, Find,
       ReadStatus, CancelJob, ReadResult, ReleaseJob, AcceptShutdown, Return,
       sessionVars

\* IdentityInv depends on the maps, the counters and the states only.
LEMMA IdentityStutter ==
  ASSUME IdentityInv,
         UNCHANGED <<jobs_, state, held, queued, running, next_id_, sessions,
                     next_session_id, session_id>>
  PROVE  IdentityInv'
BY Zenon DEF IdentityInv

\* The admission of submit draws an id no record had before.
LEMMA IdentityPublish ==
  ASSUME TypeOK, SessionInv, HandlerControlInv, IdentityInv, NEW h \in Handlers,
         SubmitPublish(h)
  PROVE  IdentityInv'
<1>1. UNCHANGED <<sessions, next_session_id, queued, running>>
  BY Zenon DEF SubmitPublish, sessionVars, closeVars
<1>2. CASE UNCHANGED registryVars
  BY Zenon, <1>1, <1>2, IdentityStutter DEF registryVars
<1>3. ASSUME SubmitRefusal = "Ok"
      PROVE  /\ next_id_ \in JobIds
             /\ NextId(next_id_, JobIdSpan) # 0 =>
                   NextId(next_id_, JobIdSpan) = next_id_ + 1
  <2>1. next_id_ # 0 BY Zenon, <1>3 DEF SubmitRefusal
  <2>2. next_id_ \in JobIds
    BY <2>1 DEF TypeOK, RegistryTypeOK, MapTypeOK, JobIds
  <2>3. next_id_ \in Nat /\ (next_id_ + 1 < JobIdSpan \/ next_id_ + 1 = JobIdSpan)
    BY <2>2 DEF JobIds
  <2> QED BY Zenon, <2>2, <2>3, NextIdType
<1>4. CASE SubmitRefusal = "Ok" /\ EnqueueThrows
  <2>1. UNCHANGED <<jobs_, state, held, session_id>>
    BY Zenon, <1>4 DEF EnqueueThrows, recordVars, workerVars
  <2>2. \A j \in JobIds : next_id_' # 0 /\ j >= next_id_' =>
                           next_id_ # 0 /\ j >= next_id_
    BY <1>3, <1>4 DEF EnqueueThrows, JobIds
  <2> QED BY Zenon, <1>1, <2>1, <2>2 DEF IdentityInv
<1>5. CASE SubmitRefusal = "Ok" /\ Enqueue(arg[h])
  <2>1. \A j \in JobIds : next_id_' # 0 /\ j >= next_id_' =>
                           next_id_ # 0 /\ j >= next_id_ /\ j # next_id_
    BY <1>3, <1>5 DEF Enqueue, JobIds
  <2>2. CASE next_id_ \in jobs_
    <3>1. UNCHANGED <<jobs_, state, held, session_id>>
      BY Zenon, <1>5, <2>2 DEF Enqueue, recordVars, workerVars
    <3> QED BY Zenon, <1>1, <2>1, <3>1 DEF IdentityInv
  <2>3. CASE next_id_ \notin jobs_
    <3>1. /\ jobs_' = jobs_ \cup {next_id_} /\ UNCHANGED held
          /\ state' = [state EXCEPT ![next_id_] = "Queued"]
          /\ session_id' = [session_id EXCEPT ![next_id_] = arg[h]]
      BY Zenon, <1>5, <2>3 DEF Enqueue, workerVars
    <3>2. \A j \in JobIds : state[j] # "Unborn" => state'[j] # "Unborn"
      BY Zenon, <3>1 DEF TypeOK, RegistryTypeOK, RecordTypeOK
    <3>3. \A j \in JobIds : j # next_id_ => state'[j] = state[j]
      BY Zenon, <3>1 DEF TypeOK, RegistryTypeOK, RecordTypeOK
    <3>4. state'[next_id_] # "Unborn"
      BY Zenon, <1>3, <1>5, <3>1 DEF TypeOK, RegistryTypeOK, RecordTypeOK
    <3>5. \A j \in JobIds : session_id'[j] \in {session_id[j], arg[h]}
      BY Zenon, <3>1 DEF TypeOK, RegistryTypeOK, RecordTypeOK
    <3>6. next_session_id # 0 => arg[h] < next_session_id
      BY Zenon DEF SubmitPublish, SessionInv, IdentityInv
    <3>7. \A j \in jobs_' : state'[j] # "Unborn"
      BY Zenon, <3>1, <3>2, <3>4 DEF IdentityInv, TypeOK, RegistryTypeOK, MapTypeOK
    <3>8. \A w \in Workers : held'[w] # NoId => state'[held'[w]] # "Unborn"
      BY Zenon, <3>1, <3>2 DEF IdentityInv, TypeOK, RegistryTypeOK, WorkerTypeOK
    <3>9. \A g \in Handlers : \A j \in queued'[g] \cup running'[g] :
             state'[j] # "Unborn"
      BY Zenon, <1>1, <3>2 DEF IdentityInv, TypeOK, CloseTypeOK
    <3>10. \A j \in JobIds : next_id_' # 0 /\ j >= next_id_' => state'[j] = "Unborn"
      BY Zenon, <2>1, <3>3 DEF IdentityInv
    <3>11. \A j \in JobIds : next_session_id' # 0 => session_id'[j] < next_session_id'
      BY Zenon, <1>1, <3>5, <3>6 DEF IdentityInv
    <3> QED BY Zenon, <1>1, <3>7, <3>8, <3>9, <3>10, <3>11 DEF IdentityInv
  <2> QED BY Zenon, <2>2, <2>3
<1> QED BY Zenon, <1>2, <1>4, <1>5 DEF SubmitPublish

\* Handler steps keep IdentityInv; a new Session takes the counter's value, which
\* is above every Session and every record's owner.
LEMMA IdentityHandlerStep ==
  ASSUME TypeOK, SessionInv, HandlerControlInv, IdentityInv,
         queue_ \subseteq jobs_, NEW h \in Handlers, HandlerStep(h)
  PROVE  IdentityInv'
<1>1. CASE SubmitPublish(h) BY Zenon, <1>1, IdentityPublish
<1>2. CASE ~SubmitPublish(h)
  <2>1. /\ \A w \in Workers : held'[w] = held[w]
        /\ UNCHANGED <<session_id, next_id_>> /\ jobs_' \subseteq jobs_
    <3>1. 1 \in JobIds BY DEF JobIds
    <3> QED BY Zenon, <1>2, <3>1, HandlerLeavesWorkers, HandlerRecords
  <2>2. \A j \in JobIds : state[j] # "Unborn" => state'[j] # "Unborn"
    BY Zenon, <1>2, HandlerRecords
  <2>3. \A j \in JobIds : state[j] = "Unborn" => state'[j] = "Unborn"
    BY Zenon, <1>2, HandlerRecords DEF IdentityInv
  <2>4. \A g \in Handlers : \A j \in queued'[g] \cup running'[g] : state'[j] # "Unborn"
    <3>1. \A j \in queued'[h] \cup running'[h] : j \in JobIds /\ state[j] # "Unborn"
      BY Zenon, HandlerTakes
         DEF IdentityInv, TypeOK, CloseTypeOK, RegistryTypeOK, MapTypeOK
    <3>2. \A g \in Handlers : g # h =>
             queued'[g] = queued[g] /\ running'[g] = running[g]
      BY Zenon, HandlerLeavesOthers
    <3> QED BY Zenon, <2>2, <3>1, <3>2 DEF IdentityInv, TypeOK, CloseTypeOK
  <2>5. \A j \in jobs_' : state'[j] # "Unborn"
    BY Zenon, <2>1, <2>2 DEF IdentityInv, TypeOK, RegistryTypeOK, MapTypeOK
  <2>6. \A w \in Workers : held'[w] # NoId => state'[held'[w]] # "Unborn"
    BY Zenon, <2>1, <2>2 DEF IdentityInv, TypeOK, RegistryTypeOK, WorkerTypeOK
  <2>7. /\ \A s \in sessions' : next_session_id' # 0 => s < next_session_id'
        /\ \A j \in JobIds : next_session_id' # 0 => session_id[j] < next_session_id'
    <3>1. CASE CreatePublish(h)
      <4>1. CASE UNCHANGED sessionVars BY Zenon, <4>1 DEF sessionVars, IdentityInv
      <4>2. CASE /\ next_session_id # 0
                 /\ sessions' = sessions \cup {next_session_id}
                 /\ next_session_id' = NextId(next_session_id, SessionIdSpan)
        <5>1. /\ next_session_id \in Nat
              /\ \/ next_session_id + 1 < SessionIdSpan
                 \/ next_session_id + 1 = SessionIdSpan
          BY DEF TypeOK, SessionTypeOK
        <5>2. next_session_id' # 0 => next_session_id' = next_session_id + 1
          BY Zenon, <4>2, <5>1, NextIdType
        <5> QED BY <4>2, <5>1, <5>2
                DEF IdentityInv, TypeOK, SessionTypeOK, SessionIds,
                    RegistryTypeOK, RecordTypeOK
      <4> QED BY Zenon, <3>1, <4>1, <4>2 DEF CreatePublish
    <3>2. CASE ~CreatePublish(h) BY Zenon, <3>2, HandlerSessions DEF IdentityInv
    <3> QED BY Zenon, <3>1, <3>2
  <2> QED BY Zenon, <2>1, <2>3, <2>4, <2>5, <2>6, <2>7 DEF IdentityInv
<1> QED BY Zenon, <1>1, <1>2

\* Every step keeps IdentityInv.
LEMMA IdentityStep ==
  ASSUME TypeOK, ControlInv, SessionInv, IdentityInv, queue_ \subseteq jobs_,
         [Next]_vars
  PROVE  IdentityInv'
<1>1. ASSUME NEW h \in Handlers, NEW m \in Requests, NEW i \in Args(m), Begin(h, m, i)
      PROVE  IdentityInv'
  BY Zenon, <1>1, IdentityStutter DEF Begin, registryVars, sessionVars, closeVars
<1>2. ASSUME NEW h \in Handlers, HandlerStep(h)
      PROVE  IdentityInv'
  BY Zenon, <1>2, IdentityHandlerStep DEF ControlInv
<1>3. ASSUME NEW w \in Workers, WorkerStep(w) \/ Execute(w) \/ SpuriousWake(w),
             UNCHANGED serviceVars
      PROVE  IdentityInv'
  <2>1. UNCHANGED <<jobs_, next_id_, session_id>> BY Zenon, <1>3, WorkerFrame
  <2>2. \A j \in JobIds : /\ state[j] # "Unborn" => state'[j] # "Unborn"
                          /\ j # held[w] => state'[j] = state[j]
    BY Zenon, <1>3, WorkerRecords DEF TypeOK, ControlInv
  <2>3. \A v \in Workers : held'[v] \in {held[v], NoId} \cup jobs_
    BY Zenon, <1>3, WorkerHolds DEF TypeOK
  <2>4. \A j \in JobIds : state[j] = "Unborn" => state'[j] = "Unborn"
    BY <2>2 DEF IdentityInv, JobIds, NoId
  <2>5. \A v \in Workers : held'[v] # NoId => state'[held'[v]] # "Unborn"
    BY Zenon, <2>2, <2>3 DEF IdentityInv, TypeOK, RegistryTypeOK, MapTypeOK, WorkerTypeOK
  <2>6. \A g \in Handlers : \A j \in queued[g] \cup running[g] : state'[j] # "Unborn"
    BY Zenon, <2>2 DEF IdentityInv, TypeOK, CloseTypeOK
  <2>7. \A j \in jobs_ : state'[j] # "Unborn"
    BY Zenon, <2>2 DEF IdentityInv, TypeOK, RegistryTypeOK, MapTypeOK
  <2> QED BY Zenon, <1>3, <2>1, <2>4, <2>5, <2>6, <2>7 DEF IdentityInv, serviceVars
<1>4. CASE /\ \E h \in Handlers, j \in JobIds : WakeSpuriously(h, j)
           /\ UNCHANGED serviceVars
  BY Zenon, <1>4, IdentityStutter DEF WakeSpuriously, mapVars, workerVars, serviceVars
<1>5. CASE Stop \/ UNCHANGED vars
  BY Zenon, <1>5, IdentityStutter
     DEF Stop, StopRegistry, vars, registryVars, workerVars, serviceVars
<1>6. CASE Clear
  BY Zenon, <1>6
     DEF Clear, ClearRegistry, IdentityInv, recordVars, workerVars, serviceVars
<1> QED BY Zenon, <1>1, <1>2, <1>3, <1>4, <1>5, <1>6 DEF Next

\* Every step keeps QueueInv: a record is in queue_ only while it is retained,
\* Queued and in nobody's hands.
LEMMA QueueStep ==
  ASSUME TypeOK, ControlInv, SessionInv, IdentityInv, QueueInv, RetentionInv,
         [Next]_vars
  PROVE  QueueInv'
<1>1. ASSUME NEW h \in Handlers, NEW m \in Requests, NEW i \in Args(m), Begin(h, m, i)
      PROVE  QueueInv'
  BY Zenon, <1>1 DEF Begin, registryVars, QueueInv
<1>2. ASSUME NEW h \in Handlers, HandlerStep(h), ~SubmitPublish(h)
      PROVE  QueueInv'
  <2>1. UNCHANGED held BY Zenon, <1>2, HandlerLeavesWorkers
  <2>2. queue_' \subseteq queue_
    <3>1. 1 \in JobIds BY DEF JobIds
    <3> QED BY Zenon, <1>2, <3>1, HandlerRecords
  <2>3. \A j \in queue_ : state'[j] = state[j]
    BY Zenon, <1>2, HandlerRecords
       DEF QueueInv, RetentionInv, TypeOK, RegistryTypeOK, MapTypeOK
  <2>4. queue_' \subseteq jobs_'
    <3>1. CASE CloseDetach(h) BY Zenon, <3>1 DEF CloseDetach, DetachSession, QueueInv
    <3>2. CASE ReleaseJob(h)
      BY Zenon, <3>2 DEF ReleaseJob, Release, ReleaseCode, terminal, QueueInv
    <3>3. CASE ~CloseDetach(h) /\ ~ReleaseJob(h)
      BY Zenon, <1>2, <3>3
         DEF HandlerStep, CreateReserve, CreateRejected, CreatePublish,
             CreateRollback, CloseBegin, CloseSnapshotThrows, CloseReopen,
             CloseFinalize, SettleQueued, SettleQueuedRecord, SettlePopped,
             SettlePoppedRecord, CancelRecord, SettleWait, SleepUntilTerminal,
             SubmitValidate, Find, ReadStatus, CancelJob, ReadResult,
             AcceptShutdown, Return, registryVars, mapVars, QueueInv
    <3> QED BY Zenon, <3>1, <3>2, <3>3
  <2> QED BY Zenon, <2>1, <2>2, <2>3, <2>4 DEF QueueInv
<1>3. ASSUME NEW h \in Handlers, SubmitPublish(h)
      PROVE  QueueInv'
  <2>1. CASE UNCHANGED <<jobs_, queue_, state, held>> BY Zenon, <2>1 DEF QueueInv
  <2>2. CASE /\ next_id_ # 0 /\ next_id_ \notin jobs_
             /\ jobs_' = jobs_ \cup {next_id_} /\ queue_' = queue_ \cup {next_id_}
             /\ state' = [state EXCEPT ![next_id_] = "Queued"]
             /\ UNCHANGED held
    <3>1. next_id_ \in JobIds /\ state[next_id_] = "Unborn"
      BY <2>2 DEF TypeOK, RegistryTypeOK, MapTypeOK, JobIds, IdentityInv
    <3>2. \A w \in Workers : held[w] # next_id_
      BY <3>1 DEF IdentityInv, JobIds, NoId
    <3> QED BY <2>2, <3>1, <3>2
            DEF QueueInv, TypeOK, RegistryTypeOK, RecordTypeOK
  <2> QED BY Zenon, <1>3, <2>1, <2>2
          DEF SubmitPublish, SubmitRefusal, Enqueue, EnqueueThrows, registryVars,
              recordVars, workerVars
<1>4. ASSUME NEW w \in Workers, WorkerStep(w) \/ Execute(w) \/ SpuriousWake(w)
      PROVE  QueueInv'
  <2>1. UNCHANGED jobs_ BY Zenon, <1>4, WorkerFrame
  <2>2. queue_' \subseteq queue_ BY Zenon, <1>4, WorkerHolds DEF TypeOK
  <2>3. \A j \in queue_ : state'[j] = state[j]
    BY Zenon, <1>4, WorkerRecords
       DEF QueueInv, TypeOK, ControlInv, RegistryTypeOK, MapTypeOK
  <2>4. \A v \in Workers : held'[v] \notin queue_'
    <3>1. CASE WorkerPop(w)
      BY Zenon, <3>1 DEF WorkerPop, QueueInv, TypeOK, RegistryTypeOK, WorkerTypeOK
    <3>2. CASE ~WorkerPop(w)
      <4>1. \A v \in Workers : held'[v] \in {held[v], NoId}
        BY Zenon, <1>4, <3>2
           DEF WorkerStep, WorkerSleep, WorkerExit, BeginExecute,
               CheckBeforeCompile, Compile, FinalPublication, FinishCancelled,
               FinishFailure, Fence, Fallback, Execute, SpuriousWake, Done,
               FailWith, workerVars, TypeOK, RegistryTypeOK, WorkerTypeOK
      <4>2. NoId \notin JobIds BY DEF JobIds, NoId
      <4>3. NoId \notin queue_ BY Zenon, <4>2 DEF TypeOK, RegistryTypeOK, MapTypeOK
      <4> QED BY Zenon, <2>2, <4>1, <4>3 DEF QueueInv
    <3> QED BY Zenon, <3>1, <3>2
  <2> QED BY Zenon, <2>1, <2>2, <2>3, <2>4 DEF QueueInv
<1>5. CASE \/ \E h \in Handlers, j \in JobIds : WakeSpuriously(h, j)
           \/ Stop \/ Clear \/ UNCHANGED vars
  BY Zenon, <1>5 DEF WakeSpuriously, Stop, StopRegistry, Clear, ClearRegistry, mapVars,
              recordVars, workerVars, registryVars, vars, QueueInv
<1> QED BY Zenon, <1>1, <1>2, <1>3, <1>4, <1>5 DEF Next

-----------------------------------------------------------------------------
(* Retention, and the theorems                                               *)

\* A handler step outside the settling of a close, which may drop terminal
\* records from the map and add Sessions.
LEMMA RetentionQuiet ==
  ASSUME TypeOK, RetentionInv, NEW h \in Handlers,
         UNCHANGED <<session_id, state, queued, running, stopping_>>,
         jobs_' \subseteq jobs_, \A j \in jobs_ \ jobs_' : ~Live(j),
         sessions \subseteq sessions',
         pc[h] # "settle", pc'[h] # "settle",
         queued[h] = {}, running[h] = {},
         \A g \in Handlers : g # h => pc'[g] = pc[g] /\ arg'[g] = arg[g]
  PROVE  RetentionInv'
<1>1. \A j \in jobs_' : session_id'[j] \in sessions' BY Zenon DEF RetentionInv
<1>2. \A g \in Handlers : pc'[g] = "settle" =>
         \A j \in jobs_' : session_id'[j] # arg'[g]
  BY DEF RetentionInv
<1>3. \A g \in Handlers : \A j \in queued'[g] \cup running'[g] :
         session_id'[j] = arg'[g] /\ j \notin jobs_'
  BY DEF RetentionInv
<1>4. \A j \in JobIds : Live(j)' => session_id'[j] \in sessions'
  BY Zenon DEF RetentionInv, Live
<1>5. ASSUME ~stopping_', NEW j \in JobIds, Live(j)', j \notin jobs_'
      PROVE  \E g \in Handlers : pc'[g] = "settle" /\ arg'[g] = session_id'[j]
                                 /\ j \in queued'[g] \cup running'[g]
  BY Zenon, <1>5 DEF RetentionInv, Live
<1> QED BY Zenon, <1>1, <1>2, <1>3, <1>4, <1>5 DEF RetentionInv

\* The detach of a close moves its Session's records from the map to the closing
\* handler and loses none.
LEMMA RetentionDetach ==
  ASSUME TypeOK, SessionInv, QueueInv, HandlerControlInv, RetentionInv,
         NEW h \in Handlers, CloseDetach(h)
  PROVE  RetentionInv'
<1>0. /\ jobs_ \subseteq JobIds /\ DOMAIN pc = Handlers
      /\ DOMAIN queued = Handlers /\ DOMAIN running = Handlers
  BY Zenon DEF TypeOK, RegistryTypeOK, MapTypeOK, DispatchTypeOK, CloseTypeOK
<1>1. /\ UNCHANGED <<session_id, state, stopping_, sessions, arg>>
      /\ jobs_' = jobs_ \ OfSession(arg[h])
      /\ pc[h] = "snapshot" /\ pc' = [pc EXCEPT ![h] = "settle"]
      /\ queued' = [queued EXCEPT ![h] = queue_ \cap OfSession(arg[h])]
      /\ running' = [running EXCEPT ![h] = (jobs_ \ queue_) \cap OfSession(arg[h])]
  BY Zenon DEF CloseDetach, DetachSession, Continue, Jump, sessionVars, recordVars
<1>2. queued'[h] \cup running'[h] = jobs_ \cap OfSession(arg[h])
  BY Zenon, <1>0, <1>1 DEF QueueInv
<1>3. /\ pc'[h] = "settle"
      /\ \A g \in Handlers : g # h => /\ pc'[g] = pc[g] /\ queued'[g] = queued[g]
                                     /\ running'[g] = running[g]
  BY Zenon, <1>0, <1>1
<1>4. \A j \in jobs_' : session_id'[j] \in sessions' BY Zenon, <1>1 DEF RetentionInv
<1>5. ASSUME NEW g \in Handlers, pc'[g] = "settle", NEW j \in jobs_'
      PROVE  session_id'[j] # arg'[g]
  <2>1. j \in jobs_ /\ j \in JobIds /\ session_id[j] # arg[h]
    BY Zenon, <1>0, <1>1 DEF OfSession
  <2>2. CASE g = h BY Zenon, <1>1, <2>1, <2>2
  <2>3. CASE g # h
    <3>1. pc[g] = "settle" BY Zenon, <1>3, <1>5, <2>3
    <3> QED BY Zenon, <1>1, <2>1, <3>1 DEF RetentionInv
  <2> QED BY Zenon, <2>2, <2>3
<1>6. ASSUME NEW g \in Handlers, NEW j \in queued'[g] \cup running'[g]
      PROVE  session_id'[j] = arg'[g] /\ j \notin jobs_'
  <2>1. CASE g = h BY Zenon, <1>1, <1>2, <2>1 DEF OfSession
  <2>2. CASE g # h
    <3>1. j \in queued[g] \cup running[g] BY Zenon, <1>3, <2>2
    <3> QED BY Zenon, <1>1, <3>1 DEF RetentionInv
  <2> QED BY Zenon, <2>1, <2>2
<1>7. \A j \in JobIds : Live(j)' => session_id'[j] \in sessions'
  BY Zenon, <1>1 DEF RetentionInv, Live
<1>8. ASSUME ~stopping_', NEW j \in JobIds, Live(j)', j \notin jobs_'
      PROVE  \E g \in Handlers : pc'[g] = "settle" /\ arg'[g] = session_id'[j]
                                 /\ j \in queued'[g] \cup running'[g]
  <2>1. CASE j \in jobs_
    <3>1. pc'[h] = "settle" /\ arg'[h] = session_id'[j] /\ j \in queued'[h] \cup running'[h]
      BY Zenon, <1>1, <1>2, <1>3, <1>8, <2>1 DEF OfSession
    <3> QED BY Zenon, <3>1
  <2>2. CASE j \notin jobs_
    <3>1. PICK g \in Handlers : pc[g] = "settle" /\ arg[g] = session_id[j]
                                /\ j \in queued[g] \cup running[g]
      BY Zenon, <1>1, <1>8, <2>2 DEF RetentionInv, Live
    <3>2. g # h BY Zenon, <1>1, <3>1
    <3> QED BY Zenon, <1>1, <1>3, <3>1, <3>2
  <2> QED BY Zenon, <2>1, <2>2
<1> QED BY Zenon, <1>4, <1>5, <1>6, <1>7, <1>8 DEF RetentionInv

\* The three passes of a close: what leaves its hands is terminal.
LEMMA RetentionSettle ==
  ASSUME TypeOK, RetentionInv, NEW h \in Handlers, pc[h] = "settle",
         UNCHANGED <<session_id, jobs_, sessions, stopping_, pc, arg>>,
         \A j \in JobIds : Live(j)' => Live(j),
         queued'[h] \cup running'[h] \subseteq queued[h] \cup running[h],
         \A j \in (queued[h] \cup running[h]) \ (queued'[h] \cup running'[h]) :
            ~Live(j)',
         \A g \in Handlers : g # h => /\ queued'[g] = queued[g]
                                     /\ running'[g] = running[g]
  PROVE  RetentionInv'
<1>1. \A j \in jobs_' : session_id'[j] \in sessions' BY Zenon DEF RetentionInv
<1>2. \A g \in Handlers : pc'[g] = "settle" =>
         \A j \in jobs_' : session_id'[j] # arg'[g]
  BY Zenon DEF RetentionInv
<1>3. \A g \in Handlers : \A j \in queued'[g] \cup running'[g] :
         session_id'[j] = arg'[g] /\ j \notin jobs_'
  BY Zenon DEF RetentionInv
<1>4. \A j \in JobIds : Live(j)' => session_id'[j] \in sessions'
  BY Zenon DEF RetentionInv
<1>5. ASSUME ~stopping_', NEW j \in JobIds, Live(j)', j \notin jobs_'
      PROVE  \E g \in Handlers : pc'[g] = "settle" /\ arg'[g] = session_id'[j]
                                 /\ j \in queued'[g] \cup running'[g]
  <2>1. PICK g \in Handlers : pc[g] = "settle" /\ arg[g] = session_id[j]
                              /\ j \in queued[g] \cup running[g]
    BY Zenon, <1>5 DEF RetentionInv
  <2>2. j \in queued'[g] \cup running'[g]
    <3>1. CASE g = h BY Zenon, <1>5, <2>1, <3>1
    <3>2. CASE g # h BY Zenon, <2>1, <3>2
    <3> QED BY Zenon, <3>1, <3>2
  <2> QED BY Zenon, <2>1, <2>2
<1> QED BY Zenon, <1>1, <1>2, <1>3, <1>4, <1>5 DEF RetentionInv

\* Erasing the Session of a close that has nothing left in its hands.
LEMMA RetentionFinalize ==
  ASSUME TypeOK, SessionInv, HandlerControlInv, RetentionInv, NEW h \in Handlers,
         CloseFinalize(h)
  PROVE  RetentionInv'
<1>1. /\ UNCHANGED <<session_id, state, jobs_, stopping_, queued, running>>
      /\ sessions' = sessions \ {arg[h]}
      /\ pc[h] = "settle" /\ queued[h] = {} /\ running[h] = {}
      /\ pc'[h] = "reply"
      /\ \A g \in Handlers : g # h => pc'[g] = pc[g] /\ arg'[g] = arg[g]
  BY Zenon DEF CloseFinalize, Leave, Jump, registryVars, closeVars, TypeOK,
         DispatchTypeOK
<1>2. ~stopping_ BY Zenon, <1>1 DEF HandlerControlInv
<1>3. \A j \in jobs_ : session_id[j] # arg[h] BY Zenon, <1>1 DEF RetentionInv
<1>4. \A j \in JobIds : Live(j) => session_id[j] # arg[h]
  <2> SUFFICES ASSUME NEW j \in JobIds, Live(j), session_id[j] = arg[h]
               PROVE  FALSE
    BY Zenon
  <2>1. j \notin jobs_ BY Zenon, <1>3
  <2>2. PICK g \in Handlers : pc[g] = "settle" /\ arg[g] = session_id[j]
                              /\ j \in queued[g] \cup running[g]
    BY Zenon, <1>2, <2>1 DEF RetentionInv
  <2>3. g = h BY Zenon, <1>1, <2>2 DEF SessionInv, Closing
  <2> QED BY Zenon, <1>1, <2>2, <2>3
<1>5. \A j \in jobs_' : session_id'[j] \in sessions' BY Zenon, <1>1, <1>3 DEF RetentionInv
<1>6. ASSUME NEW g \in Handlers, pc'[g] = "settle", NEW j \in jobs_'
      PROVE  session_id'[j] # arg'[g]
  <2>1. pc[g] = "settle" /\ arg'[g] = arg[g] BY Zenon, <1>1, <1>6
  <2> QED BY <1>1, <2>1 DEF RetentionInv
<1>7. ASSUME NEW g \in Handlers, NEW j \in queued'[g] \cup running'[g]
      PROVE  session_id'[j] = arg'[g] /\ j \notin jobs_'
  <2>1. g # h /\ j \in queued[g] \cup running[g] BY Zenon, <1>1
  <2>2. arg'[g] = arg[g] BY Zenon, <1>1, <2>1
  <2> QED BY Zenon, <1>1, <2>1, <2>2 DEF RetentionInv
<1>8. \A j \in JobIds : Live(j)' => session_id'[j] \in sessions'
  BY Zenon, <1>1, <1>4 DEF RetentionInv, Live
<1>9. ASSUME ~stopping_', NEW j \in JobIds, Live(j)', j \notin jobs_'
      PROVE  \E g \in Handlers : pc'[g] = "settle" /\ arg'[g] = session_id'[j]
                                 /\ j \in queued'[g] \cup running'[g]
  <2>1. PICK g \in Handlers : pc[g] = "settle" /\ arg[g] = session_id[j]
                              /\ j \in queued[g] \cup running[g]
    BY Zenon, <1>1, <1>9 DEF RetentionInv, Live
  <2>2. g # h BY Zenon, <1>1, <2>1
  <2> QED BY Zenon, <1>1, <2>1, <2>2
<1> QED BY Zenon, <1>5, <1>6, <1>7, <1>8, <1>9 DEF RetentionInv

\* Admission: the new record is retained and its Session is open.
LEMMA RetentionPublish ==
  ASSUME TypeOK, SessionInv, HandlerControlInv, IdentityInv, RetentionInv,
         NEW h \in Handlers, SubmitPublish(h)
  PROVE  RetentionInv'
<1>0. /\ UNCHANGED <<stopping_, sessions, queued, running>>
      /\ pc[h] = "enqueue"
  BY Zenon DEF SubmitPublish, Enqueue, EnqueueThrows, registryVars, sessionVars,
         closeVars
<1>1. /\ UNCHANGED <<stopping_, sessions, queued, running>>
      /\ pc[h] = "enqueue" /\ pc'[h] = "reply"
      /\ \A g \in Handlers : g # h => pc'[g] = pc[g] /\ arg'[g] = arg[g]
      /\ queued[h] = {} /\ running[h] = {}
  <2>1. \E r : Leave(h, r) BY Zenon DEF SubmitPublish, Respond, Refuse
  <2>2. /\ pc'[h] = "reply"
        /\ \A g \in Handlers : g # h => pc'[g] = pc[g] /\ arg'[g] = arg[g]
    BY Zenon, <2>1 DEF Leave, Jump, TypeOK, DispatchTypeOK
  <2> QED BY Zenon, <1>0, <2>2 DEF HandlerControlInv
<1>2. CASE UNCHANGED <<jobs_, session_id, state>>
  BY Zenon, <1>1, <1>2, RetentionQuiet
<1>3. CASE /\ next_id_ # 0 /\ jobs_' = jobs_ \cup {next_id_}
           /\ session_id' = [session_id EXCEPT ![next_id_] = arg[h]]
           /\ state' = [state EXCEPT ![next_id_] = "Queued"]
  <2>1. next_id_ \in JobIds /\ state[next_id_] = "Unborn"
    <3>1. next_id_ \in JobIds BY <1>3 DEF TypeOK, RegistryTypeOK, MapTypeOK, JobIds
    <3>2. next_id_ >= next_id_ BY <3>1 DEF JobIds
    <3> QED BY Zenon, <1>3, <3>1, <3>2 DEF IdentityInv
  <2>2. arg[h] \in sessions \ closing BY Zenon, <1>1 DEF SessionInv
  <2>3. \A j \in JobIds : j # next_id_ => /\ session_id'[j] = session_id[j]
                                          /\ state'[j] = state[j]
    BY Zenon, <1>3 DEF TypeOK, RegistryTypeOK, RecordTypeOK
  <2>4. session_id'[next_id_] = arg[h]
    BY Zenon, <1>3, <2>1 DEF TypeOK, RegistryTypeOK, RecordTypeOK
  <2>5. \A g \in Handlers : next_id_ \notin queued[g] \cup running[g]
    BY Zenon, <2>1 DEF IdentityInv
  <2>6. jobs_ \subseteq JobIds /\ \A g \in Handlers :
           queued[g] \cup running[g] \subseteq JobIds
    BY Zenon DEF TypeOK, RegistryTypeOK, MapTypeOK, CloseTypeOK
  <2>7. ASSUME NEW j \in jobs_' PROVE session_id'[j] \in sessions'
    <3>1. CASE j = next_id_ BY Zenon, <1>1, <2>2, <2>4, <3>1
    <3>2. CASE j # next_id_
      <4>1. j \in jobs_ /\ session_id'[j] = session_id[j]
        BY Zenon, <1>3, <2>3, <2>6, <3>2
      <4> QED BY Zenon, <1>1, <4>1 DEF RetentionInv
    <3> QED BY Zenon, <3>1, <3>2
  <2>8. \A g \in Handlers : pc'[g] = "settle" =>
           \A j \in jobs_' : session_id'[j] # arg'[g]
    <3> SUFFICES ASSUME NEW g \in Handlers, pc'[g] = "settle", NEW j \in jobs_'
                 PROVE  session_id'[j] # arg'[g]
      BY Zenon
    <3>1. g # h /\ pc[g] = "settle" /\ arg'[g] = arg[g] BY Zenon, <1>1
    <3>2. arg[g] \in closing BY Zenon, <3>1 DEF SessionInv, Closing
    <3>3. CASE j = next_id_ BY Zenon, <2>2, <2>4, <3>1, <3>2, <3>3
    <3>4. CASE j # next_id_
      <4>1. j \in jobs_ /\ session_id'[j] = session_id[j]
        BY Zenon, <1>3, <2>3, <2>6, <3>4
      <4> QED BY Zenon, <3>1, <4>1 DEF RetentionInv
    <3> QED BY Zenon, <3>3, <3>4
  <2>9. ASSUME NEW g \in Handlers, NEW j \in queued'[g] \cup running'[g]
        PROVE  session_id'[j] = arg'[g] /\ j \notin jobs_'
    <3>1. g # h /\ j \in queued[g] \cup running[g] /\ arg'[g] = arg[g] BY Zenon, <1>1
    <3>2. j # next_id_ /\ session_id'[j] = session_id[j]
      BY Zenon, <2>3, <2>5, <2>6, <3>1
    <3> QED BY Zenon, <1>3, <3>1, <3>2 DEF RetentionInv
  <2>10. \A j \in JobIds : Live(j)' => session_id'[j] \in sessions'
    BY Zenon, <1>1, <2>2, <2>3, <2>4 DEF RetentionInv, Live
  <2>11. ASSUME ~stopping_', NEW j \in JobIds, Live(j)', j \notin jobs_'
         PROVE  \E g \in Handlers : pc'[g] = "settle" /\ arg'[g] = session_id'[j]
                                    /\ j \in queued'[g] \cup running'[g]
    <3>1. j # next_id_ BY Zenon, <1>3, <2>11
    <3>2. PICK g \in Handlers : pc[g] = "settle" /\ arg[g] = session_id[j]
                                /\ j \in queued[g] \cup running[g]
      BY Zenon, <1>1, <1>3, <2>3, <2>11, <3>1 DEF RetentionInv, Live
    <3>3. g # h BY Zenon, <1>1, <3>2
    <3> QED BY Zenon, <1>1, <2>3, <3>1, <3>2, <3>3
  <2> QED BY Zenon, <2>7, <2>8, <2>9, <2>10, <2>11 DEF RetentionInv
<1> QED BY Zenon, <1>2, <1>3
        DEF SubmitPublish, SubmitRefusal, Enqueue, EnqueueThrows, registryVars,
            recordVars

\* Handler steps keep RetentionInv.
LEMMA RetentionHandlerStep ==
  ASSUME TypeOK, SessionInv, HandlerControlInv, IdentityInv, QueueInv,
         RetentionInv, NEW h \in Handlers, HandlerStep(h)
  PROVE  RetentionInv'
<1>1. CASE CloseDetach(h) BY Zenon, <1>1, RetentionDetach
<1>2. CASE CloseFinalize(h) BY Zenon, <1>2, RetentionFinalize
<1>3. CASE SubmitPublish(h) BY Zenon, <1>3, RetentionPublish
<1>4. \A g \in Handlers : g # h =>
         /\ pc'[g] = pc[g] /\ arg'[g] = arg[g]
         /\ queued'[g] = queued[g] /\ running'[g] = running[g]
  BY Zenon, HandlerLeavesOthers
<1>5. CASE SettleQueued(h) \/ SettlePopped(h) \/ SettleWait(h)
  <2>1. /\ pc[h] = "settle"
        /\ UNCHANGED <<session_id, jobs_, sessions, stopping_, pc, arg>>
    BY Zenon, <1>5 DEF SettleQueued, SettleQueuedRecord, SettlePopped,
                SettlePoppedRecord, CancelRecord, SettleWait, SleepUntilTerminal,
                mapVars, registryVars, sessionVars, dispatchVars
  <2>2. \A j \in JobIds : Live(j)' => Live(j)
    <3>1. ~SubmitPublish(h) BY Zenon, <2>1 DEF SubmitPublish
    <3> QED BY Zenon, <3>1, HandlerRecords
  <2>3. queued'[h] \cup running'[h] \subseteq queued[h] \cup running[h]
    <3> USE DEF TypeOK, CloseTypeOK
    <3>1. CASE SettleQueued(h) BY Zenon, <3>1 DEF SettleQueued
    <3>2. CASE SettlePopped(h) BY Zenon, <3>2 DEF SettlePopped
    <3>3. CASE SettleWait(h) BY ZenonT(60), <3>3 DEF SettleWait
    <3> QED BY Zenon, <1>5, <3>1, <3>2, <3>3
  <2>4. \A j \in (queued[h] \cup running[h]) \ (queued'[h] \cup running'[h]) :
           ~Live(j)'
    <3>1. CASE SettleQueued(h)
      <4>1. PICK i \in queued[h] : /\ SettleQueuedRecord(i)
                                   /\ queued' = [queued EXCEPT ![h] = @ \ {i}]
                                   /\ running' = running
        BY Zenon, <3>1 DEF SettleQueued
      <4>2. i \in JobIds /\ queued'[h] = queued[h] \ {i}
        BY Zenon, <4>1 DEF TypeOK, CloseTypeOK
      <4>3. state'[i] = "Cancelled"
        BY Zenon, <4>1, <4>2 DEF SettleQueuedRecord, Publish, TypeOK, RegistryTypeOK,
                          RecordTypeOK
      <4> QED BY Zenon, <4>1, <4>2, <4>3 DEF Live
    <3>2. CASE SettlePopped(h) BY Zenon, <3>2 DEF SettlePopped
    <3>3. CASE SettleWait(h)
      <4> SUFFICES ASSUME NEW j \in queued[h] \cup running[h],
                          j \notin queued'[h] \cup running'[h]
                   PROVE  ~Live(j)'
        BY Zenon
      <4>1. UNCHANGED <<queued, state>>
        BY Zenon, <3>3 DEF SettleWait, SleepUntilTerminal, registryVars
      <4>2. PICK i \in running[h] : IF terminal(state[i])
                                    THEN running' = [running EXCEPT ![h] = @ \ {i}]
                                    ELSE UNCHANGED running
        BY Zenon, <3>3 DEF SettleWait
      <4>3. terminal(state[i]) /\ j = i
        BY Zenon, <4>1, <4>2 DEF TypeOK, CloseTypeOK
      <4> QED BY Zenon, <4>1, <4>3 DEF terminal, Live
    <3> QED BY Zenon, <1>5, <3>1, <3>2, <3>3
  <2> QED BY Zenon, <1>4, <2>1, <2>2, <2>3, <2>4, RetentionSettle
<1>6. ASSUME ~(\/ CloseDetach(h) \/ CloseFinalize(h) \/ SubmitPublish(h)
               \/ SettleQueued(h) \/ SettlePopped(h) \/ SettleWait(h))
      PROVE  RetentionInv'
  <2>1. /\ UNCHANGED <<session_id, state, queued, running, stopping_>>
        /\ jobs_' \subseteq jobs_
        /\ sessions \subseteq sessions'
    BY Zenon, <1>6 DEF HandlerStep, CreateReserve, CreateRejected, CreatePublish,
                CreateRollback, CloseBegin, CloseSnapshotThrows, CloseReopen,
                SubmitValidate, Find, ReadStatus, CancelJob, CancelRecord,
                ReadResult, ReleaseJob, Release, AcceptShutdown, Return,
                registryVars, mapVars, recordVars, sessionVars, closeVars
  <2>2. pc[h] # "settle" /\ pc'[h] # "settle"
    BY Zenon, <1>6 DEF HandlerStep, CreateReserve, CreateRejected, CreatePublish,
                CreateRollback, CloseBegin, CloseSnapshotThrows, CloseReopen,
                SubmitValidate, Find, ReadStatus, CancelJob, ReadResult,
                ReleaseJob, AcceptShutdown, Return, Calls, Continue, Respond, Refuse,
                Leave, Jump, TypeOK, DispatchTypeOK
  <2>3. \A j \in jobs_ \ jobs_' : ~Live(j)
    <3>1. CASE ReleaseJob(h)
      BY Zenon, <3>1 DEF ReleaseJob, Release, ReleaseCode, terminal, Live
    <3>2. CASE ~ReleaseJob(h)
      BY Zenon, <1>6, <3>2
         DEF HandlerStep, CreateReserve, CreateRejected, CreatePublish,
             CreateRollback, CloseBegin, CloseSnapshotThrows, CloseReopen,
             SubmitValidate, Find, ReadStatus, CancelJob, CancelRecord,
             ReadResult, AcceptShutdown, Return, registryVars, mapVars
    <3> QED BY Zenon, <3>1, <3>2
  <2>4. queued[h] = {} /\ running[h] = {} BY Zenon, <2>2 DEF HandlerControlInv
  <2> QED BY Zenon, <1>4, <2>1, <2>2, <2>3, <2>4, RetentionQuiet
<1> QED BY Zenon, <1>1, <1>2, <1>3, <1>5, <1>6

\* Every step keeps RetentionInv.
LEMMA RetentionStep ==
  ASSUME LifecycleInv, [Next]_vars
  PROVE  RetentionInv'
<1> USE DEF LifecycleInv
<1>1. ASSUME NEW h \in Handlers, NEW m \in Requests, NEW i \in Args(m), Begin(h, m, i)
      PROVE  RetentionInv'
  <2>1. /\ UNCHANGED <<session_id, state, queued, running, stopping_, jobs_, sessions>>
        /\ pc[h] # "settle" /\ pc'[h] # "settle"
        /\ \A g \in Handlers : g # h => pc'[g] = pc[g] /\ arg'[g] = arg[g]
    BY Zenon, <1>1 DEF Begin, Leave, Jump, registryVars, sessionVars, closeVars, TypeOK,
                DispatchTypeOK
  <2>2. queued[h] = {} /\ running[h] = {}
    BY Zenon, <2>1 DEF ControlInv, HandlerControlInv
  <2> QED BY Zenon, <2>1, <2>2, RetentionQuiet
<1>2. ASSUME NEW h \in Handlers, HandlerStep(h)
      PROVE  RetentionInv'
  BY Zenon, <1>2, RetentionHandlerStep DEF ControlInv
<1>3. ASSUME NEW w \in Workers, WorkerStep(w) \/ Execute(w) \/ SpuriousWake(w),
             UNCHANGED serviceVars
      PROVE  RetentionInv'
  <2>1. UNCHANGED <<jobs_, stopping_, session_id>> BY Zenon, <1>3, WorkerFrame
  <2>2. \A j \in JobIds : Live(j)' => Live(j)
    BY Zenon, <1>3, WorkerRecords DEF TypeOK, ControlInv
  <2> QED BY Zenon, <1>3, <2>1, <2>2 DEF RetentionInv, serviceVars
<1>4. CASE /\ \E h \in Handlers, j \in JobIds : WakeSpuriously(h, j)
           /\ UNCHANGED serviceVars
  <2>1. /\ UNCHANGED <<jobs_, stopping_, session_id, state, sessions>>
        /\ UNCHANGED <<pc, arg, queued, running>>
    BY Zenon, <1>4 DEF WakeSpuriously, mapVars, serviceVars
  <2> QED BY Zenon, <2>1 DEF RetentionInv, Live
<1>5. CASE Stop BY Zenon, <1>5 DEF Stop, StopRegistry, RetentionInv, Live, serviceVars
<1>6. CASE Clear
  BY Zenon, <1>6 DEF Clear, ClearRegistry, RetentionInv, Live, serviceVars, recordVars
<1>7. CASE UNCHANGED vars
  BY Zenon, <1>7 DEF vars, registryVars, serviceVars, RetentionInv, Live
<1> QED BY Zenon, <1>1, <1>2, <1>3, <1>4, <1>5, <1>6, <1>7 DEF Next

\* The empty registries of the constructors satisfy the invariant.
LEMMA LifecycleInit ==
  ASSUME Init
  PROVE  LifecycleInv
<1> USE DEF Init, RegistryInit
<1>1. RegistryTypeOK
  <2>1. MapTypeOK
    <3>1. next_id_ = 1 /\ stopping_ = FALSE /\ jobs_ = {} /\ queue_ = {} /\ ready_ = {}
      BY Zenon
    <3>2. next_id_ \in 0..(JobIdSpan - 1) BY <3>1
    <3> HIDE DEF Init, RegistryInit
    <3> QED BY Zenon, <3>1, <3>2 DEF MapTypeOK
  <2>2. RecordTypeOK
    <3>1. session_id \in [JobIds -> Nat] BY Zenon DEF NoId
    <3>2. state \in [JobIds -> States] BY Zenon DEF States
    <3>3. outcome \in [JobIds -> Codes] BY Zenon DEF Codes
    <3>4. result \in [JobIds -> BOOLEAN] /\ cancellation \in [JobIds -> BOOLEAN]
      BY Zenon
    <3>5. terminal_changed \in [JobIds -> SUBSET Handlers] BY Zenon
    <3> QED BY Zenon, <3>1, <3>2, <3>3, <3>4, <3>5 DEF RecordTypeOK
  <2>3. WorkerTypeOK BY Zenon DEF WorkerTypeOK, WorkerStates, Codes
  <2> QED BY Zenon, <2>1, <2>2, <2>3 DEF RegistryTypeOK
<1>2. SessionTypeOK /\ CloseTypeOK
  <2>1. SessionTypeOK BY DEF SessionTypeOK
  <2>2. CloseTypeOK BY Zenon DEF CloseTypeOK
  <2> QED BY Zenon, <2>1, <2>2
<1>3. DispatchTypeOK
  <2>1. Answer("Ok") \in Replies BY Zenon, AnswerType DEF Codes
  <2> QED BY Zenon, <2>1 DEF DispatchTypeOK, Labels, Methods
<1>4. ControlInv
  <2>1. WorkerControlInv BY Zenon DEF WorkerControlInv
  <2>2. HandlerControlInv BY Zenon DEF HandlerControlInv
  <2> QED BY Zenon, <2>1, <2>2 DEF ControlInv
<1>5. SessionInv BY Zenon DEF SessionInv, Closing
<1>6. IdentityInv BY DEF IdentityInv, NoId
<1>7. QueueInv /\ RetentionInv BY Zenon DEF QueueInv, RetentionInv, Live
<1> QED BY Zenon, <1>1, <1>2, <1>3, <1>4, <1>5, <1>6, <1>7 DEF LifecycleInv, TypeOK

\* The invariant is inductive.
LEMMA LifecycleStep ==
  ASSUME LifecycleInv, [Next]_vars
  PROVE  LifecycleInv'
<1>1. queue_ \subseteq jobs_ BY Zenon DEF LifecycleInv, QueueInv
<1> QED BY Zenon, <1>1, TypeStep, ControlStep, SessionStep, IdentityStep, QueueStep,
           RetentionStep DEF LifecycleInv

\* The lifecycle invariant of Session map, lifecycle lock, ids, queue and
\* retained records holds throughout, for any threads, ids and capacities.
THEOREM LifecycleInvariant == Spec => []LifecycleInv
<1>1. Init => LifecycleInv BY Zenon, LifecycleInit
<1>2. LifecycleInv /\ [Next]_vars => LifecycleInv' BY Zenon, LifecycleStep
<1> QED BY <1>1, <1>2, PTL DEF Spec

\* Every variable keeps its type, whatever the number of threads, ids and
\* capacities (JobRegistry and Service::Impl).
THEOREM TypeCorrect == Spec => []TypeOK
<1>1. LifecycleInv => TypeOK BY Zenon DEF LifecycleInv
<1> QED BY <1>1, LifecycleInvariant, PTL

\* Once close_session has erased a Session, no execution admitted to it is
\* Queued or Running any more.
THEOREM WorkEndsWithItsSession == Spec => []NoWorkOutlivesItsSession
<1>1. LifecycleInv => NoWorkOutlivesItsSession
  BY Zenon DEF LifecycleInv, RetentionInv, NoWorkOutlivesItsSession
<1> QED BY <1>1, LifecycleInvariant, PTL

\* A retained record always has its Session, and a close leaves none behind.
THEOREM RecordsEndWithTheirSession == Spec => []NoRecordOutlivesItsSession
<1>1. LifecycleInv => NoRecordOutlivesItsSession
  BY Zenon DEF LifecycleInv, RetentionInv, NoRecordOutlivesItsSession
<1> QED BY <1>1, LifecycleInvariant, PTL

\* No id is given twice: a new record takes an id no record had, a new Session
\* one under which nothing was ever submitted.
THEOREM IdsAreNeverReused == Spec => FreshIdentity
<1>1. ASSUME LifecycleInv, [Next]_vars
      PROVE  /\ \A j \in jobs_' \ jobs_ : state[j] = "Unborn"
             /\ \A s \in sessions' \ sessions : \A j \in JobIds : session_id[j] # s
  <2> USE DEF LifecycleInv
  <2>1. ASSUME NEW h \in Handlers, SubmitPublish(h), NEW j \in jobs_' \ jobs_
        PROVE  state[j] = "Unborn"
    <3>1. j = next_id_ /\ next_id_ # 0
      BY Zenon, <2>1
         DEF SubmitPublish, SubmitRefusal, Enqueue, EnqueueThrows, registryVars
    <3>2. j \in JobIds /\ j >= next_id_
      BY <1>1, <3>1 DEF TypeOK, RegistryTypeOK, MapTypeOK, JobIds
    <3> QED BY Zenon, <1>1, <3>1, <3>2 DEF IdentityInv
  <2>2. ASSUME NEW h \in Handlers, CreatePublish(h), NEW s \in sessions' \ sessions,
               NEW j \in JobIds
        PROVE  session_id[j] # s
    <3>1. s = next_session_id /\ next_session_id # 0
      BY Zenon, <2>2 DEF CreatePublish, sessionVars
    <3>2. session_id[j] < next_session_id BY Zenon, <1>1, <3>1 DEF IdentityInv
    <3>3. session_id[j] \in Nat /\ next_session_id \in Nat
      BY <1>1 DEF TypeOK, RegistryTypeOK, RecordTypeOK, SessionTypeOK
    <3> QED BY <3>1, <3>2, <3>3
  <2>3. ASSUME NEW h \in Handlers, HandlerStep(h)
        PROVE  /\ ~SubmitPublish(h) => jobs_' \subseteq jobs_
               /\ ~CreatePublish(h) => sessions' \subseteq sessions
    <3>1. 1 \in JobIds BY DEF JobIds
    <3> QED BY Zenon, <1>1, <2>3, <3>1, HandlerRecords, HandlerSessions
  <2>4. ASSUME NEW w \in Workers, WorkerStep(w) \/ Execute(w) \/ SpuriousWake(w),
               UNCHANGED serviceVars
        PROVE  UNCHANGED <<jobs_, sessions>>
    BY Zenon, <2>4, WorkerFrame DEF serviceVars
  <2>5. CASE UNCHANGED <<jobs_, sessions>> BY Zenon, <2>5
  <2>6. CASE jobs_' = {} /\ UNCHANGED sessions BY Zenon, <2>6
  <2>7. CASE \E h \in Handlers : HandlerStep(h) BY Zenon, <2>1, <2>2, <2>3, <2>7
  <2> QED BY Zenon, <1>1, <2>4, <2>5, <2>6, <2>7
          DEF Next, vars, registryVars, serviceVars, mapVars, Begin, sessionVars,
              WakeSpuriously, Stop, StopRegistry, Clear, ClearRegistry
<1>2. LifecycleInv /\ [Next]_vars =>
        [/\ \A j \in jobs_' \ jobs_ : state[j] = "Unborn"
         /\ \A s \in sessions' \ sessions : \A j \in JobIds : session_id[j] # s]_vars
  BY Zenon, <1>1
<1> QED BY <1>2, LifecycleInvariant, PTL DEF Spec, FreshIdentity

-----------------------------------------------------------------------------
(* Capacity.  The counter of reservations equals the number of creates in    *)
(* progress, so none is released that was not taken.                         *)

\* The maps are finite, since the ids are.
LEMMA FiniteMaps ==
  ASSUME TypeOK
  PROVE  /\ IsFiniteSet(sessions) /\ Cardinality(sessions) \in Nat
         /\ IsFiniteSet(jobs_) /\ Cardinality(jobs_) \in Nat
         /\ pending_session_creates \in Nat
<1>1. IsFiniteSet(SessionIds) /\ IsFiniteSet(JobIds)
  <2>1. SessionIdSpan - 1 \in Int /\ JobIdSpan - 1 \in Int /\ 1 \in Int OBVIOUS
  <2> QED BY Zenon, <2>1, FS_Interval DEF SessionIds, JobIds
<1>2. /\ sessions \in SUBSET SessionIds /\ jobs_ \in SUBSET JobIds
      /\ pending_session_creates \in Nat
  BY Zenon DEF TypeOK, SessionTypeOK, RegistryTypeOK, MapTypeOK
<1> QED BY Zenon, <1>1, <1>2, FS_Subset, FS_CardinalityType

\* One more element makes a set larger by at most one.
LEMMA CardinalityAdd ==
  ASSUME NEW S, NEW x, IsFiniteSet(S)
  PROVE  /\ Cardinality(S \cup {x}) \in Nat
         /\ Cardinality(S \cup {x}) <= Cardinality(S) + 1
<1>1. IsFiniteSet(S \cup {x}) BY Zenon, FS_AddElement
<1>2. Cardinality(S) \in Nat /\ Cardinality(S \cup {x}) \in Nat
  BY Zenon, <1>1, FS_CardinalityType
<1>3. Cardinality(S \cup {x}) \in {Cardinality(S), Cardinality(S) + 1}
  BY Zenon, FS_AddElement
<1> QED BY <1>2, <1>3

\* Smaller maps and the same creates in progress keep within the capacities.
LEMMA CapacityKept ==
  ASSUME TypeOK, CapacityRespected, sessions' \subseteq sessions,
         jobs_' \subseteq jobs_, UNCHANGED pending_session_creates,
         \A h \in Handlers : Reserving(h)' <=> Reserving(h)
  PROVE  CapacityRespected'
<1>1. /\ Cardinality(sessions') \in Nat /\ Cardinality(sessions') <= Cardinality(sessions)
      /\ Cardinality(jobs_') \in Nat /\ Cardinality(jobs_') <= Cardinality(jobs_)
  BY Zenon, FiniteMaps, FS_Subset, FS_CardinalityType
<1>2. {h \in Handlers : pc'[h] \in {"compile", "rollback"}} =
        {h \in Handlers : pc[h] \in {"compile", "rollback"}}
  BY Zenon DEF Reserving
<1>3. /\ pending_session_creates \in Nat
      /\ Cardinality(sessions) \in Nat /\ Cardinality(jobs_) \in Nat
  BY Zenon, FiniteMaps
<1>4. Cardinality(sessions') + pending_session_creates' <= maximum_sessions
  <2>1. maximum_sessions \in Nat BY Zenon DEF ServiceAssumption
  <2>2. Cardinality(sessions) + pending_session_creates <= maximum_sessions
    BY Zenon DEF CapacityRespected
  <2> QED BY <1>1, <1>3, <2>1, <2>2
<1>5. pending_session_creates' =
        Cardinality({h \in Handlers : pc'[h] \in {"compile", "rollback"}})
  BY Zenon, <1>2 DEF CapacityRespected
<1>6. Cardinality(jobs_') <= maximum_jobs_
  <2>1. maximum_jobs_ \in Nat BY Zenon DEF RegistryAssumption
  <2>2. Cardinality(jobs_) <= maximum_jobs_ BY Zenon DEF CapacityRespected
  <2> QED BY <1>1, <1>3, <2>1, <2>2
<1> QED BY Zenon, <1>4, <1>5, <1>6 DEF CapacityRespected

\* A create that leaves gives back the reservation it holds: the destructor
\* finds one, and the terminate is not reached.
LEMMA ReservationReleased ==
  ASSUME TypeOK, CapacityRespected, NeverTerminates, NEW h \in Handlers,
         Reserving(h), ReleaseReservation, Jump(h, "reply")
  PROVE  /\ pending_session_creates > 0 /\ NeverTerminates'
         /\ pending_session_creates' = pending_session_creates - 1
         /\ pending_session_creates' =
              Cardinality({g \in Handlers : pc'[g] \in {"compile", "rollback"}})
<1> DEFINE R == {g \in Handlers : pc[g] \in {"compile", "rollback"}}
           Q == {g \in Handlers : pc'[g] \in {"compile", "rollback"}}
<1>1. Q = R \ {h} BY Zenon DEF Jump, TypeOK, DispatchTypeOK
<1>2. h \in R /\ pending_session_creates = Cardinality(R)
  BY Zenon DEF Reserving, CapacityRespected
<1>3. IsFiniteSet(R)
  <2>1. R \in SUBSET Handlers /\ IsFiniteSet(Handlers) BY Zenon
  <2> QED BY Zenon, <2>1, FS_Subset
<1>4. /\ Cardinality(R) \in Nat /\ Cardinality(R) # 0
      /\ Cardinality(Q) = Cardinality(R) - 1
  <2> HIDE DEF R, Q
  <2>1. Cardinality(R) \in Nat BY Zenon, <1>3, FS_CardinalityType
  <2>2. Cardinality(R) # 0 BY Zenon, <1>2, <1>3, FS_EmptySet
  <2>3. Cardinality(Q) = Cardinality(R) - 1 BY Zenon, <1>1, <1>2, <1>3, FS_RemoveElement
  <2> QED BY Zenon, <2>1, <2>2, <2>3
<1> HIDE DEF R
<1>5. /\ pending_session_creates > 0
      /\ pending_session_creates' = pending_session_creates - 1
  BY <1>2, <1>4 DEF ReleaseReservation
<1>6. NeverTerminates'
  BY Zenon, <1>2, <1>4 DEF ReleaseReservation, NeverTerminates
<1> QED BY Zenon, <1>2, <1>4, <1>5, <1>6

\* Other handler steps neither take nor give back a reservation.
LEMMA HandlerReservations ==
  ASSUME TypeOK, NEW h \in Handlers, HandlerStep(h), ~CreateReserve(h),
         ~CreateRejected(h), ~CreatePublish(h), ~CreateRollback(h)
  PROVE  /\ UNCHANGED pending_session_creates
         /\ ~CloseFinalize(h) => UNCHANGED terminated
         /\ ~Reserving(h) /\ ~Reserving(h)'
<1>1. UNCHANGED pending_session_creates /\ (~CloseFinalize(h) => UNCHANGED terminated)
  BY Zenon DEF HandlerStep, CloseBegin, CloseDetach, CloseSnapshotThrows, CloseReopen,
         SettleQueued, SettlePopped, SettleWait, CloseFinalize, SubmitValidate,
         SubmitPublish, Find, ReadStatus, CancelJob, ReadResult, ReleaseJob,
         AcceptShutdown, Return, sessionVars, dispatchVars, Continue, Respond, Refuse
<1>2. pc[h] \in {"call", "snapshot", "reopen", "settle", "enqueue", "found", "reply"}
  BY Zenon DEF HandlerStep, CloseBegin, CloseDetach, CloseSnapshotThrows, CloseReopen,
         SettleQueued, SettlePopped, SettleWait, CloseFinalize, SubmitValidate,
         SubmitPublish, Find, ReadStatus, CancelJob, ReadResult, ReleaseJob,
         AcceptShutdown, Return, Calls
<1>3. \/ UNCHANGED pc
      \/ \E l \in {"snapshot", "reopen", "settle", "enqueue", "found", "reply", "idle"} :
           Jump(h, l)
  BY Zenon DEF HandlerStep, CloseBegin, CloseDetach, CloseSnapshotThrows, CloseReopen,
         SettleQueued, SettlePopped, SettleWait, CloseFinalize, SubmitValidate,
         SubmitPublish, Find, ReadStatus, CancelJob, ReadResult, ReleaseJob,
         AcceptShutdown, Return, dispatchVars, Continue, Respond, Refuse, Leave
<1>4. ~Reserving(h) BY Zenon, <1>2 DEF Reserving
<1>5. ~Reserving(h)'
  BY Zenon, <1>3, <1>4 DEF Reserving, Jump, TypeOK, DispatchTypeOK
<1> QED BY Zenon, <1>1, <1>4, <1>5

\* Handler steps keep the capacities and never terminate.
LEMMA CapacityHandlerStep ==
  ASSUME TypeOK, SessionInv, CapacityRespected, NeverTerminates,
         NEW h \in Handlers, HandlerStep(h)
  PROVE  CapacityRespected' /\ NeverTerminates'
<1> DEFINE R == {g \in Handlers : pc[g] \in {"compile", "rollback"}}
           Q == {g \in Handlers : pc'[g] \in {"compile", "rollback"}}
<1>0. 1 \in JobIds BY DEF JobIds
<1>1. CASE CreateReserve(h)
  <2>1. CASE CapacityExhausted \/ next_session_id = 0
    <3>1. Respond(h, "ResourceExhausted") /\ pc[h] = "call"
          /\ UNCHANGED <<pending_session_creates, sessions, jobs_>>
      BY Zenon, <1>1, <2>1 DEF CreateReserve, Calls, registryVars
    <3>2. \A g \in Handlers : Reserving(g)' <=> Reserving(g)
      BY Zenon, <3>1 DEF Respond, Leave, Jump, Reserving, TypeOK, DispatchTypeOK
    <3>3. NeverTerminates' BY Zenon, <3>1 DEF Respond, NeverTerminates
    <3> QED BY Zenon, <3>1, <3>2, <3>3, CapacityKept
  <2>2. CASE ~(CapacityExhausted \/ next_session_id = 0)
    <3>1. /\ Continue(h, "compile", "Ok") /\ pc[h] = "call"
          /\ pending_session_creates' = pending_session_creates + 1
          /\ UNCHANGED <<sessions, jobs_>>
      BY Zenon, <1>1, <2>2 DEF CreateReserve, Calls, registryVars
    <3>2. Q = R \cup {h} /\ h \notin R
      BY Zenon, <3>1 DEF Continue, Jump, TypeOK, DispatchTypeOK
    <3>3. Cardinality(Q) = Cardinality(R) + 1
      <4>1. R \in SUBSET Handlers /\ IsFiniteSet(Handlers) BY Zenon
      <4>2. IsFiniteSet(R) BY Zenon, <4>1, FS_Subset
      <4> HIDE DEF R, Q
      <4> QED BY Zenon, <3>2, <4>2, FS_AddElement
    <3>4. Cardinality(sessions) + pending_session_creates + 1 <= maximum_sessions
      BY <2>2, FiniteMaps DEF CapacityExhausted
    <3>5. NeverTerminates' BY Zenon, <3>1 DEF Continue, NeverTerminates
    <3> QED BY <3>1, <3>3, <3>4, <3>5, FiniteMaps DEF CapacityRespected
  <2> QED BY Zenon, <2>1, <2>2
<1>2. CASE CreateRejected(h)
  <2>1. Jump(h, "rollback") /\ pc[h] = "compile"
        /\ UNCHANGED <<sessions, jobs_, pending_session_creates, terminated>>
    BY Zenon, <1>2 DEF CreateRejected, Continue, sessionVars, registryVars
  <2>2. \A g \in Handlers : Reserving(g)' <=> Reserving(g)
    BY Zenon, <2>1 DEF Jump, Reserving, TypeOK, DispatchTypeOK
  <2> QED BY Zenon, <2>1, <2>2, CapacityKept DEF NeverTerminates
<1>3. CASE CreatePublish(h)
  <2>1. CASE \E c : Continue(h, "rollback", c) /\ UNCHANGED sessionVars
    <3>1. Jump(h, "rollback") /\ pc[h] = "compile"
          /\ UNCHANGED <<sessions, jobs_, pending_session_creates, terminated>>
      BY Zenon, <1>3, <2>1 DEF CreatePublish, Continue, sessionVars, registryVars
    <3>2. \A g \in Handlers : Reserving(g)' <=> Reserving(g)
      BY Zenon, <3>1 DEF Jump, Reserving, TypeOK, DispatchTypeOK
    <3> QED BY Zenon, <3>1, <3>2, CapacityKept DEF NeverTerminates
  <2>2. CASE /\ sessions' = sessions \cup {next_session_id}
             /\ ReleaseReservation /\ Leave(h, Answer("Ok"))
    <3>1. Reserving(h) /\ Jump(h, "reply") /\ UNCHANGED jobs_
      BY Zenon, <1>3, <2>2 DEF CreatePublish, Reserving, Leave, registryVars
    <3>2. Cardinality(sessions') \in Nat /\ Cardinality(sessions') <= Cardinality(sessions) + 1
      <4>1. IsFiniteSet(sessions) BY Zenon, FiniteMaps
      <4> QED BY Zenon, <2>2, <4>1, CardinalityAdd
    <3>3. /\ NeverTerminates'
          /\ pending_session_creates' = pending_session_creates - 1
          /\ pending_session_creates' = Cardinality(Q)
      BY Zenon, <2>2, <3>1, ReservationReleased
    <3> QED BY <3>1, <3>2, <3>3, FiniteMaps DEF CapacityRespected
  <2> QED BY Zenon, <1>3, <2>1, <2>2 DEF CreatePublish
<1>4. CASE CreateRollback(h)
  <2>1. /\ Reserving(h) /\ ReleaseReservation /\ Jump(h, "reply")
        /\ UNCHANGED <<sessions, jobs_>>
    BY Zenon, <1>4 DEF CreateRollback, Reserving, Leave, registryVars
  <2>2. /\ NeverTerminates'
        /\ pending_session_creates' = pending_session_creates - 1
        /\ pending_session_creates' = Cardinality(Q)
    BY Zenon, <2>1, ReservationReleased
  <2> QED BY <2>1, <2>2, FiniteMaps DEF CapacityRespected
<1>5. CASE SubmitPublish(h)
  <2>1. UNCHANGED <<pending_session_creates, sessions, terminated>>
    BY Zenon, <1>5 DEF SubmitPublish, sessionVars, Respond, Refuse
  <2>2. Q = R
    BY Zenon, <1>5 DEF SubmitPublish, Respond, Refuse, Leave, Jump, TypeOK, DispatchTypeOK
  <2>3. \/ UNCHANGED jobs_
        \/ jobs_' = jobs_ \cup {next_id_} /\ Cardinality(jobs_) < maximum_jobs_
    <3>1. SubmitRefusal = "Ok" => Cardinality(jobs_) < maximum_jobs_
      BY FiniteMaps DEF SubmitRefusal
    <3> QED BY Zenon, <1>5, <3>1
            DEF SubmitPublish, Enqueue, EnqueueThrows, registryVars
  <2>4. Cardinality(jobs_') <= maximum_jobs_
    <3>1. CASE UNCHANGED jobs_ BY Zenon, <3>1 DEF CapacityRespected
    <3>2. CASE jobs_' = jobs_ \cup {next_id_} /\ Cardinality(jobs_) < maximum_jobs_
      <4>1. IsFiniteSet(jobs_) /\ Cardinality(jobs_) \in Nat BY Zenon, FiniteMaps
      <4>2. Cardinality(jobs_') \in Nat /\ Cardinality(jobs_') <= Cardinality(jobs_) + 1
        BY Zenon, <3>2, <4>1, CardinalityAdd
      <4> QED BY <3>2, <4>1, <4>2
    <3> QED BY Zenon, <2>3, <3>1, <3>2
  <2> QED BY Zenon, <2>1, <2>2, <2>4 DEF CapacityRespected, NeverTerminates
<1>6. CASE ~(\/ CreateReserve(h) \/ CreateRejected(h) \/ CreatePublish(h)
             \/ CreateRollback(h) \/ SubmitPublish(h))
  <2>1. sessions' \subseteq sessions /\ jobs_' \subseteq jobs_
    BY Zenon, <1>0, <1>6, HandlerRecords, HandlerSessions
  <2>2. /\ UNCHANGED pending_session_creates
        /\ ~CloseFinalize(h) => UNCHANGED terminated
        /\ ~Reserving(h) /\ ~Reserving(h)'
    BY Zenon, <1>6, HandlerReservations
  <2>3. \A g \in Handlers : g # h => pc'[g] = pc[g] BY Zenon, HandlerLeavesOthers
  <2>4. \A g \in Handlers : Reserving(g)' <=> Reserving(g)
    BY Zenon, <2>2, <2>3 DEF Reserving
  <2>5. NeverTerminates'
    <3>1. CASE CloseFinalize(h)
      <4>1. arg[h] \in sessions \cap closing
        BY Zenon, <3>1 DEF CloseFinalize, SessionInv, Closing
      <4> QED BY Zenon, <3>1, <4>1 DEF CloseFinalize, NeverTerminates
    <3> QED BY Zenon, <2>2, <3>1 DEF NeverTerminates
  <2> QED BY Zenon, <2>1, <2>2, <2>4, <2>5, CapacityKept
<1> QED BY Zenon, <1>1, <1>2, <1>3, <1>4, <1>5, <1>6

\* Every step keeps the capacities and never terminates.
LEMMA CapacityStep ==
  ASSUME LifecycleInv, CapacityRespected, NeverTerminates, [Next]_vars
  PROVE  CapacityRespected' /\ NeverTerminates'
<1>1. CASE \E h \in Handlers : HandlerStep(h)
  BY Zenon, <1>1, CapacityHandlerStep DEF LifecycleInv
<1>2. CASE \E h \in Handlers, m \in Requests : \E i \in Args(m) : Begin(h, m, i)
  <2>1. PICK h \in Handlers, m \in Requests : \E i \in Args(m) : Begin(h, m, i)
    BY Zenon, <1>2
  <2>2. /\ UNCHANGED <<sessions, jobs_, pending_session_creates, terminated>>
        /\ pc[h] = "idle"
        /\ Jump(h, "reply") \/ Jump(h, "call")
    BY Zenon, <2>1 DEF Begin, Leave, sessionVars, registryVars
  <2>3. \A g \in Handlers : Reserving(g)' <=> Reserving(g)
    BY Zenon, <2>2 DEF Jump, Reserving, LifecycleInv, TypeOK, DispatchTypeOK
  <2> QED BY Zenon, <2>2, <2>3, CapacityKept DEF NeverTerminates, LifecycleInv
<1>3. CASE UNCHANGED serviceVars /\ jobs_' \subseteq jobs_
  <2>1. UNCHANGED <<sessions, pending_session_creates, terminated, pc>>
    BY Zenon, <1>3 DEF serviceVars
  <2>2. \A g \in Handlers : Reserving(g)' <=> Reserving(g) BY Zenon, <2>1 DEF Reserving
  <2> QED BY Zenon, <1>3, <2>1, <2>2, CapacityKept DEF NeverTerminates, LifecycleInv
<1>4. ASSUME NEW w \in Workers, WorkerStep(w) \/ Execute(w) \/ SpuriousWake(w)
      PROVE  UNCHANGED jobs_
  BY Zenon, <1>4, WorkerFrame
<1>5. jobs_' \in {jobs_, {}} => jobs_' \subseteq jobs_ BY Zenon
<1> QED BY Zenon, <1>1, <1>2, <1>3, <1>4, <1>5
        DEF Next, vars, registryVars, mapVars, WakeSpuriously, Stop, StopRegistry,
            Clear, ClearRegistry

\* Initially nothing is reserved.
LEMMA CapacityInit ==
  ASSUME Init
  PROVE  CapacityRespected /\ NeverTerminates
<1>1. {h \in Handlers : pc[h] \in {"compile", "rollback"}} = {} BY Zenon DEF Init
<1>2. Cardinality({}) = 0 BY Zenon, FS_EmptySet
<1>3. /\ sessions = {} /\ jobs_ = {} /\ pending_session_creates = 0 /\ ~terminated
  BY Zenon DEF Init, RegistryInit
<1>4. pending_session_creates =
        Cardinality({h \in Handlers : pc[h] \in {"compile", "rollback"}})
  BY Zenon, <1>1, <1>2, <1>3
<1>5. Cardinality(sessions) = 0 /\ Cardinality(jobs_) = 0 BY Zenon, <1>2, <1>3
<1> QED BY <1>3, <1>4, <1>5 DEF CapacityRespected, NeverTerminates

\* Sessions, creates in progress and retained records stay within the capacities
\* of the Limits, whatever interleaving of creates, rollbacks and closes.
THEOREM CapacityIsRespected == Spec => []CapacityRespected
<1>1. CapacityRespected /\ NeverTerminates /\ LifecycleInv /\ [Next]_vars
        => (CapacityRespected /\ NeverTerminates)'
  BY Zenon, CapacityStep
<1> QED BY <1>1, CapacityInit, LifecycleInvariant, PTL DEF Spec

\* The std::terminate calls of close and of the reservation are unreachable.
THEOREM TerminateIsUnreachable == Spec => []NeverTerminates
<1>1. CapacityRespected /\ NeverTerminates /\ LifecycleInv /\ [Next]_vars
        => (CapacityRespected /\ NeverTerminates)'
  BY Zenon, CapacityStep
<1> QED BY <1>1, CapacityInit, LifecycleInvariant, PTL DEF Spec

=============================================================================
