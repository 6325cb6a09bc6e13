------------------------- MODULE DaemonStepProofs --------------------------
(***************************************************************************)
(* The inductive invariant of the Server and the process around it, what   *)
(* its steps change, their types, and the listener (ListenerInv); which    *)
(* streams and which connection the threads hold (FileInv, IncomingInv),   *)
(* the order of the way down (OrderInv), and the records of the handler    *)
(* threads (RecordInv).                                                    *)
(***************************************************************************)
EXTENDS Daemon, TLAPS, FiniteSetTheorems

USE ServerAssumption, DaemonAssumption, SMTT(20), ZenonT(20)

-----------------------------------------------------------------------------
(* The inductive invariant                                                   *)

Places == HandlerStates \cup MainStates \cup {"sigwait", "done"}

\* The thread that raised the flag, until it has swept the inventory.
StopperStates == {"listener", "shutdown", "close_listener", "sweep"}
Stopper(t) == pc[t] \in StopperStates

ServingStates == StopSteps \cup {"loop", "read", "dispatch", "respond", "fail",
                                 "tail", "erase"}
AliveStates == ServingStates \cup {"register", "close", "finish", "release"}

\* A connection that has an open stream in this process.
OpenStates == ServingStates \cup {"held", "register", "close"}

DestroyedStates == {"destroyed", "inspect", "drain", "unmask", "exited", "killed"}

\* One thread takes the listener and closes it; the flag is up before that.
ListenerInv ==
  /\ \A t \in Threads : Stopper(t) => stopping
  /\ Listener \in shut => stopping
  /\ ~stopping => listener_fd = ListenerFd
  /\ listener_fd = ListenerFd =>
       /\ file[ListenerFd] = Listener
       /\ \A t \in Threads : pc[t] \notin {"shutdown", "close_listener"}
       /\ stopping => \E t \in Threads : pc[t] = "listener"
  /\ \A t \in Threads : pc[t] \in {"shutdown", "close_listener"} =>
       file[ListenerFd] = Listener
  /\ \A t, u \in Threads :
       pc[t] \in {"shutdown", "close_listener"} =>
         (pc[u] \in {"shutdown", "close_listener"} => t = u)
  /\ listener_fd = NoFd /\ file[ListenerFd] = Listener =>
       \E t \in Threads : pc[t] \in {"shutdown", "close_listener"}

\* A descriptor number stands for the one stream its owner has open.
FileInv ==
  /\ \A d \in Fds : file[d] \in Connections =>
       descriptor[file[d]] = d /\ pc[file[d]] \in OpenStates
  /\ \A d \in Fds : file[d] = Listener => d = ListenerFd
  /\ \A c \in Connections : pc[c] \in OpenStates =>
       descriptor[c] \in Fds /\ file[descriptor[c]] = c

\* What run has accepted and not handed over, and what accept returned.
IncomingInv ==
  /\ \A c \in Connections : pc[c] = "held" <=> incoming = c
  /\ pc[Main] \in {"enter", "loop", "load", "accept", "returned", "wake",
                   "join_waiter", "destroy"} \cup DestroyedStates => incoming = None
  /\ pc[Main] \in {"reap", "admit", "reserve", "spawn"} => incoming # None
  /\ pc[Main] = "accepted" => (disposition = "Accepted" <=> incoming # None)
  /\ disposition = "Interrupted" => stopping
  /\ FailureIsGenuine

\* Every handler thread has one record until it is joined.
RecordInv ==
  /\ \A i, j \in DOMAIN handlers : handlers[i] = handlers[j] => i = j
  /\ \A i \in DOMAIN handlers : pc[handlers[i]] \in AliveStates \cup {"exit"}
  /\ \A c \in Connections : pc[c] \in AliveStates =>
       c \in Range(handlers) \cup Range(owned)
  /\ \A c \in Connections : finished[c] <=> pc[c] \in {"release", "exit"}
  /\ pc[Main] # "join" => owned = <<>>
  /\ pc[Main] \in {"join", "remove"} \cup DestroyedStates => handlers = <<>>
  /\ scan > 0 /\ (pc[Main] # "reap" => scan = 1)

\* The destructor begins when the waiter is gone and ends when stop is over.
OrderInv ==
  /\ destroying \/ pc[Main] \in {"destroy"} \cup DestroyedStates => pc[Waiter] = "done"
  /\ pc[Main] \in {"swap", "join", "remove"} \cup DestroyedStates => stopping

\* The slots, and the one record too many that the reaper will find.
SlotInv ==
  /\ active_handlers =
       Cardinality({c \in Connections : pc[c] \in AliveStates})
         + (IF pc[Main] = "spawn" THEN 1 ELSE 0)
  /\ pc[Main] = "reserve" => active_handlers < maximum_active_connections
  /\ Len(handlers) <= maximum_active_connections + 1
  /\ pc[Main] \in {"admit", "reserve", "spawn"} =>
       Len(handlers) <= maximum_active_connections
  /\ pc[Main] = "reap" =>
       \/ Len(handlers) <= maximum_active_connections
       \/ \E i \in DOMAIN handlers : i >= scan /\ pc[handlers[i]] = "exit"

\* A handler that waits for its peer is interrupted, or will be.
InterruptInv ==
  stopping => \A c \in Connections :
    pc[c] \in {"read", "dispatch", "respond", "fail"} =>
      c \in shut \/ \E t \in Threads : Stopper(t)

\* A normal way out has seen no signal pending before the mask is restored.
SignalInv ==
  /\ pc[Main] = "unmask" => outcome = "Thrown" \/ error_ \/ pending \subseteq missed
  /\ EarlySignalsAreAbsorbed

DaemonInv ==
  /\ TypeOK /\ pc \in [Threads -> Places]
  /\ ListenerInv /\ FileInv /\ IncomingInv /\ RecordInv /\ OrderInv /\ SlotInv
  /\ InventoryIsLive /\ InterruptInv /\ SignalInv

-----------------------------------------------------------------------------
(* Sets of numbers, and sequences                                            *)

\* A finite set of descriptor numbers that is not empty has a lowest number.
LEMMA LowestExists ==
  ASSUME NEW S \in SUBSET Nat, IsFiniteSet(S), S # {}
  PROVE  \E d \in S : \A e \in S : d <= e
<1> DEFINE Down(d) == {e \in S : e <= d}
           Downs == {Down(d) : d \in S}
<1>1. Downs \subseteq FiniteSubsetsOf(S)
  <2>1. FiniteSubsetsOf(S) = SUBSET S
    BY Zenon, FS_FiniteSubsetsOfFinite
  <2> QED BY <2>1
<1>2. Downs # {}
  <2>1. PICK d \in S : TRUE
    BY Zenon
  <2>2. Down(d) \in Downs
    BY Zenon
  <2> QED BY Zenon, <2>2
<1>3. PICK T \in Downs : \A U \in Downs : ~(<<U, T>> \in StrictSubsetOrdering(S))
  BY Zenon, <1>1, <1>2, FS_StrictSubsetOrderingWellFounded, WFMin
<1>4. PICK d \in S : T = Down(d)
  BY Zenon, <1>3
<1>5. ASSUME NEW e \in S, e < d
      PROVE  FALSE
  <2>1. Down(e) \in Downs
    BY Zenon
  <2>3. Down(e) \subseteq Down(d)
    <3>1. \A x \in S : x <= e => x <= d
      BY <1>5
    <3> QED BY Zenon, <3>1
  <2>4. d \in Down(d) /\ d \notin Down(e)
    BY <1>5
  <2>2. <<Down(e), T>> \in StrictSubsetOrdering(S)
    BY Zenon, <2>3, <2>4, <1>4 DEF StrictSubsetOrdering
  <2> QED BY Zenon, <2>1, <2>2, <1>3
<1> QED BY <1>5

\* vector::erase of one handler record.
LEMMA ErasedProperties ==
  ASSUME NEW S, NEW s \in Seq(S), NEW i \in 1..Len(s)
  PROVE  /\ Erased(s, i) \in Seq(S)
         /\ Len(Erased(s, i)) = Len(s) - 1
         /\ \A j \in 1..(Len(s) - 1) :
              Erased(s, i)[j] = IF j < i THEN s[j] ELSE s[j + 1]
<1> DEFINE a == SubSeq(s, 1, i - 1)
           b == SubSeq(s, i + 1, Len(s))
<1>1. a \in Seq(S) /\ Len(a) = i - 1 /\ \A j \in 1..(i - 1) : a[j] = s[j]
  OBVIOUS
<1>2. b \in Seq(S) /\ Len(b) = Len(s) - i
  OBVIOUS
<1>3. \A j \in 1..(Len(s) - i) : b[j] = s[i + j]
  OBVIOUS
<1>4. Erased(s, i) = a \o b
  BY Zenon DEF Erased
<1> HIDE DEF a, b
<1>5. a \o b \in Seq(S) /\ Len(a \o b) = Len(s) - 1
  BY <1>1, <1>2
<1>6. ASSUME NEW j \in 1..(Len(s) - 1)
      PROVE  (a \o b)[j] = IF j < i THEN s[j] ELSE s[j + 1]
  <2>1. CASE j < i
    BY <2>1, <1>1, <1>2
  <2>2. CASE j >= i
    <3>1. (a \o b)[j] = b[j - (i - 1)]
      BY <2>2, <1>1, <1>2
    <3>2. j - (i - 1) \in 1..(Len(s) - i)
      BY <2>2
    <3>3. i + (j - (i - 1)) = j + 1
      OBVIOUS
    <3>4. b[j - (i - 1)] = s[j + 1]
      BY Zenon, <3>2, <3>3, <1>3
    <3> QED BY <3>1, <3>4, <2>2
  <2>3. j < i \/ j >= i
    OBVIOUS
  <2> QED BY Zenon, <2>1, <2>2, <2>3
<1> QED BY Zenon, <1>4, <1>5, <1>6

\* accept finds a free number: at most every other connection and the listener
\* have one.
LEMMA FreeDescriptor ==
  ASSUME TypeOK, FileInv, NEW c \in Connections, pc[c] = "backlog"
  PROVE  LowestFree \in Fds /\ file[LowestFree] = None
<1> DEFINE n == Cardinality(Connections)
           T == (Connections \ {c}) \cup {Listener}
<1>1. n \in Nat /\ IsFiniteSet(Connections)
  BY Zenon, FS_CardinalityType
<1>2. IsFiniteSet(Fds) /\ Cardinality(Fds) = n + 1
  BY <1>1, FS_Interval DEF Fds
<1>3. IsFiniteSet(T) /\ Cardinality(T) = n
  <2>1. IsFiniteSet(Connections \ {c}) /\ Cardinality(Connections \ {c}) = n - 1
    BY Zenon, <1>1, FS_RemoveElement
  <2>2. Listener \notin Connections \ {c}
    BY Zenon
  <2>3. IsFiniteSet(T) /\ Cardinality(T) = Cardinality(Connections \ {c}) + 1
    BY Zenon, <2>1, <2>2, FS_AddElement
  <2> QED BY <2>1, <2>3, <1>1
<1>4. FreeFds # {}
  <2> SUFFICES ASSUME FreeFds = {} PROVE FALSE
    BY Zenon
  <2>1. \A d \in Fds : file[d] # None /\ file[d] # c
    BY DEF FreeFds, FileInv, OpenStates, ServingStates, StopSteps
  <2>2. file \in [Fds -> T]
    BY Zenon, <2>1 DEF TypeOK, ServerTypeOK
  <2>3. PICK d, e \in Fds : d # e /\ file[d] = file[e]
    BY <1>1, <1>2, <1>3, <2>2, FS_PigeonHole
  <2> QED BY <2>2, <2>3 DEF FileInv
<1>5. FreeFds \in SUBSET Nat /\ FreeFds \subseteq Fds
  BY <1>1 DEF FreeFds, Fds
<1>6. IsFiniteSet(FreeFds)
  BY Zenon, <1>2, <1>5, FS_Subset
<1>7. \E d \in FreeFds : \A e \in FreeFds : d <= e
  BY Zenon, <1>4, <1>5, <1>6, LowestExists
<1>8. LowestFree \in FreeFds
  BY Zenon, <1>7 DEF LowestFree
<1> QED BY Zenon, <1>8 DEF FreeFds

-----------------------------------------------------------------------------
(* The steps by what they change                                             *)

Typed == TypeOK /\ pc \in [Threads -> Places]

\* What nothing but the place of one thread, or a local, leaves alone.
ServerKept == UNCHANGED <<stopVars, active_connections, descriptor, file, shut,
                          recordVars, runVars>>

HandlerMove(c) ==
  \/ Connect(c) \/ HandlerLoop(c) \/ ReadFrame(c) \/ Dispatch(c) \/ Respond(c)
  \/ WriteFailure(c) \/ HandlerTail(c)

HandlerEnd(c) ==
  Register(c) \/ Erase(c) \/ CloseConnection(c) \/ Finish(c) \/ ReleaseSlot(c)

MainMove ==
  \/ (RunEnter \/ RunLoop \/ LoadListener) /\ UNCHANGED processVars
  \/ FinishStore \/ FinishWake \/ FinishJoin \/ Unwind
  \/ RestoreInspect \/ RestoreDrain \/ RestoreMask

WaiterMove == WaitStopSignal \/ WaitWake \/ WaitFails

RunChange ==
  \/ \E c \in Connections : AcceptConnection(c) \/ AcceptDrops(c)
  \/ AcceptFails \/ RunThrows \/ AfterAccept \/ Reap \/ Admit \/ Reserve
  \/ Spawn \/ SpawnFails \/ SwapHandlers \/ JoinHandlers \/ RemoveNode \/ Destroy

\* Every step is of one of these kinds.
LEMMA StepKinds ==
  ASSUME [Next]_vars
  PROVE  \/ \E c \in Connections : HandlerMove(c) /\ UNCHANGED processVars
         \/ \E c \in Connections : HandlerEnd(c) /\ UNCHANGED processVars
         \/ \E t \in Threads : StopStep(t) /\ UNCHANGED processVars
         \/ MainMove
         \/ WaiterMove
         \/ RunChange /\ UNCHANGED processVars
         \/ \E s \in Signals : SignalArrives(s)
         \/ UNCHANGED vars
<1> USE DEF HandlerMove, HandlerEnd, MainMove, WaiterMove, RunChange
<1>1. CASE MainStep
  <2>1. CASE RunStep /\ UNCHANGED processVars
    BY Zenon, <2>1 DEF RunStep, Threads
  <2> QED BY Zenon, <1>1, <2>1 DEF MainStep
<1>2. CASE WaiterStep
  BY Zenon, <1>2 DEF WaiterStep, Threads
<1>3. CASE WaitFails
  BY Zenon, <1>3
<1>4. CASE AcceptStep /\ UNCHANGED processVars
  BY Zenon, <1>4 DEF AcceptStep
<1>5. ASSUME NEW c \in Connections,
             Connect(c) \/ OwnStep(c) \/ PeerStep(c) \/ Dispatch(c),
             UNCHANGED processVars
      PROVE  \/ HandlerMove(c) /\ UNCHANGED processVars
             \/ HandlerEnd(c) /\ UNCHANGED processVars
             \/ c \in Threads /\ StopStep(c) /\ UNCHANGED processVars
  BY Zenon, <1>5 DEF OwnStep, PeerStep, Threads
<1> QED BY Zenon, <1>1, <1>2, <1>3, <1>4, <1>5 DEF Next

\* A handler between registration and erasure, or a new connection, moves.
LEMMA HandlerMoves ==
  ASSUME Typed, NEW c \in Connections, HandlerMove(c)
  PROVE  /\ ServerKept
         /\ pc' = [pc EXCEPT ![c] = pc'[c]]
         /\ accepted_shutdown' \in [Connections -> BOOLEAN]
         /\ \/ pc[c] = "new" /\ pc'[c] = "backlog"
            \/ /\ pc[c] \in {"loop", "read", "dispatch", "respond", "fail", "tail"}
               /\ pc'[c] \in {"loop", "read", "dispatch", "respond", "fail", "tail",
                              "stop", "erase"}
               /\ pc'[c] \in {"read", "dispatch", "respond", "fail"} =>
                    pc[c] \in {"read", "dispatch", "respond"} \/ ~stopping
<1> c \in Threads
  BY Zenon DEF Threads
<1> USE DEF Typed, TypeOK, ServerTypeOK, Goto, ServerKept, HandlerQuiet,
            connectionVars, stopVars, recordVars, runVars
<1>1. CASE Connect(c)
  BY Zenon, <1>1 DEF Connect
<1>2. CASE HandlerLoop(c)
  BY Zenon, <1>2 DEF HandlerLoop
<1>3. CASE ReadFrame(c)
  BY Zenon, <1>3 DEF ReadFrame
<1>4. CASE Dispatch(c)
  BY Zenon, <1>4 DEF Dispatch
<1>5. CASE Respond(c)
  BY Zenon, <1>5 DEF Respond
<1>6. CASE WriteFailure(c)
  BY Zenon, <1>6 DEF WriteFailure
<1>7. CASE HandlerTail(c)
  BY Zenon, <1>7 DEF HandlerTail
<1> QED BY Zenon, <1>1, <1>2, <1>3, <1>4, <1>5, <1>6, <1>7 DEF HandlerMove

\* Main moves in run before a connection is accepted, or after run.
LEMMA MainMoves ==
  ASSUME Typed, MainMove
  PROVE  /\ ServerKept
         /\ accepted_shutdown' = accepted_shutdown
         /\ pc' = [pc EXCEPT ![Main] = pc'[Main]]
         /\ <<pc[Main], pc'[Main]>> \in
              {<<"enter", "returned">>, <<"enter", "loop">>, <<"loop", "stop">>,
               <<"loop", "load">>, <<"load", "stop">>, <<"load", "accept">>,
               <<"returned", "wake">>, <<"wake", "join_waiter">>,
               <<"join_waiter", "destroy">>, <<"destroyed", "unmask">>,
               <<"destroyed", "inspect">>, <<"inspect", "unmask">>,
               <<"inspect", "drain">>, <<"drain", "inspect">>,
               <<"unmask", "exited">>, <<"unmask", "killed">>}
         /\ pc[Main] = "join_waiter" => pc[Waiter] = "done"
<1> Main \in Threads
  BY Zenon DEF Threads
<1> USE DEF Typed, TypeOK, Goto, ServerKept, ServerQuiet, RunQuiet,
            connectionVars, stopVars, recordVars, runVars
<1>1. CASE RunEnter
  BY Zenon, <1>1 DEF RunEnter
<1>2. CASE RunLoop
  BY Zenon, <1>2 DEF RunLoop
<1>3. CASE LoadListener
  BY Zenon, <1>3 DEF LoadListener
<1>4. CASE FinishStore
  BY Zenon, <1>4 DEF FinishStore
<1>5. CASE FinishWake
  BY Zenon, <1>5 DEF FinishWake
<1>6. CASE FinishJoin
  BY Zenon, <1>6 DEF FinishJoin
<1>7. CASE Unwind
  BY Zenon, <1>7 DEF Unwind
<1>8. CASE RestoreInspect
  BY Zenon, <1>8 DEF RestoreInspect
<1>9. CASE RestoreDrain
  BY Zenon, <1>9 DEF RestoreDrain
<1>10. CASE RestoreMask
  BY Zenon, <1>10 DEF RestoreMask
<1> QED BY Zenon, <1>1, <1>2, <1>3, <1>4, <1>5, <1>6, <1>7, <1>8, <1>9, <1>10
        DEF MainMove

\* The waiter leaves sigwait, or goes back to it.
LEMMA WaiterMoves ==
  ASSUME Typed, WaiterMove
  PROVE  /\ ServerKept
         /\ accepted_shutdown' = accepted_shutdown
         /\ pc' = [pc EXCEPT ![Waiter] = pc'[Waiter]]
         /\ pc[Waiter] = "sigwait"
         /\ pc'[Waiter] \in {"sigwait", "stop", "done"}
<1> Waiter \in Threads
  BY Zenon DEF Threads
<1> USE DEF Typed, TypeOK, Goto, ServerKept, ServerQuiet,
            connectionVars, stopVars, recordVars, runVars
<1>1. CASE WaitStopSignal
  BY Zenon, <1>1 DEF WaitStopSignal
<1>2. CASE WaitWake
  BY Zenon, <1>2 DEF WaitWake
<1>3. CASE WaitFails
  BY Zenon, <1>3 DEF WaitFails
<1> QED BY Zenon, <1>1, <1>2, <1>3 DEF WaiterMove

\* DropIncoming moves Main and the connection it held, and no other thread.
LEMMA Dropped ==
  ASSUME Typed, NEW next \in MainStates, DropIncoming(next)
  PROVE  /\ pc' \in [Threads -> Places] /\ pc'[Main] = next
         /\ \A t \in Threads \ {Main} :
              pc'[t] = IF t = incoming THEN "dropped" ELSE pc[t]
         /\ file' = Closed(file, incoming)
         /\ file' \in [Fds -> Connections \cup {Listener, None}]
         /\ file'[ListenerFd] = file[ListenerFd] \/ file[ListenerFd] \in Connections
         /\ file'[ListenerFd] = Listener <=> file[ListenerFd] = Listener
         /\ incoming' = None
         /\ UNCHANGED <<active_connections, accepted_shutdown, descriptor, shut>>
<1> Main \in Threads
  BY Zenon DEF Threads
<1>1. pc' \in [Threads -> Places]
  BY Zenon DEF DropIncoming, Typed, Places, HandlerStates
<1>2. ListenerFd \in Fds
  BY FS_CardinalityType DEF ListenerFd, Fds
<1>3. \A t \in Threads \ {Main} :
        pc'[t] = IF t = incoming THEN "dropped" ELSE pc[t]
  BY Zenon DEF DropIncoming
<1>4. /\ file' = Closed(file, incoming) /\ incoming' = None
      /\ UNCHANGED <<active_connections, accepted_shutdown, descriptor, shut>>
  BY Zenon DEF DropIncoming
<1>9. pc'[Main] = next
  BY Zenon DEF DropIncoming, Typed, TypeOK, ServerTypeOK
<1>5. file' \in [Fds -> Connections \cup {Listener, None}]
  BY Zenon, <1>4 DEF Closed, Typed, TypeOK, ServerTypeOK
<1>6. file'[ListenerFd] = IF file[ListenerFd] = incoming THEN None
                          ELSE file[ListenerFd]
  BY Zenon, <1>2, <1>4 DEF Closed
<1>7. file'[ListenerFd] = file[ListenerFd] \/ file[ListenerFd] \in Connections
  BY Zenon, <1>2, <1>6 DEF Typed, TypeOK, ServerTypeOK
<1>8. file'[ListenerFd] = Listener <=> file[ListenerFd] = Listener
  BY Zenon, <1>2, <1>6 DEF Typed, TypeOK, ServerTypeOK
<1> QED BY Zenon, <1>1, <1>3, <1>4, <1>5, <1>7, <1>8, <1>9

-----------------------------------------------------------------------------
(* Types                                                                     *)

\* The threads that hold a slot, and how their number changes.
LEMMA SlotCount ==
  ASSUME Typed, SlotInv
  PROVE  /\ IsFiniteSet(Alive)
         /\ Cardinality(Alive) \in Nat
         /\ Alive = {c \in Connections : pc[c] \in AliveStates}
         /\ active_handlers = Cardinality(Alive) + (IF pc[Main] = "spawn" THEN 1 ELSE 0)
         /\ Alive # {} => Cardinality(Alive) > 0
<1>1. Alive \in SUBSET Connections
  BY Zenon DEF Alive
<1>2. IsFiniteSet(Alive) /\ Cardinality(Alive) \in Nat
  BY Zenon, <1>1, FS_Subset, FS_CardinalityType
<1>3. Alive = {c \in Connections : pc[c] \in AliveStates}
  BY Zenon DEF Alive, AliveStates, ServingStates, StopSteps, Typed, TypeOK,
         ServerTypeOK, HandlerStates
<1>4. Alive # {} => Cardinality(Alive) > 0
  BY <1>2, FS_EmptySet
<1> QED BY Zenon, <1>2, <1>3, <1>4 DEF SlotInv

\* The first step and the last steps of a handler keep the types.
LEMMA HandlerEndTypes ==
  ASSUME Typed, FileInv, SlotInv, NEW c \in Connections, HandlerEnd(c),
         UNCHANGED processVars
  PROVE  Typed'
<1> c \in Threads /\ c # Main /\ c # Waiter
  BY Zenon DEF Threads
<1> USE DEF Typed, TypeOK, ServerTypeOK, Goto, connectionVars, stopVars, recordVars,
            runVars, processVars
<1>1. CASE Register(c)
  <2>1. descriptor[c] \in Fds
    BY Zenon, <1>1 DEF Register, FileInv, OpenStates
  <2>2. active_connections' \subseteq Fds
    BY ZenonT(60), <1>1, <2>1 DEF Register
  <2>3. PICK b \in {"loop", "close"} : pc' = [pc EXCEPT ![c] = b]
    BY Zenon, <1>1 DEF Register
  <2> QED BY <1>1, <2>2, <2>3 DEF Register, HandlerStates, Places
<1>2. CASE Erase(c)
  BY <1>2 DEF Erase, HandlerStates, Places
<1>3. CASE CloseConnection(c)
  BY <1>3 DEF CloseConnection, HandlerStates, Places, Closed
<1>4. CASE Finish(c)
  BY <1>4 DEF Finish, HandlerStates, Places
<1>5. CASE ReleaseSlot(c)
  <2>1. c \in Alive
    BY Zenon, <1>5 DEF ReleaseSlot, Alive
  <2>2. active_handlers > 0
    BY <2>1, SlotCount
  <2> QED BY <1>5, <2>2 DEF ReleaseSlot, HandlerStates, Places
<1> QED BY Zenon, <1>1, <1>2, <1>3, <1>4, <1>5 DEF HandlerEnd

\* So do the steps of stop, whoever runs it.
LEMMA StopTypes ==
  ASSUME Typed, NEW t \in Threads, StopStep(t), UNCHANGED processVars
  PROVE  Typed'
<1> USE DEF Typed, TypeOK, ServerTypeOK, Goto, connectionVars, stopVars, recordVars,
            runVars, processVars
<1>1. ListenerFd \in Fds
  BY FS_CardinalityType DEF ListenerFd, Fds
<1>2. t \in Connections \/ t = Main \/ t = Waiter
  BY Zenon DEF Threads
<1>3. AfterStop(t) \in {"swap", "done", "erase"}
      /\ (t = Main => AfterStop(t) = "swap") /\ (t = Waiter => AfterStop(t) = "done")
      /\ (t \in Connections => AfterStop(t) = "erase")
  BY Zenon, <1>2 DEF AfterStop
<1>4. ASSUME NEW b \in StopSteps \cup {AfterStop(t)}, pc' = [pc EXCEPT ![t] = b]
      PROVE  /\ pc' \in [Threads -> Places]
             /\ \A c \in Connections : pc'[c] \in HandlerStates
             /\ pc'[Main] \in MainStates
             /\ pc'[Waiter] \in StopSteps \cup {"sigwait", "done"}
  BY Zenon, <1>2, <1>3, <1>4 DEF Places, HandlerStates, MainStates, RunStates, Threads
<1>5. CASE StopExchange(t)
  <2>1. PICK b \in StopSteps \cup {AfterStop(t)} : pc' = [pc EXCEPT ![t] = b]
    BY Zenon, <1>5 DEF StopExchange, StopSteps
  <2> QED BY Zenon, <1>5, <2>1, <1>4 DEF StopExchange
<1>6. CASE StopTakeListener(t)
  <2>1. PICK b \in StopSteps \cup {AfterStop(t)} : pc' = [pc EXCEPT ![t] = b]
    BY Zenon, <1>6 DEF StopTakeListener, StopSteps
  <2> QED BY Zenon, <1>6, <2>1, <1>4 DEF StopTakeListener
<1>7. CASE StopShutdownListener(t)
  <2>1. PICK b \in StopSteps \cup {AfterStop(t)} : pc' = [pc EXCEPT ![t] = b]
    BY Zenon, <1>7 DEF StopShutdownListener, StopSteps
  <2> QED BY Zenon, <1>7, <2>1, <1>4 DEF StopShutdownListener
<1>8. CASE StopCloseListener(t)
  <2>1. pc' \in [Threads -> Places]
    BY Zenon, <1>8 DEF StopCloseListener, StopSteps, Places, HandlerStates
  <2>2. \A u \in Threads : pc'[u] = "sweep" \/ pc'[u] = pc[u]
                           \/ (pc[u] = "backlog" /\ pc'[u] = "dropped")
    BY Zenon, <1>8 DEF StopCloseListener
  <2>3. /\ \A c \in Connections : pc'[c] \in HandlerStates
        /\ pc'[Main] \in MainStates
        /\ pc'[Waiter] \in StopSteps \cup {"sigwait", "done"}
    BY Zenon, <2>2 DEF Threads, HandlerStates, MainStates, RunStates, StopSteps
  <2>4. file' \in [Fds -> Connections \cup {Listener, None}]
    BY Zenon, <1>1, <1>8 DEF StopCloseListener
  <2> QED BY Zenon, <1>8, <2>1, <2>3, <2>4 DEF StopCloseListener
<1>9. CASE StopSweep(t)
  <2>1. PICK b \in StopSteps \cup {AfterStop(t)} : pc' = [pc EXCEPT ![t] = b]
    BY Zenon, <1>9 DEF StopSweep
  <2>2. shut' \subseteq Connections \cup {Listener}
    BY <1>9 DEF StopSweep
  <2> QED BY Zenon, <1>9, <2>1, <2>2, <1>4 DEF StopSweep
<1> QED BY Zenon, <1>5, <1>6, <1>7, <1>8, <1>9 DEF StopStep

\* The types by what they are about.
PlaceTypes ==
  /\ pc \in [Threads -> Places]
  /\ \A c \in Connections : pc[c] \in HandlerStates
  /\ pc[Main] \in MainStates
  /\ pc[Waiter] \in StopSteps \cup {"sigwait", "done"}

StreamTypes ==
  /\ active_connections \subseteq Fds
  /\ accepted_shutdown \in [Connections -> BOOLEAN]
  /\ descriptor \in [Connections -> Fds \cup {NoFd}]
  /\ file \in [Fds -> Connections \cup {Listener, None}]
  /\ shut \subseteq Connections \cup {Listener}
  /\ incoming \in Connections \cup {None}

RecordTypes ==
  /\ handlers \in Seq(Connections) /\ owned \in Seq(Connections)
  /\ active_handlers \in 0..maximum_active_connections
  /\ finished \in [Connections -> BOOLEAN]

LocalTypes ==
  /\ stopping \in BOOLEAN /\ destroying \in BOOLEAN
  /\ listener_fd \in {NoFd, ListenerFd}
  /\ disposition \in Dispositions
  /\ scan \in Nat
  /\ outcome \in {"Success", "Thrown"} \cup Dispositions

ProcessTypes ==
  /\ pending \subseteq Signals /\ missed \subseteq Signals
  /\ wake \in BOOLEAN /\ complete_ \in BOOLEAN /\ error_ \in BOOLEAN

\* The parts are the whole, before and after a step.
LEMMA TypeParts ==
  /\ Typed => PlaceTypes /\ StreamTypes /\ RecordTypes /\ LocalTypes /\ ProcessTypes
  /\ PlaceTypes' /\ StreamTypes' /\ RecordTypes' /\ LocalTypes' /\ ProcessTypes'
       => Typed'
<1> USE DEF Typed, TypeOK, ServerTypeOK, PlaceTypes, StreamTypes, RecordTypes,
            LocalTypes, ProcessTypes
<1>1. Typed => PlaceTypes /\ StreamTypes /\ RecordTypes /\ LocalTypes /\ ProcessTypes
  BY Zenon
<1>2. PlaceTypes' /\ StreamTypes' /\ RecordTypes' /\ LocalTypes' /\ ProcessTypes'
        => Typed'
  BY Zenon
<1> QED BY Zenon, <1>1, <1>2

\* What a step leaves alone keeps its types.
LEMMA TypesKept ==
  /\ StreamTypes /\ UNCHANGED <<connectionVars, incoming>> => StreamTypes'
  /\ RecordTypes /\ UNCHANGED recordVars => RecordTypes'
  /\ ProcessTypes /\ UNCHANGED processVars => ProcessTypes'
<1>1. StreamTypes /\ UNCHANGED <<connectionVars, incoming>> => StreamTypes'
  BY Zenon DEF StreamTypes, connectionVars
<1>2. RecordTypes /\ UNCHANGED recordVars => RecordTypes'
  BY Zenon DEF RecordTypes, recordVars
<1>3. ProcessTypes /\ UNCHANGED processVars => ProcessTypes'
  BY Zenon DEF ProcessTypes, processVars
<1> QED BY Zenon, <1>1, <1>2, <1>3

\* Main's other steps keep the types; the bound is the one Admit tested.
LEMMA RunTypes ==
  ASSUME Typed, FileInv, IncomingInv, RecordInv, SlotInv, RunChange,
         UNCHANGED processVars
  PROVE  Typed'
<1> Main \in Threads /\ Waiter \in Threads /\ Connections \subseteq Threads
    /\ Main # Waiter /\ {Main, Waiter} \cap Connections = {}
  BY Zenon DEF Threads
<1>0. PlaceTypes /\ StreamTypes /\ RecordTypes /\ LocalTypes /\ ProcessTypes
  BY Zenon, TypeParts
<1> SUFFICES PlaceTypes' /\ StreamTypes' /\ RecordTypes' /\ LocalTypes'
  BY Zenon, <1>0, TypeParts, TypesKept
<1>1. ASSUME NEW next \in MainStates, DropIncoming(next)
      PROVE  PlaceTypes' /\ StreamTypes'
  <2>1. /\ pc' \in [Threads -> Places] /\ pc'[Main] = next
        /\ \A t \in Threads \ {Main} :
             pc'[t] = IF t = incoming THEN "dropped" ELSE pc[t]
        /\ file' \in [Fds -> Connections \cup {Listener, None}]
        /\ incoming' = None
        /\ UNCHANGED <<active_connections, accepted_shutdown, descriptor, shut>>
    BY Zenon, <1>1, Dropped
  <2>2. \A c \in Connections : pc'[c] \in HandlerStates
    BY Zenon, <1>0, <2>1 DEF PlaceTypes, HandlerStates
  <2>3. pc'[Waiter] = pc[Waiter]
    BY Zenon, <1>0, <2>1 DEF StreamTypes
  <2>4. PlaceTypes'
    BY Zenon, <1>0, <2>1, <2>2, <2>3 DEF PlaceTypes
  <2>5. StreamTypes'
    BY Zenon, <1>0, <2>1 DEF StreamTypes
  <2> QED BY Zenon, <2>4, <2>5
<1>2. ASSUME NEW from, NEW to \in MainStates, Goto(Main, from, to)
      PROVE  PlaceTypes'
  BY Zenon, <1>0, <1>2 DEF PlaceTypes, Goto, Places
<1>3. ASSUME NEW c \in Connections, NEW to \in HandlerStates, NEW next \in MainStates,
             pc' = [pc EXCEPT ![Main] = next, ![c] = to]
      PROVE  PlaceTypes'
  <2>1. \A t \in Threads : pc'[t] = IF t = c THEN to ELSE IF t = Main THEN next ELSE pc[t]
    BY Zenon, <1>0, <1>3 DEF PlaceTypes
  <2>2. pc' \in [Threads -> Places]
    BY Zenon, <1>0, <1>3 DEF PlaceTypes, Places
  <2> QED BY Zenon, <1>0, <2>1, <2>2 DEF PlaceTypes
<1>4. {"stop", "loop", "returned", "destroyed", "accepted", "reap", "admit", "reserve",
       "spawn", "join", "remove"} \subseteq MainStates
  BY Zenon DEF MainStates, RunStates, StopSteps
<1>5. {"held", "dropped", "register"} \subseteq HandlerStates
  BY Zenon DEF HandlerStates
<1>6. ASSUME NEW c \in Connections, AcceptConnection(c)
      PROVE  PlaceTypes' /\ StreamTypes' /\ RecordTypes' /\ LocalTypes'
  <2>1. LowestFree \in Fds
    BY Zenon, <1>6, FreeDescriptor DEF AcceptConnection, Typed
  <2>2. PlaceTypes'
    BY Zenon, <1>3, <1>4, <1>5, <1>6 DEF AcceptConnection
  <2>3. StreamTypes'
    BY Zenon, <1>0, <1>6, <2>1 DEF AcceptConnection, StreamTypes
  <2>4. RecordTypes'
    BY Zenon, <1>0, <1>6, TypesKept DEF AcceptConnection
  <2>5. LocalTypes'
    BY Zenon, <1>0, <1>6 DEF AcceptConnection, LocalTypes, stopVars, Dispositions
  <2> QED BY Zenon, <2>2, <2>3, <2>4, <2>5
<1>7. ASSUME NEW c \in Connections, AcceptDrops(c)
      PROVE  PlaceTypes' /\ StreamTypes' /\ RecordTypes' /\ LocalTypes'
  <2>1. PlaceTypes'
    BY Zenon, <1>3, <1>4, <1>5, <1>7 DEF AcceptDrops
  <2>2. StreamTypes' /\ RecordTypes'
    BY Zenon, <1>0, <1>7, TypesKept DEF AcceptDrops
  <2>3. LocalTypes'
    BY Zenon, <1>0, <1>7 DEF AcceptDrops, LocalTypes, stopVars, Dispositions
  <2> QED BY Zenon, <2>1, <2>2, <2>3
<1>8. CASE AcceptFails
  <2>1. PlaceTypes'
    BY Zenon, <1>2, <1>4, <1>8 DEF AcceptFails
  <2>2. StreamTypes' /\ RecordTypes'
    BY Zenon, <1>0, <1>8, TypesKept DEF AcceptFails
  <2>3. LocalTypes'
    BY Zenon, <1>0, <1>8 DEF AcceptFails, LocalTypes, stopVars, Dispositions
  <2> QED BY Zenon, <2>1, <2>2, <2>3
<1>9. CASE RunThrows
  <2>1. PlaceTypes' /\ StreamTypes'
    BY Zenon, <1>1, <1>4, <1>9 DEF RunThrows
  <2>2. RecordTypes'
    BY Zenon, <1>0, <1>9, TypesKept DEF RunThrows
  <2>3. LocalTypes'
    BY Zenon, <1>0, <1>9 DEF RunThrows, LocalTypes, stopVars
  <2> QED BY Zenon, <2>1, <2>2, <2>3
<1>10. CASE AfterAccept
  <2>1. PlaceTypes' /\ StreamTypes'
    BY Zenon, <1>0, <1>1, <1>2, <1>4, <1>10, TypesKept DEF AfterAccept
  <2>2. RecordTypes'
    BY Zenon, <1>0, <1>10, TypesKept DEF AfterAccept
  <2>3. LocalTypes'
    BY Zenon, <1>0, <1>10 DEF AfterAccept, LocalTypes, stopVars, Dispositions
  <2> QED BY Zenon, <2>1, <2>2, <2>3
<1>11. CASE Reap
  <2>1. PlaceTypes'
    BY Zenon, <1>0, <1>2, <1>4, <1>11 DEF Reap, PlaceTypes
  <2>2. StreamTypes'
    BY Zenon, <1>0, <1>11, TypesKept DEF Reap
  <2>3. handlers' = handlers \/ (scan \in 1..Len(handlers) /\ handlers' = Erased(handlers, scan))
    BY <1>0, <1>11 DEF Reap, RecordInv, RecordTypes, LocalTypes
  <2>4. handlers' \in Seq(Connections)
    BY <1>0, <2>3, ErasedProperties DEF RecordTypes
  <2>5. RecordTypes'
    BY Zenon, <1>0, <1>11, <2>4 DEF Reap, RecordTypes
  <2>6. LocalTypes'
    BY <1>0, <1>11 DEF Reap, LocalTypes, stopVars
  <2> QED BY Zenon, <2>1, <2>2, <2>5, <2>6
<1>12. CASE Admit
  <2>1. PlaceTypes' /\ StreamTypes'
    BY Zenon, <1>0, <1>1, <1>2, <1>4, <1>12, TypesKept DEF Admit
  <2>2. RecordTypes'
    BY Zenon, <1>0, <1>12, TypesKept DEF Admit
  <2>3. LocalTypes'
    BY Zenon, <1>0, <1>12 DEF Admit, LocalTypes, stopVars
  <2> QED BY Zenon, <2>1, <2>2, <2>3
<1>13. CASE Reserve
  <2>1. pc[Main] = "reserve" /\ active_handlers < maximum_active_connections
    BY Zenon, <1>13 DEF Reserve, SlotInv, Goto
  <2>2. PlaceTypes'
    BY Zenon, <1>2, <1>4, <1>13 DEF Reserve
  <2>3. StreamTypes'
    BY Zenon, <1>0, <1>13, TypesKept DEF Reserve
  <2>4. RecordTypes'
    BY <1>0, <1>13, <2>1 DEF Reserve, RecordTypes
  <2>5. LocalTypes'
    BY Zenon, <1>0, <1>13 DEF Reserve, LocalTypes, stopVars
  <2> QED BY Zenon, <2>2, <2>3, <2>4, <2>5
<1>14. CASE Spawn
  <2>1. incoming \in Connections
    BY Zenon, <1>0, <1>14 DEF Spawn, IncomingInv, StreamTypes
  <2>2. PlaceTypes'
    BY Zenon, <1>3, <1>4, <1>5, <1>14, <2>1 DEF Spawn
  <2>3. StreamTypes'
    BY Zenon, <1>0, <1>14 DEF Spawn, StreamTypes, connectionVars
  <2>4. handlers' \in Seq(Connections)
    BY <1>0, <1>14, <2>1 DEF Spawn, RecordTypes
  <2>5. RecordTypes'
    BY Zenon, <1>0, <1>14, <2>4 DEF Spawn, RecordTypes
  <2>6. LocalTypes'
    BY Zenon, <1>0, <1>14 DEF Spawn, LocalTypes, stopVars
  <2> QED BY Zenon, <2>2, <2>3, <2>5, <2>6
<1>15. CASE SpawnFails
  <2>1. active_handlers - 1 \in 0..maximum_active_connections
    BY <1>0, <1>15, SlotCount DEF SpawnFails, RecordTypes
  <2>2. PlaceTypes' /\ StreamTypes'
    BY Zenon, <1>0, <1>1, <1>2, <1>4, <1>15, TypesKept DEF SpawnFails
  <2>3. RecordTypes'
    BY Zenon, <1>0, <1>15, <2>1 DEF SpawnFails, RecordTypes
  <2>4. LocalTypes'
    BY Zenon, <1>0, <1>15 DEF SpawnFails, LocalTypes, stopVars
  <2> QED BY Zenon, <2>2, <2>3, <2>4
<1>16. CASE SwapHandlers
  <2>1. PlaceTypes'
    BY Zenon, <1>2, <1>4, <1>16 DEF SwapHandlers
  <2>2. StreamTypes'
    BY Zenon, <1>0, <1>16, TypesKept DEF SwapHandlers, runVars
  <2>3. RecordTypes'
    BY <1>0, <1>16 DEF SwapHandlers, RecordTypes
  <2>4. LocalTypes'
    BY Zenon, <1>0, <1>16 DEF SwapHandlers, LocalTypes, stopVars, runVars
  <2> QED BY Zenon, <2>1, <2>2, <2>3, <2>4
<1>17. CASE JoinHandlers
  <2>1. PlaceTypes'
    BY Zenon, <1>0, <1>2, <1>4, <1>17 DEF JoinHandlers, PlaceTypes
  <2>2. StreamTypes'
    BY Zenon, <1>0, <1>17, TypesKept DEF JoinHandlers, runVars
  <2>3. \A s \in Seq(Connections) : s # <<>> => Tail(s) \in Seq(Connections)
    OBVIOUS
  <2>4. RecordTypes'
    BY Zenon, <1>0, <1>17, <2>3 DEF JoinHandlers, RecordTypes
  <2>5. LocalTypes'
    BY Zenon, <1>0, <1>17 DEF JoinHandlers, LocalTypes, stopVars, runVars
  <2> QED BY Zenon, <2>1, <2>2, <2>4, <2>5
<1>18. CASE RemoveNode
  <2>1. PlaceTypes' /\ StreamTypes'
    BY Zenon, <1>1, <1>4, <1>18 DEF RemoveNode
  <2>2. RecordTypes'
    BY Zenon, <1>0, <1>18, TypesKept DEF RemoveNode
  <2>3. LocalTypes'
    BY Zenon, <1>0, <1>18 DEF RemoveNode, LocalTypes, stopVars
  <2> QED BY Zenon, <2>1, <2>2, <2>3
<1>19. CASE Destroy
  <2>1. PlaceTypes'
    BY Zenon, <1>2, <1>4, <1>19 DEF Destroy
  <2>2. StreamTypes' /\ RecordTypes'
    BY Zenon, <1>0, <1>19, TypesKept DEF Destroy
  <2>3. LocalTypes'
    BY Zenon, <1>0, <1>19 DEF Destroy, LocalTypes, stopVars
  <2> QED BY Zenon, <2>1, <2>2, <2>3
<1> QED BY Zenon, <1>6, <1>7, <1>8, <1>9, <1>10, <1>11, <1>12, <1>13, <1>14, <1>15,
           <1>16, <1>17, <1>18, <1>19 DEF RunChange

\* Every step keeps the types.
LEMMA TypesStep ==
  ASSUME Typed, FileInv, IncomingInv, RecordInv, SlotInv, [Next]_vars
  PROVE  Typed'
<1> Main \in Threads /\ Waiter \in Threads /\ Connections \subseteq Threads
  BY Zenon DEF Threads
<1>1. ASSUME NEW c \in Connections, HandlerMove(c), UNCHANGED processVars
      PROVE  Typed'
  <2>1. /\ ServerKept /\ pc' = [pc EXCEPT ![c] = pc'[c]]
        /\ accepted_shutdown' \in [Connections -> BOOLEAN]
        /\ pc'[c] \in HandlerStates
    BY Zenon, <1>1, HandlerMoves DEF HandlerStates, StopSteps
  <2> QED BY ZenonT(60), <1>1, <2>1 DEF Typed, TypeOK, ServerTypeOK, ServerKept, stopVars,
             recordVars, runVars, processVars, Places
<1>2. ASSUME MainMove
      PROVE  Typed'
  <2>1. /\ ServerKept /\ pc' = [pc EXCEPT ![Main] = pc'[Main]]
        /\ accepted_shutdown' = accepted_shutdown
        /\ pc'[Main] \in MainStates
    BY Zenon, <1>2, MainMoves DEF MainStates, RunStates, StopSteps
  <2>2. /\ pending' \subseteq Signals /\ missed' \subseteq Signals
        /\ wake' \in BOOLEAN /\ complete_' \in BOOLEAN /\ error_' \in BOOLEAN
    BY Zenon, <1>2 DEF MainMove, FinishStore, FinishWake, FinishJoin, Unwind,
                RestoreInspect, RestoreDrain, RestoreMask, processVars, Typed, TypeOK
  <2> QED BY Zenon, <2>1, <2>2 DEF Typed, TypeOK, ServerTypeOK, ServerKept, stopVars,
             recordVars, runVars, Places
<1>3. ASSUME WaiterMove
      PROVE  Typed'
  <2>1. /\ ServerKept /\ pc' = [pc EXCEPT ![Waiter] = pc'[Waiter]]
        /\ accepted_shutdown' = accepted_shutdown
        /\ pc'[Waiter] \in {"sigwait", "stop", "done"}
    BY Zenon, <1>3, WaiterMoves
  <2>2. /\ pending' \subseteq Signals /\ missed' \subseteq Signals
        /\ wake' \in BOOLEAN /\ complete_' \in BOOLEAN /\ error_' \in BOOLEAN
    BY Zenon, <1>3 DEF WaiterMove, WaitStopSignal, WaitWake, WaitFails, Typed, TypeOK
  <2> QED BY ZenonT(60), <2>1, <2>2 DEF Typed, TypeOK, ServerTypeOK, ServerKept, stopVars,
             recordVars, runVars, Places, HandlerStates, StopSteps
<1>4. ASSUME NEW s \in Signals, SignalArrives(s)
      PROVE  Typed'
  BY ZenonT(60), <1>4 DEF SignalArrives, serverVars, Typed, TypeOK, ServerTypeOK
<1>5. CASE UNCHANGED vars
  BY Zenon, <1>5 DEF vars, serverVars, processVars, Typed, TypeOK, ServerTypeOK
<1> QED BY Zenon, StepKinds, <1>1, <1>2, <1>3, <1>4, <1>5, HandlerEndTypes, StopTypes,
           RunTypes

-----------------------------------------------------------------------------
(* What the other two kinds of step leave alone                              *)

\* A handler that registers, or gives back what it had.
LEMMA HandlerEnds ==
  ASSUME Typed, NEW c \in Connections, HandlerEnd(c)
  PROVE  /\ UNCHANGED <<stopVars, shut, accepted_shutdown, descriptor, handlers, owned,
                        runVars>>
         /\ pc' = [pc EXCEPT ![c] = pc'[c]]
         /\ <<pc[c], pc'[c]>> \in
              {<<"register", "loop">>, <<"register", "close">>, <<"erase", "close">>,
               <<"close", "finish">>, <<"finish", "release">>, <<"release", "exit">>}
         /\ file'[ListenerFd] = Listener <=> file[ListenerFd] = Listener
<1> c \in Threads /\ c # Listener
  BY Zenon DEF Threads
<1>0. ListenerFd \in Fds
  BY FS_CardinalityType DEF ListenerFd, Fds
<1> USE DEF Typed, Goto, connectionVars, stopVars, recordVars, runVars
<1>1. CASE Register(c)
  BY Zenon, <1>1 DEF Register
<1>2. CASE Erase(c)
  BY Zenon, <1>2 DEF Erase
<1>3. CASE CloseConnection(c)
  <2>1. file'[ListenerFd] = Listener <=> file[ListenerFd] = Listener
    BY Zenon, <1>0, <1>3 DEF CloseConnection, Closed
  <2> QED BY Zenon, <1>3, <2>1 DEF CloseConnection
<1>4. CASE Finish(c)
  BY Zenon, <1>4 DEF Finish
<1>5. CASE ReleaseSlot(c)
  BY Zenon, <1>5 DEF ReleaseSlot
<1> QED BY Zenon, <1>1, <1>2, <1>3, <1>4, <1>5 DEF HandlerEnd

\* Main moves connections only into the process, to a thread, or out of it.
LEMMA RunChanges ==
  ASSUME Typed, FileInv, IncomingInv, RunChange
  PROVE  /\ UNCHANGED <<stopVars, shut, active_connections, accepted_shutdown,
                        finished>>
         /\ \A t \in Threads \ {Main} :
              \/ pc'[t] = pc[t]
              \/ pc[t] = "backlog" /\ pc'[t] \in {"held", "dropped"}
              \/ pc[t] = "held" /\ pc'[t] = "dropped"
              \/ Spawn /\ pc[t] = "held" /\ pc'[t] = "register"
         /\ pc[Main] \notin StopperStates /\ pc'[Main] \notin StopperStates
         /\ file'[ListenerFd] = Listener <=> file[ListenerFd] = Listener
<1> Main \in Threads /\ Waiter \in Threads /\ Connections \subseteq Threads
  BY Zenon DEF Threads
<1>0. ListenerFd \in Fds
  BY FS_CardinalityType DEF ListenerFd, Fds
<1> DEFINE MovesOnly ==
             /\ \A t \in Threads \ {Main} :
                  \/ pc'[t] = pc[t]
                  \/ pc[t] = "backlog" /\ pc'[t] \in {"held", "dropped"}
                  \/ pc[t] = "held" /\ pc'[t] = "dropped"
                  \/ Spawn /\ pc[t] = "held" /\ pc'[t] = "register"
             /\ pc'[Main] \notin StopperStates
             /\ file'[ListenerFd] = Listener <=> file[ListenerFd] = Listener
             /\ UNCHANGED <<active_connections, accepted_shutdown, shut>>
<1>1. ASSUME NEW next \in MainStates \ StopperStates, DropIncoming(next)
      PROVE  MovesOnly
  <2>1. /\ pc'[Main] = next
        /\ \A t \in Threads \ {Main} :
             pc'[t] = IF t = incoming THEN "dropped" ELSE pc[t]
        /\ file'[ListenerFd] = Listener <=> file[ListenerFd] = Listener
        /\ UNCHANGED <<active_connections, accepted_shutdown, descriptor, shut>>
    BY Zenon, <1>1, Dropped
  <2>2. ASSUME NEW t \in Threads \ {Main}, t = incoming
        PROVE  pc[t] = "held"
    BY Zenon, <2>2 DEF IncomingInv, Typed, TypeOK, ServerTypeOK, Threads
  <2> QED BY Zenon, <2>1, <2>2
<1>2. ASSUME NEW b \in MainStates \ StopperStates, pc' = [pc EXCEPT ![Main] = b],
             UNCHANGED connectionVars
      PROVE  MovesOnly
  BY Zenon, <1>2 DEF Typed, connectionVars
<1>a. \A b \in {"accepted", "stop", "loop", "reap", "admit", "reserve", "spawn",
                "join", "remove", "returned", "destroyed"} :
        b \in MainStates \ StopperStates
  BY Zenon DEF MainStates, RunStates, StopSteps, StopperStates
<1>b. SUFFICES /\ pc[Main] \notin StopperStates /\ MovesOnly
               /\ UNCHANGED <<stopVars, finished>>
  BY Zenon DEF stopVars
<1> USE DEF Typed, Goto, StopperStates, stopVars, recordVars
<1>3. ASSUME NEW c \in Connections, AcceptConnection(c)
      PROVE  /\ pc[Main] \notin StopperStates /\ MovesOnly
             /\ UNCHANGED <<stopVars, finished>>
  <2>1. LowestFree \in Fds /\ file[LowestFree] = None
    BY Zenon, <1>3, FreeDescriptor DEF AcceptConnection
  <2>2. file'[ListenerFd] = Listener <=> file[ListenerFd] = Listener
    BY Zenon, <1>0, <1>3, <2>1 DEF AcceptConnection, TypeOK, ServerTypeOK
  <2> QED BY Zenon, <1>3, <2>2 DEF AcceptConnection
<1>4. ASSUME NEW c \in Connections, AcceptDrops(c)
      PROVE  /\ pc[Main] \notin StopperStates /\ MovesOnly
             /\ UNCHANGED <<stopVars, finished>>
  BY Zenon, <1>4 DEF AcceptDrops, connectionVars
<1> HIDE DEF MovesOnly, Typed
<1>5. CASE AcceptFails
  BY Zenon, <1>5, <1>2, <1>a DEF AcceptFails
<1>6. CASE RunThrows
  BY Zenon, <1>6, <1>1, <1>a DEF RunThrows
<1>7. CASE AfterAccept
  BY Zenon, <1>7, <1>1, <1>2, <1>a DEF AfterAccept
<1>8. CASE Reap
  <2>1. CASE pc' = pc
    BY Zenon, <1>8, <2>1 DEF Reap, MovesOnly, connectionVars
  <2>2. CASE Goto(Main, "reap", "admit")
    BY Zenon, <1>8, <2>2, <1>2, <1>a DEF Reap
  <2> QED BY Zenon, <1>8, <2>1, <2>2 DEF Reap
<1>9. CASE Admit
  BY Zenon, <1>9, <1>1, <1>2, <1>a DEF Admit
<1>10. CASE Reserve
  BY Zenon, <1>10, <1>2, <1>a DEF Reserve
<1>11. CASE Spawn
  <2>1. incoming \in Connections /\ pc[incoming] = "held"
    BY Zenon, <1>11 DEF Spawn, IncomingInv, Typed, TypeOK, ServerTypeOK
  <2> QED BY Zenon, <1>11, <2>1 DEF Spawn, MovesOnly, Typed, connectionVars
<1>12. CASE SpawnFails
  BY Zenon, <1>12, <1>1, <1>2, <1>a DEF SpawnFails
<1>13. CASE SwapHandlers
  BY Zenon, <1>13, <1>2, <1>a DEF SwapHandlers
<1>14. CASE JoinHandlers
  <2>1. CASE pc' = pc
    BY Zenon, <1>14, <2>1 DEF JoinHandlers, MovesOnly, connectionVars
  <2>2. CASE Goto(Main, "join", "remove")
    BY Zenon, <1>14, <2>2, <1>2, <1>a DEF JoinHandlers
  <2> QED BY Zenon, <1>14, <2>1, <2>2 DEF JoinHandlers
<1>15. CASE RemoveNode
  BY Zenon, <1>15, <1>1, <1>a DEF RemoveNode
<1>16. CASE Destroy
  BY Zenon, <1>16, <1>2, <1>a DEF Destroy
<1> QED BY Zenon, <1>3, <1>4, <1>5, <1>6, <1>7, <1>8, <1>9, <1>10, <1>11, <1>12,
           <1>13, <1>14, <1>15, <1>16 DEF RunChange

-----------------------------------------------------------------------------
(* The listener is taken once, by a thread that is still at it               *)

\* A step outside stop, with the listener as it was, keeps the invariant.
LEMMA ListenerKept ==
  ASSUME ListenerInv, UNCHANGED stopVars, Listener \in shut' => Listener \in shut,
         file'[ListenerFd] = Listener <=> file[ListenerFd] = Listener,
         \A t \in Threads : pc'[t] = pc[t] \/ {pc[t], pc'[t]} \cap StopperStates = {}
  PROVE  ListenerInv'
<1>1. \A t \in Threads : pc'[t] \in StopperStates \/ pc[t] \in StopperStates =>
                           pc'[t] = pc[t]
  BY Zenon
<1> QED BY Zenon, <1>1 DEF ListenerInv, Stopper, StopperStates, stopVars, ListenerFd, NoFd

\* stop itself: the flag, the exchange of the descriptor, shutdown and close.
LEMMA ListenerStop ==
  ASSUME Typed, ListenerInv, NEW t \in Threads, StopStep(t)
  PROVE  ListenerInv'
<1> USE DEF Typed, Goto, stopVars, connectionVars, ListenerFd, NoFd
<1>0. AfterStop(t) \in {"swap", "done", "erase"}
  BY Zenon DEF AfterStop
<1>1. CASE StopExchange(t)
  <2>1. CASE stopping
    <3>1. pc' = [pc EXCEPT ![t] = AfterStop(t)] /\ pc[t] = "stop"
      BY Zenon, <1>1, <2>1 DEF StopExchange
    <3>2. \A u \in Threads : pc'[u] = pc[u] \/ {pc[u], pc'[u]} \cap StopperStates = {}
      BY Zenon, <3>1, <1>0 DEF StopperStates
    <3>3. UNCHANGED <<stopVars, shut, file>>
      BY Zenon, <1>1, <2>1 DEF StopExchange, TypeOK, ServerTypeOK
    <3> QED BY Zenon, <3>2, <3>3, ListenerKept
  <2>2. CASE ~stopping
    <3>1. pc' = [pc EXCEPT ![t] = "listener"] /\ pc[t] = "stop" /\ stopping'
      BY Zenon, <1>1, <2>2 DEF StopExchange
    <3>2. UNCHANGED <<listener_fd, shut, file>>
      BY Zenon, <1>1 DEF StopExchange
    <3> QED BY Zenon, <2>2, <3>1, <3>2 DEF ListenerInv, Stopper, StopperStates
  <2> QED BY Zenon, <2>1, <2>2
<1>2. CASE StopTakeListener(t)
  <2>1. UNCHANGED <<stopping, shut, file>> /\ listener_fd' = NoFd /\ pc[t] = "listener"
    BY Zenon, <1>2 DEF StopTakeListener
  <2>2. CASE listener_fd = NoFd
    <3>1. pc' = [pc EXCEPT ![t] = "sweep"]
      BY Zenon, <1>2, <2>2 DEF StopTakeListener
    <3> QED BY Zenon, <2>1, <2>2, <3>1 DEF ListenerInv, Stopper, StopperStates
  <2>3. CASE listener_fd = ListenerFd
    <3>1. pc' = [pc EXCEPT ![t] = "shutdown"]
      BY <1>2, <2>3 DEF StopTakeListener
    <3> QED BY Zenon, <2>1, <2>3, <3>1 DEF ListenerInv, Stopper, StopperStates
  <2> QED BY Zenon, <2>2, <2>3 DEF TypeOK, ServerTypeOK
<1>3. CASE StopShutdownListener(t)
  <2>1. /\ UNCHANGED <<stopVars, file>> /\ pc[t] = "shutdown"
        /\ pc' = [pc EXCEPT ![t] = "close_listener"]
    BY Zenon, <1>3 DEF StopShutdownListener
  <2> QED BY Zenon, <2>1 DEF ListenerInv, Stopper, StopperStates
<1>4. CASE StopCloseListener(t)
  <2>1. /\ UNCHANGED <<stopVars, shut>> /\ pc[t] = "close_listener" /\ pc'[t] = "sweep"
        /\ \A u \in Threads \ {t} :
             pc'[u] = pc[u] \/ (pc[u] = "backlog" /\ pc'[u] = "dropped")
    BY Zenon, <1>4 DEF StopCloseListener
  <2>2. ListenerFd \in Fds
    BY FS_CardinalityType DEF Fds
  <2>3. file'[ListenerFd] = None
    BY Zenon, <1>4, <2>2 DEF StopCloseListener, TypeOK, ServerTypeOK
  <2> QED BY Zenon, <2>1, <2>3 DEF ListenerInv, Stopper, StopperStates
<1>5. CASE StopSweep(t)
  <2>1. /\ UNCHANGED <<stopVars, file>> /\ pc[t] = "sweep"
        /\ pc' = [pc EXCEPT ![t] = AfterStop(t)]
    BY Zenon, <1>5 DEF StopSweep
  <2> QED BY Zenon, <1>0, <2>1 DEF ListenerInv, Stopper, StopperStates
<1> QED BY Zenon, <1>1, <1>2, <1>3, <1>4, <1>5 DEF StopStep

\* Every step keeps the invariant of the listener.
LEMMA ListenerStep ==
  ASSUME Typed, FileInv, IncomingInv, ListenerInv, [Next]_vars
  PROVE  ListenerInv'
<1>1. ASSUME NEW c \in Connections, HandlerMove(c)
      PROVE  ListenerInv'
  <2>1. /\ ServerKept /\ pc' = [pc EXCEPT ![c] = pc'[c]]
        /\ {pc[c], pc'[c]} \cap StopperStates = {}
    BY Zenon, <1>1, HandlerMoves DEF StopperStates
  <2> QED BY Zenon, <2>1, ListenerKept DEF ServerKept, stopVars, Typed
<1>2. ASSUME NEW c \in Connections, HandlerEnd(c)
      PROVE  ListenerInv'
  <2>1. /\ UNCHANGED <<stopVars, shut>> /\ pc' = [pc EXCEPT ![c] = pc'[c]]
        /\ {pc[c], pc'[c]} \cap StopperStates = {}
        /\ file'[ListenerFd] = Listener <=> file[ListenerFd] = Listener
    BY Zenon, <1>2, HandlerEnds DEF StopperStates
  <2> QED BY Zenon, <2>1, ListenerKept DEF Typed
<1>3. CASE MainMove
  <2>1. /\ ServerKept /\ pc' = [pc EXCEPT ![Main] = pc'[Main]]
        /\ {pc[Main], pc'[Main]} \cap StopperStates = {}
    BY Zenon, <1>3, MainMoves DEF StopperStates
  <2> QED BY Zenon, <2>1, ListenerKept DEF ServerKept, stopVars, Typed
<1>4. CASE WaiterMove
  <2>1. /\ ServerKept /\ pc' = [pc EXCEPT ![Waiter] = pc'[Waiter]]
        /\ {pc[Waiter], pc'[Waiter]} \cap StopperStates = {}
    BY Zenon, <1>4, WaiterMoves DEF StopperStates
  <2> QED BY Zenon, <2>1, ListenerKept DEF ServerKept, stopVars, Typed
<1>5. CASE RunChange
  <2>1. /\ UNCHANGED <<stopVars, shut>>
        /\ \A t \in Threads : pc'[t] = pc[t] \/ {pc[t], pc'[t]} \cap StopperStates = {}
        /\ file'[ListenerFd] = Listener <=> file[ListenerFd] = Listener
    BY Zenon, <1>5, RunChanges DEF StopperStates
  <2> QED BY Zenon, <2>1, ListenerKept
<1>6. CASE UNCHANGED serverVars
  BY Zenon, <1>6, ListenerKept DEF serverVars, stopVars
<1> QED BY Zenon, StepKinds, <1>1, <1>2, <1>3, <1>4, <1>5, <1>6, ListenerStop
        DEF SignalArrives, vars

-----------------------------------------------------------------------------
(* Numbers stand for the streams of their owners                             *)

\* A step that opens and closes nothing.
LEMMA FileKept ==
  ASSUME FileInv, UNCHANGED <<file, descriptor>>,
         \A c \in Connections : pc'[c] \in OpenStates <=> pc[c] \in OpenStates
  PROVE  FileInv'
  BY Zenon DEF FileInv

\* UniqueDescriptor closes the stream of x, whose thread is done with it.
LEMMA FileClosed ==
  ASSUME Typed, FileInv, NEW x \in Connections \cup {None},
         file' = Closed(file, x), descriptor' = descriptor,
         \A c \in Connections : pc'[c] \in OpenStates <=> pc[c] \in OpenStates /\ c # x
  PROVE  FileInv'
<1>1. \A d \in Fds : file'[d] = IF file[d] = x THEN None ELSE file[d]
  BY Zenon DEF Closed
<1>2. \A d \in Fds : file'[d] \in Connections \cup {Listener} => file'[d] = file[d]
                                                           /\ file[d] # x
  BY Zenon, <1>1
<1>3. \A d \in Fds : file'[d] \in Connections =>
        descriptor[file'[d]] = d /\ pc'[file'[d]] \in OpenStates
  BY Zenon, <1>2 DEF FileInv
<1>4. \A d \in Fds : file'[d] = Listener => d = ListenerFd
  BY Zenon, <1>2 DEF FileInv
<1>5. \A c \in Connections : pc'[c] \in OpenStates =>
        descriptor[c] \in Fds /\ file'[descriptor[c]] = c
  BY Zenon, <1>1 DEF FileInv
<1> QED BY Zenon, <1>3, <1>4, <1>5 DEF FileInv

\* stop closes the listener, whose number nothing else had.
LEMMA FileStop ==
  ASSUME Typed, ListenerInv, FileInv, NEW t \in Threads, StopStep(t)
  PROVE  FileInv'
<1> USE DEF Typed, Goto, stopVars, connectionVars
<1>0. /\ t \in Connections => AfterStop(t) = "erase"
      /\ \A b \in StopSteps \cup {"erase"} : b \in OpenStates
  BY Zenon DEF AfterStop, OpenStates, ServingStates
<1>1. ASSUME UNCHANGED <<file, descriptor>>, pc[t] \in StopSteps,
             NEW b \in StopSteps \cup {AfterStop(t)}, pc' = [pc EXCEPT ![t] = b]
      PROVE  FileInv'
  <2>1. \A c \in Connections : pc'[c] \in OpenStates <=> pc[c] \in OpenStates
    BY <1>0, <1>1
  <2> QED BY Zenon, <1>1, <2>1, FileKept
<1>2. CASE StopExchange(t)
  BY Zenon, <1>1, <1>2 DEF StopExchange, StopSteps
<1>3. CASE StopTakeListener(t)
  BY Zenon, <1>1, <1>3 DEF StopTakeListener, StopSteps
<1>4. CASE StopShutdownListener(t)
  BY Zenon, <1>1, <1>4 DEF StopShutdownListener, StopSteps
<1>5. CASE StopCloseListener(t)
  <2>1. /\ descriptor' = descriptor /\ file' = [file EXCEPT ![ListenerFd] = None]
        /\ file[ListenerFd] = Listener
    BY Zenon, <1>5 DEF StopCloseListener, ListenerInv
  <2>2. \A u \in Threads : pc'[u] = pc[u] \/ (u = t /\ pc[u] = "close_listener"
                                              /\ pc'[u] = "sweep")
                           \/ (pc[u] = "backlog" /\ pc'[u] = "dropped")
    BY Zenon, <1>5 DEF StopCloseListener
  <2>3. \A c \in Connections : pc'[c] \in OpenStates <=> pc[c] \in OpenStates
    BY Zenon, <2>2 DEF OpenStates, ServingStates, StopSteps, Threads
  <2>4. \A d \in Fds : file'[d] = IF d = ListenerFd THEN None ELSE file[d]
    BY Zenon, <2>1 DEF TypeOK, ServerTypeOK
  <2> QED BY <2>1, <2>3, <2>4 DEF FileInv
<1>6. CASE StopSweep(t)
  BY Zenon, <1>1, <1>6 DEF StopSweep, StopSteps
<1> QED BY Zenon, <1>2, <1>3, <1>4, <1>5, <1>6 DEF StopStep

\* Main opens a stream when it accepts and closes it when it refuses.
LEMMA FileRun ==
  ASSUME Typed, FileInv, IncomingInv, RunChange
  PROVE  FileInv'
<1> Main \in Threads /\ Connections \subseteq Threads
  BY Zenon DEF Threads
<1> USE DEF Typed, Goto, connectionVars
<1>1. ASSUME NEW next \in MainStates, DropIncoming(next)
      PROVE  FileInv'
  <2>1. /\ \A t \in Threads \ {Main} :
             pc'[t] = IF t = incoming THEN "dropped" ELSE pc[t]
        /\ file' = Closed(file, incoming) /\ descriptor' = descriptor
    BY Zenon, <1>1, Dropped
  <2>2. incoming \in Connections \cup {None}
    BY Zenon DEF TypeOK, ServerTypeOK
  <2>3. \A c \in Connections :
          pc'[c] \in OpenStates <=> pc[c] \in OpenStates /\ c # incoming
    BY Zenon, <2>1 DEF OpenStates, ServingStates, StopSteps
  <2> QED BY Zenon, <2>1, <2>2, <2>3, FileClosed
<1>2. ASSUME NEW b, pc' = [pc EXCEPT ![Main] = b], UNCHANGED connectionVars
      PROVE  FileInv'
  BY Zenon, <1>2, FileKept
<1>a. \A b \in {"stop", "loop", "returned", "destroyed"} : b \in MainStates
  BY Zenon DEF MainStates, RunStates, StopSteps
<1>3. ASSUME NEW c \in Connections, AcceptConnection(c)
      PROVE  FileInv'
  <2> DEFINE d == LowestFree
  <2>1. d \in Fds /\ file[d] = None
    BY Zenon, <1>3, FreeDescriptor DEF AcceptConnection
  <2> HIDE DEF d
  <2>2. /\ pc[c] = "backlog"
        /\ pc' = [pc EXCEPT ![Main] = "accepted", ![c] = "held"]
        /\ descriptor' = [descriptor EXCEPT ![c] = d]
        /\ file' = [file EXCEPT ![d] = c]
    BY Zenon, <1>3 DEF AcceptConnection, d
  <2>3. c \notin {file[e] : e \in Fds}
    BY <2>2 DEF FileInv, OpenStates, ServingStates, StopSteps
  <2>4. \A u \in Connections : pc'[u] = IF u = c THEN "held" ELSE pc[u]
    BY Zenon, <2>2
  <2>5. \A e \in Fds : file'[e] = IF e = d THEN c ELSE file[e]
    BY Zenon, <2>1, <2>2 DEF TypeOK, ServerTypeOK
  <2>6. \A u \in Connections : descriptor'[u] = IF u = c THEN d ELSE descriptor[u]
    BY Zenon, <2>2 DEF TypeOK, ServerTypeOK
  <2>7. "held" \in OpenStates
    BY Zenon DEF OpenStates
  <2>8. \A e \in Fds : file'[e] \in Connections =>
          descriptor'[file'[e]] = e /\ pc'[file'[e]] \in OpenStates
    BY <2>3, <2>4, <2>5, <2>6, <2>7 DEF FileInv
  <2>9. \A e \in Fds : file'[e] = Listener => e = ListenerFd
    BY Zenon, <2>5 DEF FileInv
  <2>10. \A u \in Connections : pc'[u] \in OpenStates =>
           descriptor'[u] \in Fds /\ file'[descriptor'[u]] = u
    BY ZenonT(60), <2>1, <2>4, <2>5, <2>6 DEF FileInv
  <2> QED BY Zenon, <2>8, <2>9, <2>10 DEF FileInv
<1>4. ASSUME NEW c \in Connections, AcceptDrops(c)
      PROVE  FileInv'
  <2>1. \A u \in Connections : pc'[u] \in OpenStates <=> pc[u] \in OpenStates
    BY Zenon, <1>4 DEF AcceptDrops, OpenStates, ServingStates, StopSteps
  <2> QED BY Zenon, <1>4, <2>1, FileKept DEF AcceptDrops
<1>5. CASE AcceptFails
  BY Zenon, <1>5, <1>2 DEF AcceptFails
<1>6. CASE RunThrows
  BY Zenon, <1>6, <1>1, <1>a DEF RunThrows
<1>7. CASE AfterAccept
  BY Zenon, <1>7, <1>1, <1>2, <1>a DEF AfterAccept
<1>8. CASE Reap
  <2>1. CASE pc' = pc
    BY Zenon, <1>8, <2>1, FileKept DEF Reap
  <2>2. CASE Goto(Main, "reap", "admit")
    BY Zenon, <1>8, <2>2, <1>2 DEF Reap
  <2> QED BY Zenon, <1>8, <2>1, <2>2 DEF Reap
<1>9. CASE Admit
  BY Zenon, <1>9, <1>1, <1>2, <1>a DEF Admit
<1>10. CASE Reserve
  BY Zenon, <1>10, <1>2 DEF Reserve
<1>11. CASE Spawn
  <2>1. incoming \in Connections /\ pc[incoming] = "held"
    BY Zenon, <1>11 DEF Spawn, IncomingInv, TypeOK, ServerTypeOK
  <2>2. \A u \in Connections : pc'[u] = IF u = incoming THEN "register" ELSE pc[u]
    BY Zenon, <1>11, <2>1 DEF Spawn
  <2>3. \A u \in Connections : pc'[u] \in OpenStates <=> pc[u] \in OpenStates
    BY Zenon, <2>1, <2>2 DEF OpenStates
  <2> QED BY Zenon, <1>11, <2>3, FileKept DEF Spawn
<1>12. CASE SpawnFails
  BY Zenon, <1>12, <1>1, <1>2, <1>a DEF SpawnFails
<1>13. CASE SwapHandlers
  BY Zenon, <1>13, <1>2 DEF SwapHandlers
<1>14. CASE JoinHandlers
  <2>1. CASE pc' = pc
    BY Zenon, <1>14, <2>1, FileKept DEF JoinHandlers
  <2>2. CASE Goto(Main, "join", "remove")
    BY Zenon, <1>14, <2>2, <1>2 DEF JoinHandlers
  <2> QED BY Zenon, <1>14, <2>1, <2>2 DEF JoinHandlers
<1>15. CASE RemoveNode
  BY Zenon, <1>15, <1>1, <1>a DEF RemoveNode
<1>16. CASE Destroy
  BY Zenon, <1>16, <1>2 DEF Destroy
<1> QED BY Zenon, <1>3, <1>4, <1>5, <1>6, <1>7, <1>8, <1>9, <1>10, <1>11, <1>12,
           <1>13, <1>14, <1>15, <1>16 DEF RunChange

\* Every step keeps the numbers and their streams together.
LEMMA FileStep ==
  ASSUME Typed, ListenerInv, FileInv, IncomingInv, [Next]_vars
  PROVE  FileInv'
<1> Connections \subseteq Threads /\ Main \notin Connections /\ Waiter \notin Connections
  BY Zenon DEF Threads
<1>1. ASSUME NEW c \in Connections, HandlerMove(c)
      PROVE  FileInv'
  <2>1. /\ ServerKept /\ pc' = [pc EXCEPT ![c] = pc'[c]]
        /\ pc[c] \in OpenStates <=> pc'[c] \in OpenStates
    BY Zenon, <1>1, HandlerMoves DEF OpenStates, ServingStates, StopSteps
  <2> QED BY Zenon, <2>1, FileKept DEF ServerKept, Typed
<1>2. ASSUME NEW c \in Connections, HandlerEnd(c)
      PROVE  FileInv'
  <2>1. /\ pc' = [pc EXCEPT ![c] = pc'[c]] /\ descriptor' = descriptor
        /\ <<pc[c], pc'[c]>> \in
             {<<"register", "loop">>, <<"register", "close">>, <<"erase", "close">>,
              <<"close", "finish">>, <<"finish", "release">>, <<"release", "exit">>}
    BY Zenon, <1>2, HandlerEnds
  <2>2. CASE CloseConnection(c)
    <3>1. file' = Closed(file, c) /\ pc[c] = "close" /\ pc'[c] = "finish"
      BY Zenon, <2>2 DEF CloseConnection, Goto, Typed
    <3>2. \A u \in Connections : pc'[u] \in OpenStates <=> pc[u] \in OpenStates /\ u # c
      BY Zenon, <2>1, <3>1 DEF OpenStates, ServingStates, StopSteps, Typed
    <3> QED BY Zenon, <2>1, <3>1, <3>2, FileClosed
  <2>3. CASE ~CloseConnection(c)
    <3>1. file' = file /\ pc[c] # "close"
      BY Zenon, <1>2, <2>3 DEF HandlerEnd, Register, Erase, Finish, ReleaseSlot, Goto,
                        connectionVars
    <3>2. pc[c] \in OpenStates <=> pc'[c] \in OpenStates
      BY Zenon, <2>1, <3>1 DEF OpenStates, ServingStates, StopSteps
    <3> QED BY Zenon, <2>1, <3>1, <3>2, FileKept DEF Typed
  <2> QED BY Zenon, <2>2, <2>3
<1>3. CASE MainMove
  <2>1. ServerKept /\ pc' = [pc EXCEPT ![Main] = pc'[Main]]
    BY Zenon, <1>3, MainMoves
  <2> QED BY Zenon, <2>1, FileKept DEF ServerKept, Typed
<1>4. CASE WaiterMove
  <2>1. ServerKept /\ pc' = [pc EXCEPT ![Waiter] = pc'[Waiter]]
    BY Zenon, <1>4, WaiterMoves
  <2> QED BY Zenon, <2>1, FileKept DEF ServerKept, Typed
<1>5. CASE UNCHANGED serverVars
  BY Zenon, <1>5, FileKept DEF serverVars
<1> QED BY Zenon, StepKinds, <1>1, <1>2, <1>3, <1>4, <1>5, FileStop, FileRun
        DEF SignalArrives, vars

-----------------------------------------------------------------------------
(* The accepted connection, and the order of the way down                    *)

\* What stop does to the places of threads, and what it leaves alone.
LEMMA StopMoves ==
  ASSUME Typed, ListenerInv, NEW t \in Threads, StopStep(t)
  PROVE  /\ UNCHANGED <<recordVars, runVars, active_connections, descriptor>>
         /\ stopping => stopping'
         /\ shut \subseteq shut'
         /\ pc[t] \in StopSteps /\ pc'[t] \in StopSteps \cup {AfterStop(t)}
         /\ pc'[t] = AfterStop(t) => stopping'
         /\ \A u \in Threads \ {t} :
              pc'[u] = pc[u] \/ (pc[u] = "backlog" /\ pc'[u] = "dropped")
<1> USE DEF Typed, Goto, StopSteps, connectionVars, stopVars
<1>0. AfterStop(t) \in {"swap", "done", "erase"}
  BY Zenon DEF AfterStop
<1>1. CASE StopExchange(t)
  BY Zenon, <1>1 DEF StopExchange
<1>2. CASE StopTakeListener(t)
  BY Zenon, <1>0, <1>2 DEF StopTakeListener
<1>3. CASE StopShutdownListener(t)
  BY Zenon, <1>0, <1>3 DEF StopShutdownListener
<1>4. CASE StopCloseListener(t)
  BY Zenon, <1>0, <1>4 DEF StopCloseListener
<1>5. CASE StopSweep(t)
  BY Zenon, <1>5 DEF StopSweep, ListenerInv, Stopper, StopperStates
<1> QED BY Zenon, <1>1, <1>2, <1>3, <1>4, <1>5 DEF StopStep

\* Where Main goes when it changes more than its place.
LEMMA RunPlaces ==
  ASSUME Typed, IncomingInv, RunChange
  PROVE  /\ <<pc[Main], pc'[Main]>> \in
              {<<"accept", "accepted">>, <<"accept", "returned">>,
               <<"admit", "returned">>, <<"accepted", "stop">>,
               <<"accepted", "loop">>, <<"accepted", "reap">>, <<"reap", "reap">>,
               <<"reap", "admit">>, <<"admit", "loop">>, <<"admit", "reserve">>,
               <<"reserve", "spawn">>, <<"reserve", "stop">>, <<"spawn", "loop">>,
               <<"spawn", "stop">>, <<"swap", "join">>, <<"join", "join">>,
               <<"join", "remove">>, <<"remove", "destroyed">>,
               <<"remove", "returned">>, <<"destroy", "stop">>}
         /\ destroying' = destroying \/ pc[Main] = "destroy"
         /\ pc'[Main] = "destroyed" => destroying
<1> Main \in Threads
  BY Zenon DEF Threads
<1>1. \A next \in MainStates : DropIncoming(next) => pc'[Main] = next
  BY Zenon, Dropped
<1>a. \A b \in {"stop", "loop", "returned", "destroyed"} : b \in MainStates
  BY Zenon DEF MainStates, RunStates, StopSteps
<1> USE DEF Goto
<1>2. \A b : Goto(Main, pc[Main], b) => pc'[Main] = b
  BY Zenon DEF Typed
<1>3. ASSUME NEW c \in Connections, AcceptConnection(c) \/ AcceptDrops(c)
      PROVE  pc[Main] = "accept" /\ pc'[Main] = "accepted" /\ destroying' = destroying
  BY Zenon, <1>3 DEF AcceptConnection, AcceptDrops, Typed
<1>4. CASE AcceptFails
  BY Zenon, <1>4, <1>2 DEF AcceptFails
<1>5. CASE RunThrows
  BY Zenon, <1>5, <1>1, <1>a DEF RunThrows
<1>6. CASE AfterAccept
  BY Zenon, <1>6, <1>1, <1>2, <1>a DEF AfterAccept
<1>7. CASE Reap
  BY Zenon, <1>7, <1>2 DEF Reap
<1>8. CASE Admit
  BY Zenon, <1>8, <1>1, <1>2, <1>a DEF Admit
<1>9. CASE Reserve
  BY Zenon, <1>9, <1>2 DEF Reserve
<1>10. CASE Spawn
  <2>1. incoming # Main
    BY Zenon DEF Typed, TypeOK, ServerTypeOK
  <2> QED BY Zenon, <1>10, <2>1 DEF Spawn, Typed
<1>11. CASE SpawnFails
  BY Zenon, <1>11, <1>1, <1>2, <1>a DEF SpawnFails
<1>12. CASE SwapHandlers
  BY Zenon, <1>12, <1>2 DEF SwapHandlers, runVars
<1>13. CASE JoinHandlers
  BY Zenon, <1>13, <1>2 DEF JoinHandlers, runVars
<1>14. CASE RemoveNode
  BY Zenon, <1>14, <1>1, <1>a DEF RemoveNode
<1>15. CASE Destroy
  BY Zenon, <1>15, <1>2 DEF Destroy
<1> QED BY Zenon, <1>3, <1>4, <1>5, <1>6, <1>7, <1>8, <1>9, <1>10, <1>11, <1>12,
           <1>13, <1>14, <1>15 DEF RunChange

\* Only Main touches the accepted connection and the results of accept.
LEMMA IncomingKept ==
  ASSUME IncomingInv, UNCHANGED <<incoming, disposition, outcome>>,
         stopping => stopping',
         \A c \in Connections : pc'[c] = "held" <=> pc[c] = "held",
         \/ pc'[Main] = pc[Main]
         \/ /\ incoming = None
            /\ pc'[Main] \notin {"accepted", "reap", "admit", "reserve", "spawn"}
         \/ pc'[Main] \in StopSteps \cup {"swap"}
  PROVE  IncomingInv'
<1>1. CASE pc'[Main] = pc[Main]
  BY Zenon, <1>1 DEF IncomingInv, FailureIsGenuine
<1>2. CASE /\ incoming = None
           /\ pc'[Main] \notin {"accepted", "reap", "admit", "reserve", "spawn"}
  BY Zenon, <1>2 DEF IncomingInv, FailureIsGenuine
<1>3. CASE pc'[Main] \in StopSteps \cup {"swap"}
  BY Zenon, <1>3 DEF IncomingInv, FailureIsGenuine, StopSteps, DestroyedStates
<1> QED BY Zenon, <1>1, <1>2, <1>3

\* Main accepts, refuses and hands over; a failure that only stop explains is
\* seen together with the flag.
LEMMA IncomingRun ==
  ASSUME Typed, ListenerInv, FileInv, IncomingInv, RunChange
  PROVE  IncomingInv'
<1> Main \in Threads /\ Connections \subseteq Threads /\ Main \notin Connections
  BY Zenon DEF Threads
<1> USE DEF Goto, stopVars, connectionVars, runVars
<1>0. stopping' = stopping
  BY Zenon, RunChanges
<1>1. ASSUME NEW next \in {"stop", "loop", "returned", "destroyed"},
             DropIncoming(next), disposition' \in {disposition, "Accepted"},
             outcome' # "Interrupted"
      PROVE  IncomingInv'
  <2>1. next \in MainStates
    BY Zenon DEF MainStates, RunStates, StopSteps
  <2>2. /\ pc'[Main] = next /\ incoming' = None
        /\ \A t \in Threads \ {Main} :
             pc'[t] = IF t = incoming THEN "dropped" ELSE pc[t]
    BY Zenon, <1>1, <2>1, Dropped
  <2>3. \A c \in Connections : pc'[c] # "held"
    BY Zenon, <2>2 DEF IncomingInv
  <2>4. \A c \in Connections : c # None
    BY Zenon
  <2> QED BY Zenon, <1>0, <1>1, <2>2, <2>3, <2>4 DEF IncomingInv, FailureIsGenuine
<1>2. ASSUME NEW b, pc' = [pc EXCEPT ![Main] = b]
      PROVE  pc'[Main] = b /\ \A c \in Connections : pc'[c] = pc[c]
  BY Zenon, <1>2 DEF Typed
<1>3. ASSUME NEW c \in Connections, AcceptConnection(c)
      PROVE  IncomingInv'
  <2>1. /\ pc[Main] = "accept" /\ incoming = None /\ incoming' = c
        /\ disposition' = "Accepted" /\ outcome' = outcome
        /\ pc' = [pc EXCEPT ![Main] = "accepted", ![c] = "held"]
    BY Zenon, <1>3 DEF AcceptConnection, IncomingInv
  <2>2. pc'[Main] = "accepted" /\ \A u \in Connections : pc'[u] = "held" <=> u = c
    BY Zenon, <2>1 DEF Typed, IncomingInv
  <2> QED BY Zenon, <1>0, <2>1, <2>2 DEF IncomingInv, FailureIsGenuine, DestroyedStates
<1>4. ASSUME NEW c \in Connections, AcceptDrops(c)
      PROVE  IncomingInv'
  <2>1. /\ pc[Main] = "accept" /\ incoming = None /\ incoming' = None
        /\ disposition' \in {"PeerRejected", "FatalFailure"} /\ outcome' = outcome
        /\ pc[c] = "backlog"
        /\ pc' = [pc EXCEPT ![Main] = "accepted", ![c] = "dropped"]
    BY Zenon, <1>4 DEF AcceptDrops, IncomingInv
  <2>2. pc'[Main] = "accepted" /\ \A u \in Connections : pc'[u] = "held" <=> pc[u] = "held"
    BY Zenon, <2>1 DEF Typed
  <2> QED BY Zenon, <1>0, <2>1, <2>2 DEF IncomingInv, FailureIsGenuine, DestroyedStates
<1>5. CASE AcceptFails
  <2>1. /\ pc[Main] = "accept" /\ incoming = None /\ incoming' = None
        /\ disposition' \in {"FatalFailure", "Interrupted"} /\ outcome' = outcome
        /\ pc' = [pc EXCEPT ![Main] = "accepted"]
    BY Zenon, <1>5 DEF AcceptFails, IncomingInv
  <2>2. disposition' = "Interrupted" => stopping
    BY Zenon, <1>5 DEF AcceptFails, ListenerInv
  <2> QED
    BY Zenon, <1>0, <2>1, <2>2, <1>2 DEF IncomingInv, FailureIsGenuine, DestroyedStates
<1>6. CASE RunThrows
  BY Zenon, <1>6, <1>1 DEF RunThrows
<1>7. CASE AfterAccept
  <2>1. CASE \E next \in {"stop", "loop"} : DropIncoming(next)
    <3>1. outcome' # "Interrupted" /\ disposition' = "Accepted"
      <4>1. outcome' = outcome \/ (outcome' = disposition /\ ~stopping)
        BY Zenon, <1>7 DEF AfterAccept
      <4> QED BY Zenon, <1>7, <4>1 DEF AfterAccept, IncomingInv, FailureIsGenuine
    <3> QED BY Zenon, <2>1, <3>1, <1>1
  <2>2. CASE /\ disposition = "Accepted" /\ Goto(Main, "accepted", "reap")
             /\ UNCHANGED <<connectionVars, incoming, outcome>>
    BY ZenonT(60), <1>0, <1>7, <2>2, <1>2 DEF AfterAccept, IncomingInv, FailureIsGenuine,
                                  DestroyedStates
  <2> QED BY Zenon, <1>7, <2>1, <2>2 DEF AfterAccept
<1>8. CASE Reap
  <2>1. UNCHANGED <<incoming, disposition, outcome>> /\ pc[Main] = "reap"
    BY Zenon, <1>8 DEF Reap
  <2>2. CASE pc' = pc
    BY Zenon, <1>0, <2>1, <2>2, IncomingKept
  <2>3. CASE Goto(Main, "reap", "admit")
    BY ZenonT(60), <1>0, <2>1, <2>3, <1>2
       DEF IncomingInv, FailureIsGenuine, DestroyedStates
  <2> QED BY Zenon, <1>8, <2>2, <2>3 DEF Reap
<1>9. CASE Admit
  <2>1. CASE DropIncoming("loop")
    BY Zenon, <1>9, <2>1, <1>1 DEF Admit, IncomingInv, FailureIsGenuine
  <2>2. CASE Goto(Main, "admit", "reserve") /\ UNCHANGED incoming
    BY <1>0, <1>9, <2>2, <1>2 DEF Admit, IncomingInv, FailureIsGenuine, DestroyedStates
  <2> QED BY Zenon, <1>9, <2>1, <2>2 DEF Admit
<1>10. CASE Reserve
  <2>1. UNCHANGED <<incoming, disposition>> /\ pc[Main] = "reserve"
        /\ outcome' \in {outcome, "Thrown"}
    BY Zenon, <1>10 DEF Reserve
  <2>2. PICK b \in {"spawn", "stop"} : pc' = [pc EXCEPT ![Main] = b]
    BY Zenon, <1>10 DEF Reserve
  <2> QED
    BY Zenon, <1>0, <2>1, <2>2, <1>2 DEF IncomingInv, FailureIsGenuine, DestroyedStates
<1>11. CASE Spawn
  <2>1. /\ pc[Main] = "spawn" /\ incoming' = None
        /\ UNCHANGED <<disposition, outcome>>
        /\ pc' = [pc EXCEPT ![Main] = "loop", ![incoming] = "register"]
    BY Zenon, <1>11 DEF Spawn
  <2>2. incoming \in Connections
    BY Zenon, <2>1 DEF IncomingInv, Typed, TypeOK, ServerTypeOK
  <2>3. pc'[Main] = "loop" /\ \A u \in Connections : pc'[u] # "held"
    BY Zenon, <2>1, <2>2 DEF Typed, IncomingInv
  <2> QED BY Zenon, <1>0, <2>1, <2>3 DEF IncomingInv, FailureIsGenuine
<1>12. CASE SpawnFails
  <2>1. CASE DropIncoming("stop")
    BY Zenon, <1>12, <2>1, <1>1 DEF SpawnFails
  <2>2. CASE Goto(Main, "spawn", "stop") /\ UNCHANGED incoming
    BY <1>0, <1>12, <2>2, <1>2 DEF SpawnFails, IncomingInv, FailureIsGenuine,
                                   DestroyedStates
  <2> QED BY Zenon, <1>12, <2>1, <2>2 DEF SpawnFails
<1>13. CASE SwapHandlers
  BY <1>0, <1>13, <1>2 DEF SwapHandlers, IncomingInv, FailureIsGenuine, DestroyedStates
<1>14. CASE JoinHandlers
  <2>1. UNCHANGED <<incoming, disposition, outcome>>
    BY Zenon, <1>14 DEF JoinHandlers
  <2>2. CASE pc' = pc
    BY Zenon, <1>0, <2>1, <2>2, IncomingKept
  <2>3. CASE Goto(Main, "join", "remove")
    BY ZenonT(60), <1>0, <2>1, <2>3, <1>2
       DEF IncomingInv, FailureIsGenuine, DestroyedStates
  <2> QED BY Zenon, <1>14, <2>2, <2>3 DEF JoinHandlers
<1>15. CASE RemoveNode
  BY Zenon, <1>15, <1>1 DEF RemoveNode, IncomingInv, FailureIsGenuine
<1>16. CASE Destroy
  BY <1>0, <1>16, <1>2 DEF Destroy, IncomingInv, FailureIsGenuine, DestroyedStates
<1> QED BY Zenon, <1>3, <1>4, <1>5, <1>6, <1>7, <1>8, <1>9, <1>10, <1>11, <1>12,
           <1>13, <1>14, <1>15, <1>16 DEF RunChange

\* Every step keeps the invariant of the accepted connection.
LEMMA IncomingStep ==
  ASSUME Typed, ListenerInv, FileInv, IncomingInv, [Next]_vars
  PROVE  IncomingInv'
<1> Connections \subseteq Threads /\ {Main, Waiter} \cap Connections = {}
    /\ Main \in Threads
  BY Zenon DEF Threads
<1>1. ASSUME NEW c \in Connections, HandlerMove(c)
      PROVE  IncomingInv'
  <2>1. /\ ServerKept /\ pc' = [pc EXCEPT ![c] = pc'[c]]
        /\ pc[c] # "held" /\ pc'[c] # "held"
    BY Zenon, <1>1, HandlerMoves
  <2>2. /\ pc'[Main] = pc[Main]
        /\ \A u \in Connections : pc'[u] = "held" <=> pc[u] = "held"
    BY Zenon, <2>1 DEF Typed
  <2> QED BY Zenon, <2>1, <2>2, IncomingKept DEF ServerKept, stopVars, runVars
<1>2. ASSUME NEW c \in Connections, HandlerEnd(c)
      PROVE  IncomingInv'
  <2>1. /\ UNCHANGED <<stopVars, runVars>> /\ pc' = [pc EXCEPT ![c] = pc'[c]]
        /\ pc[c] # "held" /\ pc'[c] # "held"
    BY Zenon, <1>2, HandlerEnds
  <2>2. /\ pc'[Main] = pc[Main]
        /\ \A u \in Connections : pc'[u] = "held" <=> pc[u] = "held"
    BY Zenon, <2>1 DEF Typed
  <2> QED BY Zenon, <2>1, <2>2, IncomingKept DEF stopVars, runVars
<1>3. ASSUME NEW t \in Threads, StopStep(t)
      PROVE  IncomingInv'
  <2>1. /\ UNCHANGED runVars
        /\ stopping => stopping'
        /\ pc[t] \in StopSteps /\ pc'[t] \in StopSteps \cup {AfterStop(t)}
        /\ \A u \in Threads \ {t} :
             pc'[u] = pc[u] \/ (pc[u] = "backlog" /\ pc'[u] = "dropped")
    BY Zenon, <1>3, StopMoves
  <2>2. AfterStop(t) \in {"swap", "done", "erase"} /\ (t = Main => AfterStop(t) = "swap")
    BY Zenon DEF AfterStop
  <2>3. pc[Main] # "backlog"
    BY Zenon DEF Typed, TypeOK, MainStates, RunStates, StopSteps
  <2>4. pc'[Main] = pc[Main] \/ pc'[Main] \in StopSteps \cup {"swap"}
    BY Zenon, <2>1, <2>2, <2>3
  <2>5. \A u \in Connections : pc'[u] = "held" <=> pc[u] = "held"
    BY Zenon, <2>1, <2>2 DEF StopSteps
  <2> QED BY Zenon, <2>1, <2>4, <2>5, IncomingKept DEF runVars
<1>4. CASE MainMove
  <2>1. /\ ServerKept /\ pc' = [pc EXCEPT ![Main] = pc'[Main]]
        /\ incoming = None
        /\ pc'[Main] \notin {"accepted", "reap", "admit", "reserve", "spawn"}
    BY Zenon, <1>4, MainMoves DEF IncomingInv, DestroyedStates
  <2> QED BY Zenon, <2>1, IncomingKept DEF ServerKept, stopVars, runVars, Typed
<1>5. CASE WaiterMove
  <2>1. ServerKept /\ pc' = [pc EXCEPT ![Waiter] = pc'[Waiter]]
    BY Zenon, <1>5, WaiterMoves
  <2> QED BY Zenon, <2>1, IncomingKept DEF ServerKept, stopVars, runVars, Typed
<1>6. CASE UNCHANGED serverVars
  BY Zenon, <1>6, IncomingKept DEF serverVars
<1> QED BY Zenon, StepKinds, <1>1, <1>2, <1>3, <1>4, <1>5, <1>6, IncomingRun
        DEF SignalArrives, vars

\* The destructor runs without the waiter, and after it the flag is up.
LEMMA OrderStep ==
  ASSUME Typed, ListenerInv, FileInv, IncomingInv, OrderInv, [Next]_vars
  PROVE  OrderInv'
<1> Connections \subseteq Threads /\ {Main, Waiter} \cap Connections = {}
    /\ Main \in Threads /\ Waiter \in Threads
  BY Zenon DEF Threads
<1>0. pc[Main] \in MainStates /\ pc[Waiter] \in StopSteps \cup {"sigwait", "done"}
  BY Zenon DEF Typed, TypeOK
<1>1. ASSUME NEW c \in Connections, HandlerMove(c)
      PROVE  OrderInv'
  <2>1. ServerKept /\ pc' = [pc EXCEPT ![c] = pc'[c]]
    BY Zenon, <1>1, HandlerMoves
  <2> QED BY Zenon, <2>1 DEF ServerKept, stopVars, runVars, Typed, OrderInv
<1>2. ASSUME NEW c \in Connections, HandlerEnd(c)
      PROVE  OrderInv'
  <2>1. UNCHANGED <<stopVars, runVars>> /\ pc' = [pc EXCEPT ![c] = pc'[c]]
    BY Zenon, <1>2, HandlerEnds
  <2> QED BY Zenon, <2>1 DEF stopVars, runVars, Typed, OrderInv
<1>3. ASSUME NEW t \in Threads, StopStep(t)
      PROVE  OrderInv'
  <2>1. /\ UNCHANGED runVars
        /\ stopping => stopping'
        /\ pc[t] \in StopSteps /\ pc'[t] \in StopSteps \cup {AfterStop(t)}
        /\ pc'[t] = AfterStop(t) => stopping'
        /\ \A u \in Threads \ {t} :
             pc'[u] = pc[u] \/ (pc[u] = "backlog" /\ pc'[u] = "dropped")
    BY Zenon, <1>3, StopMoves
  <2>2. AfterStop(t) \in {"swap", "done", "erase"} /\ (t = Main => AfterStop(t) = "swap")
    BY Zenon DEF AfterStop
  <2>3. pc[Main] # "backlog" /\ pc[Waiter] # "backlog"
    BY Zenon, <1>0 DEF MainStates, RunStates, StopSteps
  <2>4. CASE t = Main
    <3>1. pc'[Waiter] = pc[Waiter]
      BY Zenon, <2>1, <2>3, <2>4
    <3> QED
      BY Zenon, <2>1, <2>2, <2>4, <3>1 DEF OrderInv, runVars, StopSteps, DestroyedStates
  <2>5. CASE t = Waiter
    <3>1. pc'[Main] = pc[Main] /\ pc[Waiter] # "done"
      BY Zenon, <2>1, <2>3, <2>5 DEF StopSteps
    <3> QED BY Zenon, <2>1, <3>1 DEF OrderInv, runVars
  <2>6. CASE t \in Connections
    <3>1. pc'[Main] = pc[Main] /\ pc'[Waiter] = pc[Waiter]
      BY Zenon, <2>1, <2>3, <2>6
    <3> QED BY Zenon, <2>1, <3>1 DEF OrderInv, runVars
  <2> QED BY Zenon, <2>4, <2>5, <2>6 DEF Threads
<1>4. CASE MainMove
  <2>1. /\ ServerKept /\ pc' = [pc EXCEPT ![Main] = pc'[Main]]
        /\ pc'[Main] = "destroy" => pc[Waiter] = "done"
        /\ pc'[Main] \in DestroyedStates => pc[Main] \in DestroyedStates
        /\ pc'[Main] \notin {"swap", "join", "remove"}
    BY Zenon, <1>4, MainMoves DEF DestroyedStates
  <2>2. pc'[Waiter] = pc[Waiter]
    BY Zenon, <2>1 DEF Typed
  <2> QED BY Zenon, <2>1, <2>2 DEF ServerKept, stopVars, runVars, OrderInv
<1>5. CASE WaiterMove
  <2>1. /\ ServerKept /\ pc' = [pc EXCEPT ![Waiter] = pc'[Waiter]]
        /\ pc[Waiter] = "sigwait"
    BY Zenon, <1>5, WaiterMoves
  <2>2. pc'[Main] = pc[Main]
    BY Zenon, <2>1 DEF Typed
  <2> QED BY Zenon, <2>1, <2>2 DEF ServerKept, stopVars, runVars, OrderInv
<1>6. CASE RunChange
  <2>1. /\ UNCHANGED stopVars
        /\ \/ pc'[Waiter] = pc[Waiter]
           \/ pc[Waiter] = "backlog" \/ pc[Waiter] = "held"
    BY Zenon, <1>6, RunChanges
  <2>2. pc'[Waiter] = pc[Waiter]
    BY Zenon, <1>0, <2>1 DEF StopSteps
  <2>3. /\ destroying' = destroying \/ pc[Main] = "destroy"
        /\ pc'[Main] = "destroyed" => destroying
        /\ pc'[Main] \in {"join", "remove", "destroyed"} =>
             pc[Main] \in {"swap", "join", "remove"}
        /\ pc'[Main] \notin {"swap", "destroy"} \cup (DestroyedStates \ {"destroyed"})
    BY Zenon, <1>6, RunPlaces DEF DestroyedStates
  <2> QED BY <2>1, <2>2, <2>3 DEF OrderInv, stopVars, DestroyedStates
<1>7. CASE UNCHANGED serverVars
  BY Zenon, <1>7 DEF serverVars, OrderInv
<1> QED BY Zenon, StepKinds, <1>1, <1>2, <1>3, <1>4, <1>5, <1>6, <1>7
        DEF SignalArrives, vars

-----------------------------------------------------------------------------
(* Records of handler threads                                                *)

\* Erasing one of several distinct records leaves the others.
LEMMA ErasedRecords ==
  ASSUME NEW S, NEW s \in Seq(S), NEW i \in 1..Len(s),
         \A j, k \in DOMAIN s : s[j] = s[k] => j = k
  PROVE  /\ \A j, k \in DOMAIN Erased(s, i) :
              Erased(s, i)[j] = Erased(s, i)[k] => j = k
         /\ Range(Erased(s, i)) = Range(s) \ {s[i]}
<1>0. /\ Erased(s, i) \in Seq(S)
      /\ Len(Erased(s, i)) = Len(s) - 1
      /\ \A j \in 1..(Len(s) - 1) :
           Erased(s, i)[j] = IF j < i THEN s[j] ELSE s[j + 1]
  BY ErasedProperties, ZenonT(60)
<1> DEFINE r == Erased(s, i)
<1>1. /\ r \in Seq(S) /\ Len(r) = Len(s) - 1
      /\ \A j \in 1..(Len(s) - 1) : r[j] = IF j < i THEN s[j] ELSE s[j + 1]
  BY Zenon, <1>0
<1> HIDE DEF r
<1>2. DOMAIN r = 1..(Len(s) - 1) /\ DOMAIN s = 1..Len(s) /\ Len(s) \in Nat
  BY <1>1
<1>3. \A j, k \in DOMAIN r : r[j] = r[k] => j = k
  BY <1>1, <1>2
<1>4. ASSUME NEW j \in DOMAIN r
      PROVE  r[j] \in Range(s) /\ r[j] # s[i]
  BY <1>1, <1>2 DEF Range
<1>5. ASSUME NEW j \in DOMAIN s, s[j] # s[i]
      PROVE  s[j] \in Range(r)
  <2>1. CASE j < i
    <3>1. j \in 1..(Len(s) - 1) /\ r[j] = s[j]
      BY <2>1, <1>1, <1>2
    <3> QED BY Zenon, <3>1, <1>2 DEF Range
  <2>2. CASE j > i
    <3>1. j - 1 \in 1..(Len(s) - 1) /\ ~(j - 1 < i) /\ (j - 1) + 1 = j
      BY <2>2, <1>2
    <3>2. r[j - 1] = s[j]
      BY Zenon, <3>1, <1>1
    <3> QED BY Zenon, <3>1, <3>2, <1>2 DEF Range
  <2>3. j < i \/ j > i
    BY <1>2, <1>5
  <2> QED BY Zenon, <2>1, <2>2, <2>3
<1> QED BY <1>3, <1>4, <1>5 DEF Range, r

\* Joining the first of the records leaves the others.
LEMMA TailRecords ==
  ASSUME NEW S, NEW s \in Seq(S), s # <<>>
  PROVE  \A x \in Range(s) : x = Head(s) \/ x \in Range(Tail(s))
<1>1. /\ DOMAIN s = 1..Len(s) /\ DOMAIN Tail(s) = 1..(Len(s) - 1)
      /\ Len(s) \in Nat
      /\ \A j \in 1..(Len(s) - 1) : Tail(s)[j] = s[j + 1]
  OBVIOUS
<1>2. ASSUME NEW j \in DOMAIN s, j # 1
      PROVE  s[j] \in Range(Tail(s))
  <2>1. j - 1 \in 1..(Len(s) - 1) /\ (j - 1) + 1 = j
    BY <1>1, <1>2
  <2>2. Tail(s)[j - 1] = s[j]
    BY Zenon, <1>1, <2>1
  <2> QED BY Zenon, <1>1, <2>1, <2>2 DEF Range
<1>3. s[1] = Head(s)
  OBVIOUS
<1> QED BY Zenon, <1>2, <1>3 DEF Range

\* A new record is the last one.
LEMMA AppendRecords ==
  ASSUME NEW S, NEW s \in Seq(S), NEW e \in S
  PROVE  /\ DOMAIN Append(s, e) = 1..(Len(s) + 1) /\ DOMAIN s = 1..Len(s)
         /\ Len(s) \in Nat /\ Len(Append(s, e)) = Len(s) + 1
         /\ \A j \in 1..(Len(s) + 1) :
              Append(s, e)[j] = IF j = Len(s) + 1 THEN e ELSE s[j]
         /\ Range(Append(s, e)) = Range(s) \cup {e}
<1>1. /\ DOMAIN Append(s, e) = 1..(Len(s) + 1) /\ DOMAIN s = 1..Len(s)
      /\ Len(s) \in Nat /\ Len(Append(s, e)) = Len(s) + 1
  OBVIOUS
<1>2. \A j \in 1..(Len(s) + 1) : Append(s, e)[j] = IF j = Len(s) + 1 THEN e ELSE s[j]
  OBVIOUS
<1>3. Range(Append(s, e)) = Range(s) \cup {e}
  BY <1>1, <1>2 DEF Range
<1> QED BY Zenon, <1>1, <1>2, <1>3

\* A step that starts no thread and moves no record.
LEMMA RecordKept ==
  ASSUME RecordInv, UNCHANGED <<handlers, owned>>,
         handlers \in Seq(Connections),
         scan' > 0, pc'[Main] # "reap" => scan' = 1,
         pc'[Main] # "join" => owned = <<>>,
         pc'[Main] \in {"join", "remove"} \cup DestroyedStates => handlers = <<>>,
         \A c \in Connections :
           /\ pc'[c] \in AliveStates => pc[c] \in AliveStates
           /\ pc[c] \in AliveStates \cup {"exit"} => pc'[c] \in AliveStates \cup {"exit"}
           /\ finished'[c] <=> pc'[c] \in {"release", "exit"}
  PROVE  RecordInv'
<1>1. \A i \in DOMAIN handlers : handlers[i] \in Connections
  OBVIOUS
<1>2. \A i \in DOMAIN handlers' : pc'[handlers'[i]] \in AliveStates \cup {"exit"}
  BY Zenon, <1>1 DEF RecordInv
<1>3. \A c \in Connections : pc'[c] \in AliveStates =>
        c \in Range(handlers') \cup Range(owned')
  BY Zenon DEF RecordInv
<1> QED BY Zenon, <1>2, <1>3 DEF RecordInv

\* The steps of handlers and of stop: a thread lives until it exits.
LEMMA RecordHandlers ==
  ASSUME Typed, ListenerInv, RecordInv,
         \/ \E c \in Connections : HandlerMove(c) \/ HandlerEnd(c)
         \/ \E t \in Threads : StopStep(t)
  PROVE  RecordInv'
<1> Connections \subseteq Threads /\ {Main, Waiter} \cap Connections = {}
    /\ Main \in Threads
  BY Zenon DEF Threads
<1>0. handlers \in Seq(Connections) /\ finished \in [Connections -> BOOLEAN]
  BY Zenon DEF Typed, TypeOK, ServerTypeOK
<1>1. ASSUME NEW c \in Connections, HandlerMove(c)
      PROVE  RecordInv'
  <2>1. /\ ServerKept /\ pc' = [pc EXCEPT ![c] = pc'[c]]
        /\ pc'[c] \in AliveStates <=> pc[c] \in AliveStates
        /\ pc[c] \notin {"release", "exit"} /\ pc'[c] \notin {"release", "exit"}
    BY Zenon, <1>1, HandlerMoves DEF AliveStates, ServingStates, StopSteps
  <2>2. pc'[Main] = pc[Main] /\ \A u \in Connections \ {c} : pc'[u] = pc[u]
    BY Zenon, <2>1 DEF Typed
  <2>3. UNCHANGED <<handlers, owned, finished, scan>>
    BY Zenon, <2>1 DEF ServerKept, recordVars, runVars
  <2> QED BY Zenon, <1>0, <2>1, <2>2, <2>3, RecordKept DEF RecordInv
<1>2. ASSUME NEW c \in Connections, HandlerEnd(c)
      PROVE  RecordInv'
  <2>1. /\ UNCHANGED <<handlers, owned, runVars>> /\ pc' = [pc EXCEPT ![c] = pc'[c]]
        /\ pc[c] \in AliveStates /\ pc[c] # "exit"
        /\ pc'[c] \in AliveStates \cup {"exit"}
        /\ pc'[c] = "exit" <=> pc[c] = "release"
        /\ pc'[c] = "release" <=> pc[c] = "finish"
    BY Zenon, <1>2, HandlerEnds DEF AliveStates, ServingStates, StopSteps
  <2>2. pc'[Main] = pc[Main] /\ \A u \in Connections \ {c} : pc'[u] = pc[u]
    BY Zenon, <2>1 DEF Typed
  <2>3. /\ Finish(c) => pc[c] = "finish" /\ finished' = [finished EXCEPT ![c] = TRUE]
        /\ ~Finish(c) => pc[c] # "finish" /\ finished' = finished
    BY Zenon, <1>2 DEF HandlerEnd, Register, Erase, CloseConnection, Finish, ReleaseSlot,
                Goto, recordVars
  <2>4. \A u \in Connections : finished'[u] <=> pc'[u] \in {"release", "exit"}
    <3>1. finished'[c] <=> pc'[c] \in {"release", "exit"}
      <4>1. CASE Finish(c)
        BY Zenon, <1>0, <2>1, <2>3, <4>1
      <4>2. CASE ~Finish(c)
        <5>1. finished[c] <=> pc[c] \in {"release", "exit"}
          BY Zenon DEF RecordInv
        <5> QED BY Zenon, <2>1, <2>3, <4>2, <5>1
      <4> QED BY Zenon, <4>1, <4>2
    <3>2. \A u \in Connections \ {c} : finished'[u] = finished[u]
      BY Zenon, <1>0, <2>3
    <3> QED BY Zenon, <3>1, <3>2, <2>2 DEF RecordInv
  <2>5. scan' = scan
    BY Zenon, <2>1 DEF runVars
  <2> QED BY Zenon, <1>0, <2>1, <2>2, <2>4, <2>5, RecordKept DEF RecordInv
<1>3. ASSUME NEW t \in Threads, StopStep(t)
      PROVE  RecordInv'
  <2>1. /\ UNCHANGED <<recordVars, runVars>>
        /\ pc[t] \in StopSteps /\ pc'[t] \in StopSteps \cup {AfterStop(t)}
        /\ \A u \in Threads \ {t} :
             pc'[u] = pc[u] \/ (pc[u] = "backlog" /\ pc'[u] = "dropped")
    BY Zenon, <1>3, StopMoves
  <2>2. (t = Main => AfterStop(t) = "swap") /\ (t \in Connections => AfterStop(t) = "erase")
    BY Zenon DEF AfterStop
  <2>3. pc[Main] # "backlog"
    BY Zenon DEF Typed, TypeOK, MainStates, RunStates, StopSteps
  <2>4. \A u \in Connections :
          /\ pc'[u] \in AliveStates <=> pc[u] \in AliveStates
          /\ pc'[u] \in {"release", "exit"} <=> pc[u] \in {"release", "exit"}
          /\ pc'[u] = "exit" <=> pc[u] = "exit"
    BY Zenon, <2>1, <2>2 DEF AliveStates, ServingStates, StopSteps
  <2>5. \/ pc'[Main] = pc[Main]
        \/ pc[Main] \in StopSteps /\ pc'[Main] \in StopSteps \cup {"swap"}
    BY Zenon, <2>1, <2>2, <2>3
  <2>6. /\ pc'[Main] # "join" => owned = <<>>
        /\ pc'[Main] \in {"join", "remove"} \cup DestroyedStates => handlers = <<>>
        /\ pc'[Main] # "reap" => scan = 1
        /\ scan > 0
    BY Zenon, <2>5 DEF RecordInv, StopSteps, DestroyedStates
  <2>7. UNCHANGED <<handlers, owned, finished, scan>>
    BY Zenon, <2>1 DEF recordVars, runVars
  <2> QED BY Zenon, <1>0, <2>4, <2>6, <2>7, RecordKept DEF RecordInv
<1> QED BY Zenon, <1>1, <1>2, <1>3

\* Main starts threads with a record, and forgets records of threads that are
\* gone.
LEMMA RecordRun ==
  ASSUME Typed, FileInv, IncomingInv, RecordInv, RunChange
  PROVE  RecordInv'
<1> Connections \subseteq Threads /\ {Main, Waiter} \cap Connections = {}
    /\ Main \in Threads
  BY Zenon DEF Threads
<1>0. /\ handlers \in Seq(Connections) /\ owned \in Seq(Connections)
      /\ finished \in [Connections -> BOOLEAN] /\ finished' = finished
  BY Zenon, RunChanges DEF Typed, TypeOK, ServerTypeOK
<1>1. \A c \in Connections :
        \/ pc'[c] = pc[c]
        \/ pc[c] \in {"backlog", "held"} /\ pc'[c] \in {"held", "dropped"}
        \/ Spawn /\ pc[c] = "held" /\ pc'[c] = "register"
  BY Zenon, RunChanges
<1>2. ASSUME ~Spawn
      PROVE  \A c \in Connections :
               /\ pc'[c] \in AliveStates => pc[c] \in AliveStates
               /\ pc[c] \in AliveStates \cup {"exit"} =>
                    pc'[c] \in AliveStates \cup {"exit"}
               /\ finished'[c] <=> pc'[c] \in {"release", "exit"}
               /\ pc[c] = "exit" => pc'[c] = "exit"
  BY Zenon, <1>0, <1>1, <1>2 DEF RecordInv, AliveStates, ServingStates, StopSteps
<1>3. CASE Spawn
  <2>1. /\ pc[Main] = "spawn" /\ pc' = [pc EXCEPT ![Main] = "loop", ![incoming] = "register"]
        /\ handlers' = Append(handlers, incoming) /\ UNCHANGED <<owned, scan>>
    BY Zenon, <1>3 DEF Spawn
  <2>2. incoming \in Connections /\ pc[incoming] = "held"
    BY Zenon, <2>1 DEF IncomingInv, Typed, TypeOK, ServerTypeOK
  <2>3. pc'[Main] = "loop"
        /\ \A c \in Connections : pc'[c] = IF c = incoming THEN "register" ELSE pc[c]
    BY Zenon, <2>1, <2>2 DEF Typed
  <2>4. \A i \in DOMAIN handlers : handlers[i] \in Connections /\ handlers[i] # incoming
    BY <1>0, <2>2 DEF RecordInv, AliveStates, ServingStates, StopSteps
  <2>5. /\ DOMAIN handlers' = 1..(Len(handlers) + 1) /\ DOMAIN handlers = 1..Len(handlers)
        /\ Len(handlers) \in Nat
        /\ \A j \in 1..(Len(handlers) + 1) :
             handlers'[j] = IF j = Len(handlers) + 1 THEN incoming ELSE handlers[j]
        /\ Range(handlers') = Range(handlers) \cup {incoming}
    BY <1>0, <2>1, <2>2, AppendRecords
  <2>6. \A i, j \in DOMAIN handlers' : handlers'[i] = handlers'[j] => i = j
    BY <2>4, <2>5 DEF RecordInv
  <2>7. \A i \in DOMAIN handlers' : pc'[handlers'[i]] \in AliveStates \cup {"exit"}
    BY <2>2, <2>3, <2>4, <2>5 DEF RecordInv, AliveStates
  <2>8. \A c \in Connections : pc'[c] \in AliveStates =>
          c \in Range(handlers') \cup Range(owned')
    BY Zenon, <2>1, <2>3, <2>5 DEF RecordInv
  <2>9. \A c \in Connections : finished'[c] <=> pc'[c] \in {"release", "exit"}
    BY Zenon, <1>0, <2>2, <2>3 DEF RecordInv
  <2> QED BY Zenon, <2>1, <2>3, <2>6, <2>7, <2>8, <2>9 DEF RecordInv, DestroyedStates
<1>4. CASE Reap
  <2>1. pc[Main] = "reap" /\ owned' = owned /\ ~Spawn
    BY Zenon, <1>4 DEF Reap, Spawn
  <2>2. CASE handlers' = handlers
    <3>1. scan' > 0 /\ (pc'[Main] # "reap" => scan' = 1)
      BY <1>4, <2>2 DEF Reap, RecordInv, Goto, Typed, TypeOK, ServerTypeOK
    <3>2. pc'[Main] \in {"reap", "admit"}
      BY Zenon, <1>4 DEF Reap, Goto, Typed
    <3>3. pc'[Main] \notin {"join", "remove"} \cup DestroyedStates
      BY Zenon, <3>2 DEF DestroyedStates
    <3> QED BY Zenon, <1>0, <1>2, <2>1, <2>2, <3>1, <3>3, RecordKept DEF RecordInv
  <2>3. CASE handlers' # handlers
    <3>1. /\ scan <= Len(handlers) /\ pc[handlers[scan]] = "exit" /\ pc' = pc
          /\ handlers' = Erased(handlers, scan) /\ scan' = scan
      BY Zenon, <1>4, <2>3 DEF Reap
    <3>2. scan \in 1..Len(handlers)
      BY <1>0, <3>1 DEF RecordInv, Typed, TypeOK, ServerTypeOK
    <3>3. /\ \A i, j \in DOMAIN handlers' : handlers'[i] = handlers'[j] => i = j
          /\ Range(handlers') = Range(handlers) \ {handlers[scan]}
      BY <1>0, <3>1, <3>2, ErasedRecords DEF RecordInv
    <3>4. \A x \in Range(handlers) : pc[x] \in AliveStates \cup {"exit"}
      BY Zenon DEF RecordInv, Range
    <3>5. \A i \in DOMAIN handlers' : pc'[handlers'[i]] \in AliveStates \cup {"exit"}
      BY Zenon, <3>1, <3>3, <3>4 DEF Range
    <3>6. \A c \in Connections : pc'[c] \in AliveStates =>
            c \in Range(handlers') \cup Range(owned')
      BY Zenon, <2>1, <3>1, <3>3 DEF RecordInv, AliveStates, ServingStates, StopSteps
    <3> QED BY Zenon, <1>0, <2>1, <3>1, <3>3, <3>5, <3>6 DEF RecordInv, DestroyedStates
  <2> QED BY Zenon, <2>2, <2>3
<1>5. CASE SwapHandlers
  <2>1. /\ pc[Main] = "swap" /\ pc'[Main] = "join" /\ owned' = handlers
        /\ handlers' = <<>> /\ scan' = scan /\ ~Spawn /\ owned = <<>>
    BY Zenon, <1>5 DEF SwapHandlers, Goto, Typed, Spawn, runVars, RecordInv
  <2>2. \A c \in Connections : pc'[c] \in AliveStates =>
          c \in Range(handlers') \cup Range(owned')
    BY <1>2, <2>1 DEF RecordInv, Range
  <2>3. DOMAIN handlers' = {}
    BY <2>1
  <2> QED BY Zenon, <1>2, <2>1, <2>2, <2>3 DEF RecordInv
<1>6. CASE JoinHandlers
  <2>1. /\ pc[Main] = "join" /\ handlers' = handlers /\ handlers = <<>>
        /\ scan' = scan /\ ~Spawn
    BY Zenon, <1>6 DEF JoinHandlers, Spawn, runVars, RecordInv
  <2>2. CASE owned = <<>>
    <3>1. pc'[Main] = "remove" /\ owned' = owned
      BY Zenon, <1>6, <2>2 DEF JoinHandlers, Goto, Typed
    <3> QED BY Zenon, <1>0, <1>2, <2>1, <2>2, <3>1, RecordKept DEF RecordInv
  <2>3. CASE owned # <<>>
    <3>1. pc[Head(owned)] = "exit" /\ owned' = Tail(owned) /\ pc' = pc
      BY Zenon, <1>6, <2>3 DEF JoinHandlers
    <3>2. \A x \in Range(owned) : x = Head(owned) \/ x \in Range(owned')
      BY Zenon, <1>0, <2>3, <3>1, TailRecords
    <3>3. \A c \in Connections : pc'[c] \in AliveStates =>
            c \in Range(handlers') \cup Range(owned')
      BY Zenon, <2>1, <3>1, <3>2 DEF RecordInv, AliveStates, ServingStates, StopSteps
    <3> QED BY Zenon, <1>0, <2>1, <3>1, <3>3 DEF RecordInv
  <2> QED BY Zenon, <2>2, <2>3
<1>7. CASE ~Spawn /\ ~Reap /\ ~SwapHandlers /\ ~JoinHandlers
  <2>1. UNCHANGED <<handlers, owned, scan>> /\ pc[Main] \notin {"reap", "swap", "join"}
    BY Zenon, <1>7 DEF RunChange, AcceptConnection, AcceptDrops, AcceptFails, RunThrows,
                AfterAccept, Admit, Reserve, SpawnFails, RemoveNode, Destroy,
                recordVars, runVars, Goto
  <2>2. /\ pc'[Main] # "join"
        /\ pc'[Main] \in {"remove"} \cup DestroyedStates => pc[Main] = "remove"
    BY Zenon, <2>1, <1>7, RunPlaces DEF DestroyedStates
  <2> QED BY Zenon, <1>0, <1>2, <1>7, <2>1, <2>2, RecordKept DEF RecordInv
<1> QED BY Zenon, <1>3, <1>4, <1>5, <1>6, <1>7

\* Every step keeps the invariant of the records.
LEMMA RecordsStep ==
  ASSUME Typed, ListenerInv, FileInv, IncomingInv, RecordInv, [Next]_vars
  PROVE  RecordInv'
<1> Connections \subseteq Threads /\ {Main, Waiter} \cap Connections = {}
    /\ Main \in Threads
  BY Zenon DEF Threads
<1>0. handlers \in Seq(Connections) /\ finished \in [Connections -> BOOLEAN]
  BY Zenon DEF Typed, TypeOK, ServerTypeOK
<1>1. CASE MainMove
  <2>1. /\ ServerKept /\ pc' = [pc EXCEPT ![Main] = pc'[Main]]
        /\ pc[Main] \notin {"reap", "join"} /\ pc'[Main] \notin {"reap", "join", "remove"}
        /\ pc'[Main] \in DestroyedStates => pc[Main] \in DestroyedStates
    BY Zenon, <1>1, MainMoves DEF DestroyedStates
  <2>2. \A c \in Connections : pc'[c] = pc[c]
    BY Zenon, <2>1 DEF Typed
  <2>3. UNCHANGED <<handlers, owned, finished, scan>>
    BY Zenon, <2>1 DEF ServerKept, recordVars, runVars
  <2> QED BY Zenon, <1>0, <2>1, <2>2, <2>3, RecordKept DEF RecordInv
<1>2. CASE WaiterMove
  <2>1. ServerKept /\ pc' = [pc EXCEPT ![Waiter] = pc'[Waiter]]
    BY Zenon, <1>2, WaiterMoves
  <2>2. pc'[Main] = pc[Main] /\ \A c \in Connections : pc'[c] = pc[c]
    BY Zenon, <2>1 DEF Typed
  <2>3. UNCHANGED <<handlers, owned, finished, scan>>
    BY Zenon, <2>1 DEF ServerKept, recordVars, runVars
  <2> QED BY Zenon, <1>0, <2>2, <2>3, RecordKept DEF RecordInv
<1>3. CASE UNCHANGED serverVars
  BY Zenon, <1>0, <1>3, RecordKept DEF serverVars, RecordInv
<1> QED BY Zenon, StepKinds, <1>1, <1>2, <1>3, RecordHandlers, RecordRun
        DEF SignalArrives, vars

=============================================================================
