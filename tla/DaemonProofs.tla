---------------------------- MODULE DaemonProofs ----------------------------
(***************************************************************************)
(* The theorems about the Server and the process around it: what its       *)
(* threads leave behind, which streams stop interrupts, and how many       *)
(* handlers there are, for any number of connections and any bound; and    *)
(* that the Server uses the Service as Service asks of its caller.         *)
(***************************************************************************)
EXTENDS System, DaemonStepProofs

USE ServerAssumption, DaemonAssumption, SMTT(20), ZenonT(20)

-----------------------------------------------------------------------------
(* Slots                                                                     *)

\* A step that takes no slot, gives none back and adds no record.
LEMMA SlotKept ==
  ASSUME SlotInv, UNCHANGED <<active_handlers, handlers>>,
         handlers \in Seq(Connections),
         \A c \in Connections : /\ pc'[c] \in AliveStates <=> pc[c] \in AliveStates
                                /\ pc[c] = "exit" => pc'[c] = "exit",
         \/ pc'[Main] = pc[Main] /\ scan' = scan
         \/ /\ pc[Main] # "spawn"
            /\ pc'[Main] \notin {"reap", "admit", "reserve", "spawn"}
  PROVE  SlotInv'
<1>1. {c \in Connections : pc'[c] \in AliveStates}
        = {c \in Connections : pc[c] \in AliveStates}
  BY Zenon
<1>2. \A i \in DOMAIN handlers : handlers[i] \in Connections
  OBVIOUS
<1>3. CASE pc'[Main] = pc[Main] /\ scan' = scan
  BY Zenon, <1>1, <1>2, <1>3 DEF SlotInv
<1>4. CASE /\ pc[Main] # "spawn"
           /\ pc'[Main] \notin {"reap", "admit", "reserve", "spawn"}
  BY Zenon, <1>1, <1>4 DEF SlotInv
<1> QED BY Zenon, <1>3, <1>4

\* When the reaper starts with one record too many, a thread of them is gone:
\* only so many slots are taken.
LEMMA ReaperFinds ==
  ASSUME Typed, RecordInv, SlotInv, pc[Main] # "spawn"
  PROVE  \/ Len(handlers) <= maximum_active_connections
         \/ \E i \in DOMAIN handlers : i >= 1 /\ pc[handlers[i]] = "exit"
<1> SUFFICES ASSUME \A i \in DOMAIN handlers : pc[handlers[i]] # "exit",
                    ~(Len(handlers) <= maximum_active_connections)
             PROVE  FALSE
  BY DEF Typed, TypeOK, ServerTypeOK
<1>1. /\ handlers \in Seq(Connections) /\ Len(handlers) \in Nat
      /\ DOMAIN handlers = 1..Len(handlers)
  BY DEF Typed, TypeOK, ServerTypeOK
<1>2. handlers \in [1..Len(handlers) -> Alive]
  BY <1>1, SlotCount DEF RecordInv
<1>3. /\ IsFiniteSet(Alive) /\ Cardinality(Alive) <= maximum_active_connections
      /\ Cardinality(Alive) \in Nat
  BY SlotCount DEF Typed, TypeOK, ServerTypeOK
<1>4. IsFiniteSet(1..Len(handlers)) /\ Cardinality(1..Len(handlers)) = Len(handlers)
  BY <1>1, FS_Interval
<1>5. Cardinality(Alive) < Cardinality(1..Len(handlers))
  BY <1>1, <1>3, <1>4
<1>6. \E i, j \in 1..Len(handlers) : i # j /\ handlers[i] = handlers[j]
  BY <1>2, <1>3, <1>4, <1>5, FS_PigeonHole
<1> QED BY Zenon, <1>1, <1>6 DEF RecordInv

\* A handler thread takes its slot with it.
LEMMA SlotReleased ==
  ASSUME Typed, SlotInv, NEW c \in Connections, ReleaseSlot(c)
  PROVE  SlotInv'
<1> c \in Threads /\ Main \in Threads /\ Main # c
  BY Zenon DEF Threads
<1> DEFINE A == {u \in Connections : pc[u] \in AliveStates}
<1>1. /\ pc[c] = "release" /\ pc' = [pc EXCEPT ![c] = "exit"]
      /\ active_handlers' = active_handlers - 1
      /\ UNCHANGED <<handlers, scan>>
  BY Zenon DEF ReleaseSlot, Goto, runVars
<1>2. pc'[Main] = pc[Main] /\ pc'[c] = "exit"
      /\ \A u \in Connections \ {c} : pc'[u] = pc[u]
  BY Zenon, <1>1 DEF Typed, Threads
<1>3. {u \in Connections : pc'[u] \in AliveStates} = A \ {c} /\ c \in A
  BY Zenon, <1>1, <1>2 DEF AliveStates, ServingStates, StopSteps
<1>4. IsFiniteSet(A) /\ Cardinality(A) \in Nat
  BY Zenon, SlotCount
<1>5. Cardinality(A \ {c}) = Cardinality(A) - 1
  BY Zenon, <1>3, <1>4, FS_RemoveElement
<1>6. active_handlers' = Cardinality(A \ {c}) + (IF pc'[Main] = "spawn" THEN 1 ELSE 0)
  BY <1>1, <1>2, <1>4, <1>5 DEF SlotInv
<1>7. \A i \in DOMAIN handlers : handlers[i] \in Connections
  BY DEF Typed, TypeOK, ServerTypeOK
<1>8. active_handlers \in Int /\ maximum_active_connections \in Int
  BY DEF Typed, TypeOK, ServerTypeOK
<1>9. active_handlers' = Cardinality({u \in Connections : pc'[u] \in AliveStates})
                           + (IF pc'[Main] = "spawn" THEN 1 ELSE 0)
  BY Zenon, <1>3, <1>6
<1>10. pc'[Main] = "reserve" => active_handlers' < maximum_active_connections
  BY <1>1, <1>2, <1>8 DEF SlotInv
<1>11. pc'[Main] = "reap" =>
         \/ Len(handlers) <= maximum_active_connections
         \/ \E i \in DOMAIN handlers : i >= scan /\ pc'[handlers[i]] = "exit"
  BY Zenon, <1>1, <1>2, <1>7 DEF SlotInv
<1> HIDE DEF A
<1> QED BY Zenon, <1>1, <1>2, <1>9, <1>10, <1>11 DEF SlotInv

\* Main counts a slot before it starts a thread, and reaps before it admits.
LEMMA SlotRun ==
  ASSUME Typed, FileInv, IncomingInv, RecordInv, SlotInv, RunChange
  PROVE  SlotInv'
<1> Connections \subseteq Threads /\ {Main, Waiter} \cap Connections = {}
    /\ Main \in Threads
  BY Zenon DEF Threads
<1> DEFINE A == {c \in Connections : pc[c] \in AliveStates}
           Reaper(p, h, s) == \/ Len(h) <= maximum_active_connections
                              \/ \E i \in DOMAIN h : i >= s /\ p[h[i]] = "exit"
<1>0. /\ handlers \in Seq(Connections) /\ Len(handlers) \in Nat /\ scan \in Nat
      /\ DOMAIN handlers = 1..Len(handlers)
      /\ active_handlers \in 0..maximum_active_connections
      /\ \A i \in DOMAIN handlers : handlers[i] \in Connections
  BY DEF Typed, TypeOK, ServerTypeOK
<1>1. ASSUME ~Spawn
      PROVE  /\ {c \in Connections : pc'[c] \in AliveStates} = A
             /\ \A c \in Connections :
                  /\ pc'[c] \in AliveStates <=> pc[c] \in AliveStates
                  /\ pc[c] = "exit" => pc'[c] = "exit"
  <2>1. \A c \in Connections :
          \/ pc'[c] = pc[c]
          \/ pc[c] \in {"backlog", "held"} /\ pc'[c] \in {"held", "dropped"}
    BY Zenon, <1>1, RunChanges
  <2>2. \A c \in Connections : /\ pc'[c] \in AliveStates <=> pc[c] \in AliveStates
                               /\ pc[c] = "exit" => pc'[c] = "exit"
    BY Zenon, <2>1 DEF AliveStates, ServingStates, StopSteps
  <2> QED BY Zenon, <2>2
<1>2. active_handlers = Cardinality(A) + (IF pc[Main] = "spawn" THEN 1 ELSE 0)
      /\ IsFiniteSet(A) /\ Cardinality(A) \in Nat
  BY Zenon, SlotCount DEF SlotInv
<1>3. ASSUME ~Spawn, UNCHANGED <<active_handlers, handlers>>, pc[Main] # "spawn",
             pc'[Main] \notin {"reap", "admit", "reserve", "spawn"}
      PROVE  SlotInv'
  BY Zenon, <1>0, <1>1, <1>3, SlotKept
<1> HIDE DEF A, Reaper
<1>4. ASSUME ~Spawn, UNCHANGED active_handlers, pc[Main] # "spawn", pc'[Main] # "spawn",
             Len(handlers') <= maximum_active_connections + 1,
             pc'[Main] = "reserve" => active_handlers < maximum_active_connections,
             pc'[Main] \in {"admit", "reserve"} =>
               Len(handlers') <= maximum_active_connections,
             pc'[Main] = "reap" => Reaper(pc', handlers', scan')
      PROVE  SlotInv'
  <2>1. active_handlers' = Cardinality({c \in Connections : pc'[c] \in AliveStates})
                             + (IF pc'[Main] = "spawn" THEN 1 ELSE 0)
    BY Zenon, <1>1, <1>2, <1>4
  <2> QED BY Zenon, <1>4, <2>1 DEF SlotInv, Reaper
<1>5. CASE AfterAccept
  <2>1. ~Spawn /\ pc[Main] = "accepted" /\ UNCHANGED <<active_handlers, handlers, scan>>
    BY Zenon, <1>5 DEF AfterAccept, Spawn, recordVars
  <2>2. pc'[Main] \in {"stop", "loop", "reap"}
    BY Zenon, <2>1, RunPlaces
  <2>3. Reaper(pc', handlers', scan')
    <3>1. scan' = 1
      BY Zenon, <2>1 DEF RecordInv
    <3>2. Reaper(pc, handlers, 1)
      BY Zenon, <2>1, ReaperFinds DEF Reaper
    <3> QED BY Zenon, <1>0, <1>1, <2>1, <3>1, <3>2 DEF Reaper
  <2> QED BY Zenon, <2>1, <2>2, <2>3, <1>4 DEF SlotInv
<1>6. CASE Reap
  <2>1. ~Spawn /\ pc[Main] = "reap" /\ active_handlers' = active_handlers
    BY Zenon, <1>6 DEF Reap, Spawn
  <2>2. Reaper(pc, handlers, scan)
    BY Zenon, <2>1 DEF SlotInv, Reaper
  <2>3. CASE scan > Len(handlers)
    <3>1. pc'[Main] = "admit" /\ handlers' = handlers
      BY <1>0, <1>6, <2>3 DEF Reap, Goto, Typed
    <3>2. Len(handlers') <= maximum_active_connections
      BY <1>0, <2>2, <2>3, <3>1 DEF Reaper
    <3> QED BY <1>0, <2>1, <3>1, <3>2, <1>4
  <2>4. CASE scan <= Len(handlers) /\ ~finished[handlers[scan]]
    <3>1. pc' = pc /\ handlers' = handlers /\ scan' = scan + 1
      BY <1>0, <1>6, <2>4 DEF Reap
    <3>2. pc[handlers[scan]] # "exit"
      BY <1>0, <2>4 DEF RecordInv
    <3>3. Reaper(pc', handlers', scan')
      BY <1>0, <2>2, <3>1, <3>2 DEF Reaper
    <3> QED BY Zenon, <2>1, <3>1, <3>3, <1>4 DEF SlotInv
  <2>5. CASE scan <= Len(handlers) /\ finished[handlers[scan]]
    <3>1. pc' = pc /\ handlers' = Erased(handlers, scan) /\ scan \in 1..Len(handlers)
      BY <1>0, <1>6, <2>5 DEF Reap, RecordInv
    <3>2. Len(handlers') = Len(handlers) - 1
      BY Zenon, <1>0, <3>1, ErasedProperties
    <3>3. Len(handlers') <= maximum_active_connections
      BY <1>0, <3>2 DEF SlotInv
    <3>4. Len(handlers') <= maximum_active_connections + 1
      BY <1>0, <3>2, <3>3
    <3> QED BY Zenon, <2>1, <3>1, <3>3, <3>4, <1>4 DEF Reaper
  <2> QED BY <1>0, <2>3, <2>4, <2>5
<1>7. CASE Admit
  <2>1. ~Spawn /\ pc[Main] = "admit" /\ UNCHANGED <<active_handlers, handlers>>
    BY Zenon, <1>7 DEF Admit, Spawn, recordVars
  <2>2. /\ pc'[Main] \in {"returned", "loop", "reserve"}
        /\ pc'[Main] = "reserve" => active_handlers < maximum_active_connections
    <3>1. CASE DropIncoming("loop")
      <4>1. "loop" \in MainStates
        BY Zenon DEF MainStates, RunStates
      <4> QED BY Zenon, <3>1, <4>1, Dropped
    <3>2. CASE Goto(Main, "admit", "reserve")
                 /\ active_handlers < maximum_active_connections
      BY Zenon, <3>2 DEF Goto, Typed
    <3> QED BY Zenon, <1>7, <3>1, <3>2 DEF Admit
  <2> QED BY Zenon, <2>1, <2>2, <1>4 DEF SlotInv
<1>8. CASE Reserve
  <2>1. ~Spawn /\ pc[Main] = "reserve" /\ handlers' = handlers
    BY Zenon, <1>8 DEF Reserve, Spawn, Goto
  <2>2. CASE pc'[Main] = "stop" /\ active_handlers' = active_handlers
    BY Zenon, <2>1, <2>2, <1>3
  <2>3. CASE pc'[Main] = "spawn" /\ active_handlers' = active_handlers + 1
    <3>1. active_handlers' = Cardinality({c \in Connections : pc'[c] \in AliveStates})
                               + (IF pc'[Main] = "spawn" THEN 1 ELSE 0)
      BY <1>1, <1>2, <2>1, <2>3
    <3> QED BY Zenon, <2>1, <2>3, <3>1 DEF SlotInv
  <2> QED BY Zenon, <1>8, <2>2, <2>3 DEF Reserve, Goto, Typed
<1>9. CASE Spawn
  <2>1. /\ pc[Main] = "spawn" /\ pc' = [pc EXCEPT ![Main] = "loop", ![incoming] = "register"]
        /\ handlers' = Append(handlers, incoming) /\ active_handlers' = active_handlers
    BY Zenon, <1>9 DEF Spawn
  <2>2. incoming \in Connections /\ pc[incoming] = "held"
    BY Zenon, <2>1 DEF IncomingInv, Typed, TypeOK, ServerTypeOK
  <2>3. pc'[Main] = "loop"
        /\ \A c \in Connections : pc'[c] = IF c = incoming THEN "register" ELSE pc[c]
    BY Zenon, <2>1, <2>2 DEF Typed
  <2>4. {c \in Connections : pc'[c] \in AliveStates} = A \cup {incoming}
        /\ incoming \notin A
    BY Zenon, <2>2, <2>3 DEF A, AliveStates, ServingStates, StopSteps
  <2>5. Cardinality(A \cup {incoming}) = Cardinality(A) + 1
    BY Zenon, <1>2, <2>4, FS_AddElement
  <2>6. active_handlers' = Cardinality({c \in Connections : pc'[c] \in AliveStates})
    BY Zenon, <1>2, <2>1, <2>4, <2>5
  <2>7. Len(handlers') <= maximum_active_connections + 1
    BY <1>0, <2>1, <2>2, AppendRecords DEF SlotInv
  <2>8. active_handlers' = Cardinality({c \in Connections : pc'[c] \in AliveStates})
                             + (IF pc'[Main] = "spawn" THEN 1 ELSE 0)
    BY <1>0, <2>1, <2>3, <2>6
  <2> QED BY Zenon, <2>3, <2>7, <2>8 DEF SlotInv
<1>10. CASE SpawnFails
  <2>1. /\ pc[Main] = "spawn" /\ handlers' = handlers
        /\ active_handlers' = active_handlers - 1
    BY Zenon, <1>10 DEF SpawnFails
  <2>2. pc'[Main] = "stop"
    <3>1. "stop" \in MainStates
      BY Zenon DEF MainStates, RunStates, StopSteps
    <3> QED BY Zenon, <1>10, <3>1, Dropped DEF SpawnFails, Goto, Typed
  <2>3. ~Spawn
    <3> SUFFICES ASSUME Spawn PROVE FALSE
      BY Zenon
    <3>1. pc' = [pc EXCEPT ![Main] = "loop", ![incoming] = "register"]
      BY Zenon DEF Spawn
    <3>2. incoming # Main
      BY Zenon DEF Typed, TypeOK, ServerTypeOK
    <3>3. pc'[Main] = "loop"
      BY Zenon, <3>1, <3>2 DEF Typed
    <3> QED BY Zenon, <2>2, <3>3
  <2>4. active_handlers' = Cardinality({c \in Connections : pc'[c] \in AliveStates})
                             + (IF pc'[Main] = "spawn" THEN 1 ELSE 0)
    <3>1. {c \in Connections : pc'[c] \in AliveStates} = A
      BY Zenon, <1>1, <2>3
    <3>2. active_handlers' = Cardinality(A) + 0
      BY <1>2, <2>1
    <3> QED BY Zenon, <2>2, <3>1, <3>2
  <2> QED BY Zenon, <2>1, <2>2, <2>4 DEF SlotInv
<1>11. CASE SwapHandlers
  <2>1. /\ ~Spawn /\ pc[Main] = "swap" /\ pc'[Main] = "join" /\ handlers' = <<>>
        /\ active_handlers' = active_handlers
    BY Zenon, <1>11 DEF SwapHandlers, Spawn, Goto, Typed
  <2>2. Len(handlers') <= maximum_active_connections + 1
    BY <2>1
  <2> QED BY Zenon, <2>1, <2>2, <1>4
<1>12. CASE /\ ~AfterAccept /\ ~Reap /\ ~Admit /\ ~Reserve /\ ~Spawn /\ ~SpawnFails
            /\ ~SwapHandlers
  <2>1. /\ UNCHANGED <<handlers, active_handlers>>
        /\ \/ pc[Main] \in {"accept", "join", "remove", "destroy"}
           \/ RunThrows
    BY Zenon, <1>12 DEF RunChange, AcceptConnection, AcceptDrops, AcceptFails, RunThrows,
                JoinHandlers, RemoveNode, Destroy, recordVars, Goto
  <2>2. pc[Main] \in {"accept", "admit", "join", "remove", "destroy"}
    BY Zenon, <2>1 DEF RunThrows
  <2>3. RunThrows => pc'[Main] = "returned"
    <3>1. "returned" \in MainStates
      BY Zenon DEF MainStates, RunStates
    <3> QED BY Zenon, <3>1, Dropped DEF RunThrows
  <2>4. pc'[Main] \notin {"reap", "admit", "reserve", "spawn"}
    BY Zenon, <2>1, <2>3, RunPlaces
  <2> QED BY Zenon, <1>3, <1>12, <2>1, <2>2, <2>4
<1> QED BY Zenon, <1>5, <1>6, <1>7, <1>8, <1>9, <1>10, <1>11, <1>12

\* Every step keeps the count of the slots.
LEMMA SlotStep ==
  ASSUME Typed, ListenerInv, FileInv, IncomingInv, RecordInv, SlotInv, [Next]_vars
  PROVE  SlotInv'
<1> Connections \subseteq Threads /\ {Main, Waiter} \cap Connections = {}
    /\ Main \in Threads
  BY Zenon DEF Threads
<1>0. handlers \in Seq(Connections)
  BY Zenon DEF Typed, TypeOK, ServerTypeOK
<1>1. ASSUME NEW c \in Connections, HandlerMove(c)
      PROVE  SlotInv'
  <2>1. /\ ServerKept /\ pc' = [pc EXCEPT ![c] = pc'[c]]
        /\ pc'[c] \in AliveStates <=> pc[c] \in AliveStates
        /\ pc[c] # "exit"
    BY Zenon, <1>1, HandlerMoves DEF AliveStates, ServingStates, StopSteps
  <2>2. pc'[Main] = pc[Main] /\ \A u \in Connections \ {c} : pc'[u] = pc[u]
    BY Zenon, <2>1 DEF Typed
  <2> QED BY Zenon, <1>0, <2>1, <2>2, SlotKept DEF ServerKept, recordVars, runVars
<1>2. ASSUME NEW c \in Connections, HandlerEnd(c)
      PROVE  SlotInv'
  <2>1. CASE ReleaseSlot(c)
    BY Zenon, <2>1, SlotReleased
  <2>2. CASE ~ReleaseSlot(c)
    <3>1. /\ UNCHANGED <<handlers, runVars>> /\ pc' = [pc EXCEPT ![c] = pc'[c]]
          /\ pc[c] \in AliveStates /\ pc[c] # "exit"
          /\ pc[c] # "release" => pc'[c] \in AliveStates
      BY Zenon, <1>2, HandlerEnds DEF AliveStates, ServingStates, StopSteps
    <3>2. pc[c] # "release" /\ active_handlers' = active_handlers
      BY Zenon, <1>2, <2>2 DEF HandlerEnd, Register, Erase, CloseConnection, Finish, Goto,
                        recordVars
    <3>3. pc'[Main] = pc[Main] /\ \A u \in Connections \ {c} : pc'[u] = pc[u]
      BY Zenon, <3>1 DEF Typed
    <3> QED BY Zenon, <1>0, <3>1, <3>2, <3>3, SlotKept DEF runVars
  <2> QED BY Zenon, <2>1, <2>2
<1>3. ASSUME NEW t \in Threads, StopStep(t)
      PROVE  SlotInv'
  <2>1. /\ UNCHANGED <<recordVars, runVars>>
        /\ pc[t] \in StopSteps /\ pc'[t] \in StopSteps \cup {AfterStop(t)}
        /\ \A u \in Threads \ {t} :
             pc'[u] = pc[u] \/ (pc[u] = "backlog" /\ pc'[u] = "dropped")
    BY Zenon, <1>3, StopMoves
  <2>2. (t = Main => AfterStop(t) = "swap") /\ (t \in Connections => AfterStop(t) = "erase")
    BY Zenon DEF AfterStop
  <2>3. pc[Main] # "backlog"
    BY Zenon DEF Typed, TypeOK, MainStates, RunStates, StopSteps
  <2>4. \A u \in Connections :
          /\ pc'[u] \in AliveStates <=> pc[u] \in AliveStates
          /\ pc[u] = "exit" => pc'[u] = "exit"
    BY Zenon, <2>1, <2>2 DEF AliveStates, ServingStates, StopSteps
  <2>5. \/ pc'[Main] = pc[Main]
        \/ /\ pc[Main] # "spawn"
           /\ pc'[Main] \notin {"reap", "admit", "reserve", "spawn"}
    BY Zenon, <2>1, <2>2, <2>3 DEF StopSteps
  <2> QED BY Zenon, <1>0, <2>1, <2>4, <2>5, SlotKept DEF recordVars, runVars
<1>4. CASE MainMove
  <2>1. /\ ServerKept /\ pc' = [pc EXCEPT ![Main] = pc'[Main]]
        /\ pc[Main] # "spawn" /\ pc'[Main] \notin {"reap", "admit", "reserve", "spawn"}
    BY Zenon, <1>4, MainMoves
  <2>2. \A u \in Connections : pc'[u] = pc[u]
    BY Zenon, <2>1 DEF Typed
  <2> QED BY Zenon, <1>0, <2>1, <2>2, SlotKept DEF ServerKept, recordVars
<1>5. CASE WaiterMove
  <2>1. ServerKept /\ pc' = [pc EXCEPT ![Waiter] = pc'[Waiter]]
    BY Zenon, <1>5, WaiterMoves
  <2>2. pc'[Main] = pc[Main] /\ \A u \in Connections : pc'[u] = pc[u]
    BY Zenon, <2>1 DEF Typed
  <2> QED BY Zenon, <1>0, <2>1, <2>2, SlotKept DEF ServerKept, recordVars, runVars
<1>6. CASE UNCHANGED serverVars
  BY Zenon, <1>0, <1>6, SlotKept DEF serverVars
<1> QED BY Zenon, StepKinds, <1>1, <1>2, <1>3, <1>4, <1>5, <1>6, SlotRun
        DEF SignalArrives, vars

-----------------------------------------------------------------------------
(* The inventory, and the handlers it interrupts                             *)

\* A step that registers and erases nothing.
LEMMA InventoryKept ==
  ASSUME InventoryIsLive, FileInv', UNCHANGED active_connections,
         \A c \in Connections : pc'[c] \in ServingStates <=> pc[c] \in ServingStates,
         \A c \in Connections : pc[c] \in ServingStates => descriptor'[c] = descriptor[c]
  PROVE  InventoryIsLive'
<1>1. Serving' = Serving /\ Serving = {c \in Connections : pc[c] \in ServingStates}
  BY Zenon DEF Serving, ServingStates
<1>2. {descriptor'[c] : c \in Serving} = {descriptor[c] : c \in Serving}
  BY Zenon, <1>1
<1>3. \A c \in Serving' : file'[descriptor'[c]] = c
  BY Zenon, <1>1 DEF FileInv, OpenStates
<1> QED BY Zenon, <1>1, <1>2, <1>3 DEF InventoryIsLive

\* Every step keeps the inventory to the open streams of serving handlers.
LEMMA InventoryStep ==
  ASSUME Typed, ListenerInv, FileInv, FileInv', IncomingInv, InventoryIsLive,
         [Next]_vars
  PROVE  InventoryIsLive'
<1> Connections \subseteq Threads /\ {Main, Waiter} \cap Connections = {}
  BY Zenon DEF Threads
<1> USE DEF ServingStates, StopSteps
<1>1. ASSUME NEW c \in Connections, HandlerMove(c)
      PROVE  InventoryIsLive'
  <2>1. /\ ServerKept /\ pc' = [pc EXCEPT ![c] = pc'[c]]
        /\ pc'[c] \in ServingStates <=> pc[c] \in ServingStates
    BY Zenon, <1>1, HandlerMoves
  <2>2. \A u \in Connections \ {c} : pc'[u] = pc[u]
    BY Zenon, <2>1 DEF Typed
  <2> QED BY Zenon, <2>1, <2>2, InventoryKept DEF ServerKept
<1>2. ASSUME NEW c \in Connections, HandlerEnd(c)
      PROVE  InventoryIsLive'
  <2>1. /\ pc' = [pc EXCEPT ![c] = pc'[c]] /\ descriptor' = descriptor
        /\ <<pc[c], pc'[c]>> \in
             {<<"register", "loop">>, <<"register", "close">>, <<"erase", "close">>,
              <<"close", "finish">>, <<"finish", "release">>, <<"release", "exit">>}
    BY Zenon, <1>2, HandlerEnds
  <2>2. \A u \in Connections \ {c} : pc'[u] = pc[u]
    BY Zenon, <2>1 DEF Typed
  <2>3. CASE pc[c] = "register" /\ pc'[c] = "loop"
    <3>1. active_connections' = active_connections \cup {descriptor[c]}
      BY Zenon, <1>2, <2>3 DEF HandlerEnd, Register, Erase, CloseConnection, Finish,
                        ReleaseSlot, Goto, Typed
    <3>2. Serving' = Serving \cup {c}
      BY Zenon, <2>2, <2>3 DEF Serving
    <3>3. active_connections' = {descriptor'[u] : u \in Serving'}
      BY <2>1, <3>1, <3>2 DEF InventoryIsLive
    <3>4. \A u \in Serving' : file'[descriptor'[u]] = u
      BY Zenon DEF FileInv, OpenStates, Serving
    <3> QED BY Zenon, <3>3, <3>4 DEF InventoryIsLive
  <2>4. CASE pc[c] = "erase"
    <3>1. active_connections' = active_connections \ {descriptor[c]}
      BY Zenon, <1>2, <2>4 DEF HandlerEnd, Register, Erase, CloseConnection, Finish,
                        ReleaseSlot, Goto
    <3>2. Serving' = Serving \ {c} /\ c \in Serving
      BY Zenon, <2>1, <2>2, <2>4 DEF Serving
    <3>3. \A u \in Serving : descriptor[u] = descriptor[c] => u = c
      BY Zenon, <3>2 DEF InventoryIsLive
    <3>4. active_connections' = {descriptor'[u] : u \in Serving'}
      BY <2>1, <3>1, <3>2, <3>3 DEF InventoryIsLive
    <3>5. \A u \in Serving' : file'[descriptor'[u]] = u
      BY Zenon DEF FileInv, OpenStates, Serving
    <3> QED BY Zenon, <3>4, <3>5 DEF InventoryIsLive
  <2>5. CASE pc[c] # "erase" /\ pc'[c] # "loop"
    <3>1. active_connections' = active_connections
      BY Zenon, <1>2, <2>5 DEF HandlerEnd, Register, Erase, CloseConnection, Finish,
                        ReleaseSlot, Goto, Typed, connectionVars
    <3>2. pc[c] \notin ServingStates /\ pc'[c] \notin ServingStates
      BY Zenon, <2>1, <2>5
    <3> QED BY Zenon, <2>1, <2>2, <3>1, <3>2, InventoryKept
  <2> QED BY Zenon, <2>1, <2>3, <2>4, <2>5
<1>3. ASSUME NEW t \in Threads, StopStep(t)
      PROVE  InventoryIsLive'
  <2>1. /\ UNCHANGED <<active_connections, descriptor>>
        /\ pc[t] \in StopSteps /\ pc'[t] \in StopSteps \cup {AfterStop(t)}
        /\ \A u \in Threads \ {t} :
             pc'[u] = pc[u] \/ (pc[u] = "backlog" /\ pc'[u] = "dropped")
    BY Zenon, <1>3, StopMoves
  <2>2. t \in Connections => AfterStop(t) = "erase"
    BY Zenon DEF AfterStop
  <2>3. \A u \in Connections : pc'[u] \in ServingStates <=> pc[u] \in ServingStates
    BY Zenon, <2>1, <2>2
  <2> QED BY Zenon, <2>1, <2>3, InventoryKept
<1>4. CASE MainMove
  <2>1. ServerKept /\ pc' = [pc EXCEPT ![Main] = pc'[Main]]
    BY Zenon, <1>4, MainMoves
  <2>2. \A u \in Connections : pc'[u] = pc[u]
    BY Zenon, <2>1 DEF Typed
  <2> QED BY Zenon, <2>1, <2>2, InventoryKept DEF ServerKept
<1>5. CASE WaiterMove
  <2>1. ServerKept /\ pc' = [pc EXCEPT ![Waiter] = pc'[Waiter]]
    BY Zenon, <1>5, WaiterMoves
  <2>2. \A u \in Connections : pc'[u] = pc[u]
    BY Zenon, <2>1 DEF Typed
  <2> QED BY Zenon, <2>1, <2>2, InventoryKept DEF ServerKept
<1>6. CASE RunChange
  <2>1. /\ active_connections' = active_connections
        /\ \A c \in Connections :
             \/ pc'[c] = pc[c]
             \/ pc[c] \in {"backlog", "held"} /\ pc'[c] \in {"held", "dropped", "register"}
    BY Zenon, <1>6, RunChanges
  <2>2. \A c \in Connections : pc[c] # "backlog" => descriptor'[c] = descriptor[c]
    BY Zenon, <1>6 DEF RunChange, AcceptConnection, AcceptDrops, AcceptFails, RunThrows,
           AfterAccept, Reap, Admit, Reserve, Spawn, SpawnFails, SwapHandlers,
           JoinHandlers, RemoveNode, Destroy, DropIncoming, connectionVars, Typed,
           TypeOK, ServerTypeOK
  <2> QED BY Zenon, <2>1, <2>2, InventoryKept
<1>7. CASE UNCHANGED serverVars
  BY Zenon, <1>7, InventoryKept DEF serverVars
<1> QED BY Zenon, StepKinds, <1>1, <1>2, <1>3, <1>4, <1>5, <1>6, <1>7
        DEF SignalArrives, vars

\* A step in which nobody raises the flag or finishes the sweep.
LEMMA InterruptKept ==
  ASSUME InterruptInv, stopping' => stopping, shut \subseteq shut',
         \A t \in Threads : pc[t] \in StopperStates => pc'[t] \in StopperStates,
         \A c \in Connections : pc'[c] \in {"read", "dispatch", "respond", "fail"} =>
           pc[c] \in {"read", "dispatch", "respond", "fail"} \/ ~stopping
  PROVE  InterruptInv'
BY Zenon DEF InterruptInv, Stopper

\* The flag is raised, the listener closed, the inventory swept.
LEMMA InterruptStop ==
  ASSUME Typed, ListenerInv, FileInv, InventoryIsLive, InterruptInv,
         NEW t \in Threads, StopStep(t)
  PROVE  InterruptInv'
<1> Connections \subseteq Threads
  BY Zenon DEF Threads
<1>0. /\ shut \subseteq shut'
      /\ pc[t] \in StopSteps /\ pc'[t] \in StopSteps \cup {AfterStop(t)}
      /\ \A u \in Threads \ {t} :
           pc'[u] = pc[u] \/ (pc[u] = "backlog" /\ pc'[u] = "dropped")
  BY Zenon, StopMoves
<1>a. AfterStop(t) \in {"swap", "done", "erase"}
  BY Zenon DEF AfterStop
<1>b. \A c \in Connections : pc'[c] \in {"read", "dispatch", "respond", "fail"} =>
        c # t /\ pc'[c] = pc[c]
  BY Zenon, <1>0, <1>a DEF StopSteps
<1>c. \A u \in Threads \ {t} : pc[u] \in StopperStates => pc'[u] \in StopperStates
  BY Zenon, <1>0 DEF StopperStates
<1>1. CASE StopExchange(t)
  <2>1. CASE stopping
    <3>1. pc[t] \notin StopperStates
      BY Zenon, <1>1 DEF StopExchange, Goto, StopperStates
    <3> QED BY Zenon, <2>1, <3>1, <1>0, <1>b, <1>c, InterruptKept
  <2>2. CASE ~stopping
    <3>1. pc'[t] \in StopperStates
      BY Zenon, <1>1, <2>2 DEF StopExchange, Goto, StopperStates, Typed
    <3> QED BY Zenon, <3>1 DEF InterruptInv, Stopper
  <2> QED BY Zenon, <2>1, <2>2
<1>2. CASE StopTakeListener(t) \/ StopShutdownListener(t) \/ StopCloseListener(t)
  <2>1. pc'[t] \in StopperStates
    BY Zenon, <1>2 DEF StopTakeListener, StopShutdownListener, StopCloseListener, Goto,
                StopperStates, Typed
  <2> QED BY Zenon, <2>1 DEF InterruptInv, Stopper
<1>3. CASE StopSweep(t)
  <2>1. shut' = shut \cup ({file[d] : d \in active_connections} \ {None})
    BY Zenon, <1>3 DEF StopSweep
  <2>2. ASSUME NEW c \in Connections, pc'[c] \in {"read", "dispatch", "respond", "fail"}
        PROVE  c \in shut'
    <3>1. c \in Serving
      BY Zenon, <1>b, <2>2 DEF Serving
    <3>2. descriptor[c] \in active_connections /\ file[descriptor[c]] = c
      BY Zenon, <3>1 DEF InventoryIsLive
    <3> QED BY Zenon, <2>1, <3>2
  <2> QED BY Zenon, <2>2 DEF InterruptInv
<1> QED BY Zenon, <1>1, <1>2, <1>3 DEF StopStep

\* Every step keeps the promise that a waiting handler is interrupted.
LEMMA InterruptStep ==
  ASSUME Typed, ListenerInv, FileInv, IncomingInv, InventoryIsLive, InterruptInv,
         [Next]_vars
  PROVE  InterruptInv'
<1> Connections \subseteq Threads /\ {Main, Waiter} \cap Connections = {}
    /\ Main \in Threads /\ Waiter \in Threads
  BY Zenon DEF Threads
<1>1. ASSUME NEW c \in Connections, HandlerMove(c)
      PROVE  InterruptInv'
  <2>1. /\ ServerKept /\ pc' = [pc EXCEPT ![c] = pc'[c]]
        /\ pc[c] \notin StopperStates
        /\ pc'[c] \in {"read", "dispatch", "respond", "fail"} =>
             pc[c] \in {"read", "dispatch", "respond", "fail"} \/ ~stopping
    BY Zenon, <1>1, HandlerMoves DEF StopperStates
  <2>2. \A u \in Threads \ {c} : pc'[u] = pc[u]
    BY Zenon, <2>1 DEF Typed
  <2> QED BY Zenon, <2>1, <2>2, InterruptKept DEF ServerKept, stopVars
<1>2. ASSUME NEW c \in Connections, HandlerEnd(c)
      PROVE  InterruptInv'
  <2>1. /\ UNCHANGED <<stopVars, shut>> /\ pc' = [pc EXCEPT ![c] = pc'[c]]
        /\ pc[c] \notin StopperStates
        /\ pc'[c] \notin {"read", "dispatch", "respond", "fail"}
    BY Zenon, <1>2, HandlerEnds DEF StopperStates
  <2>2. \A u \in Threads \ {c} : pc'[u] = pc[u]
    BY Zenon, <2>1 DEF Typed
  <2> QED BY Zenon, <2>1, <2>2, InterruptKept DEF stopVars
<1>4. CASE MainMove
  <2>1. /\ ServerKept /\ pc' = [pc EXCEPT ![Main] = pc'[Main]]
        /\ pc[Main] \notin StopperStates
    BY Zenon, <1>4, MainMoves DEF StopperStates
  <2>2. \A u \in Threads \ {Main} : pc'[u] = pc[u]
    BY Zenon, <2>1 DEF Typed
  <2> QED BY Zenon, <2>1, <2>2, InterruptKept DEF ServerKept, stopVars
<1>5. CASE WaiterMove
  <2>1. /\ ServerKept /\ pc' = [pc EXCEPT ![Waiter] = pc'[Waiter]]
        /\ pc[Waiter] \notin StopperStates
    BY Zenon, <1>5, WaiterMoves DEF StopperStates
  <2>2. \A u \in Threads \ {Waiter} : pc'[u] = pc[u]
    BY Zenon, <2>1 DEF Typed
  <2> QED BY Zenon, <2>1, <2>2, InterruptKept DEF ServerKept, stopVars
<1>6. CASE RunChange
  <2>1. /\ UNCHANGED <<stopVars, shut>> /\ pc[Main] \notin StopperStates
        /\ \A t \in Threads \ {Main} :
             \/ pc'[t] = pc[t]
             \/ /\ pc[t] \in {"backlog", "held"}
                /\ pc'[t] \in {"held", "dropped", "register"}
    BY Zenon, <1>6, RunChanges
  <2>2. \A t \in Threads : pc[t] \in StopperStates => pc'[t] \in StopperStates
    BY Zenon, <2>1 DEF StopperStates
  <2> QED BY Zenon, <2>1, <2>2, InterruptKept DEF stopVars
<1>7. CASE UNCHANGED serverVars
  BY Zenon, <1>7, InterruptKept DEF serverVars
<1> QED BY Zenon, StepKinds, <1>1, <1>2, <1>4, <1>5, <1>6, <1>7, InterruptStop
        DEF SignalArrives, vars

-----------------------------------------------------------------------------
(* Signals on the way out                                                    *)

\* Every step keeps the account of the signals that may end the process.
LEMMA SignalStep ==
  ASSUME Typed, ListenerInv, FileInv, IncomingInv, SignalInv, [Next]_vars
  PROVE  SignalInv'
<1> Connections \subseteq Threads /\ {Main, Waiter} \cap Connections = {}
    /\ Main \in Threads /\ Waiter \in Threads
  BY Zenon DEF Threads
<1> USE DEF SignalInv, EarlySignalsAreAbsorbed
<1>1. ASSUME NEW c \in Connections, HandlerMove(c) \/ HandlerEnd(c),
             UNCHANGED processVars
      PROVE  SignalInv'
  <2>1. outcome' = outcome /\ pc' = [pc EXCEPT ![c] = pc'[c]]
    BY Zenon, <1>1, HandlerMoves, HandlerEnds DEF ServerKept, runVars
  <2>2. pc'[Main] = pc[Main]
    BY Zenon, <2>1 DEF Typed
  <2> QED BY Zenon, <1>1, <2>1, <2>2 DEF processVars
<1>2. ASSUME NEW t \in Threads, StopStep(t), UNCHANGED processVars
      PROVE  SignalInv'
  <2>1. /\ outcome' = outcome /\ pc'[t] \in StopSteps \cup {AfterStop(t)}
        /\ \A u \in Threads \ {t} : pc'[u] = pc[u] \/ pc'[u] = "dropped"
    BY Zenon, <1>2, StopMoves DEF runVars
  <2>2. AfterStop(t) \in {"swap", "done", "erase"}
    BY Zenon DEF AfterStop
  <2>3. pc'[Main] = pc[Main] \/ pc'[Main] \notin {"unmask", "killed"}
    BY Zenon, <2>1, <2>2 DEF StopSteps
  <2> QED BY Zenon, <1>2, <2>1, <2>3 DEF processVars
<1>3. CASE MainMove
  <2>1. outcome' = outcome /\ missed' = missed /\ error_' = error_
    <3>1. outcome' = outcome
      BY Zenon, <1>3, MainMoves DEF ServerKept, runVars
    <3> QED
      BY Zenon, <1>3, <3>1
         DEF MainMove, processVars, FinishStore, FinishWake, FinishJoin,
               Unwind, RestoreInspect, RestoreDrain, RestoreMask
  <2>2. CASE pc'[Main] = "unmask"
    <3>1. pc[Main] \in {"destroyed", "inspect"}
      BY Zenon, <1>3, <2>2, MainMoves
    <3>2. pending' = pending /\ (outcome = "Thrown" \/ error_ \/ pending = {})
      BY Zenon, <1>3, <2>2, <3>1
         DEF MainMove, RunEnter, RunLoop, LoadListener, processVars,
         FinishStore, FinishWake, FinishJoin, Unwind, RestoreInspect, RestoreDrain,
         RestoreMask, Goto, Typed
    <3> QED BY Zenon, <2>1, <2>2, <3>2
  <2>3. CASE pc'[Main] = "killed"
    <3>1. pc[Main] = "unmask"
      BY Zenon, <1>3, <2>3, MainMoves
    <3>2. pending # {}
      BY Zenon, <1>3, <2>3, <3>1 DEF MainMove, RunEnter, RunLoop, LoadListener,
         FinishStore, FinishWake, FinishJoin, Unwind, RestoreInspect, RestoreDrain,
         RestoreMask, Goto, Typed
    <3> QED BY Zenon, <2>1, <2>3, <3>1, <3>2
  <2> QED BY Zenon, <2>2, <2>3
<1>4. CASE WaiterMove
  <2>1. outcome' = outcome /\ pc' = [pc EXCEPT ![Waiter] = pc'[Waiter]]
    BY Zenon, <1>4, WaiterMoves DEF ServerKept, runVars
  <2>2. pc'[Main] = pc[Main]
    BY Zenon, <2>1 DEF Typed
  <2>3. pending' \subseteq pending /\ missed' = missed /\ (error_ => error_')
    BY <1>4 DEF WaiterMove, WaitStopSignal, WaitWake, WaitFails
  <2> QED BY Zenon, <2>1, <2>2, <2>3
<1>5. CASE RunChange
  <2>1. pc'[Main] \notin {"unmask", "killed"}
    BY Zenon, <1>5, RunPlaces
  <2> QED BY Zenon, <2>1
<1>6. ASSUME NEW s \in Signals, SignalArrives(s)
      PROVE  SignalInv'
  BY Zenon, <1>6 DEF SignalArrives, Ended, serverVars
<1>7. CASE UNCHANGED vars
  BY Zenon, <1>7 DEF vars, serverVars, processVars
<1> QED BY Zenon, StepKinds, <1>1, <1>2, <1>3, <1>4, <1>5, <1>6, <1>7

-----------------------------------------------------------------------------
(* The theorems                                                              *)

\* The constructed Server and the process that holds it satisfy the invariant.
LEMMA DaemonInit ==
  ASSUME Init
  PROVE  DaemonInv
<1> Main \in Threads /\ Waiter \in Threads /\ Connections \subseteq Threads
    /\ Main \notin Connections /\ Waiter \notin Connections /\ Main # Waiter
    /\ Main # None /\ Waiter # None
  BY Zenon DEF Threads
<1> USE DEF Init, ServerInit
<1>0. Cardinality(Connections) \in Nat /\ ListenerFd \in Fds /\ ListenerFd # NoFd
      /\ NoFd \notin Fds
  BY FS_CardinalityType DEF ListenerFd, NoFd, Fds
<1>1. /\ pc[Main] = "enter" /\ pc[Waiter] = "sigwait"
      /\ \A c \in Connections : pc[c] = "new"
      /\ \A t \in Threads : pc[t] \in {"enter", "sigwait", "new"}
  BY Zenon DEF Threads
<1>2. pc \in [Threads -> Places]
  BY Zenon DEF Places, HandlerStates, MainStates, RunStates, Threads
<1>3. TypeOK
  <2>1. file \in [Fds -> Connections \cup {Listener, None}]
    BY Zenon
  <2>2. descriptor \in [Connections -> Fds \cup {NoFd}]
    BY Zenon
  <2>3. handlers \in Seq(Connections) /\ owned \in Seq(Connections)
    OBVIOUS
  <2>4. finished \in [Connections -> BOOLEAN] /\ accepted_shutdown \in [Connections -> BOOLEAN]
    BY Zenon
  <2>5. active_handlers \in 0..maximum_active_connections /\ scan \in Nat
    OBVIOUS
  <2>6. \A c \in Connections : pc[c] \in HandlerStates
    BY Zenon, <1>1 DEF HandlerStates
  <2>7. pc[Main] \in MainStates
    BY Zenon, <1>1 DEF MainStates, RunStates
  <2>8. ServerTypeOK
    BY Zenon, <2>1, <2>2, <2>3, <2>4, <2>5, <2>6 DEF ServerTypeOK, Dispositions
  <2>9. pending \subseteq Signals /\ missed \subseteq Signals
    BY Zenon
  <2>10. wake \in BOOLEAN /\ complete_ \in BOOLEAN /\ error_ \in BOOLEAN
    BY Zenon
  <2> QED BY Zenon, <1>1, <2>7, <2>8, <2>9, <2>10 DEF TypeOK
<1>4. ListenerInv
  BY Zenon, <1>0, <1>1 DEF ListenerInv, Stopper, StopperStates
<1>5. FileInv
  BY Zenon, <1>0, <1>1 DEF FileInv, OpenStates, ServingStates, StopSteps
<1>6. IncomingInv
  BY Zenon, <1>1 DEF IncomingInv, FailureIsGenuine, DestroyedStates
<1>7. RecordInv
  BY <1>1 DEF RecordInv, AliveStates, ServingStates, StopSteps, DestroyedStates
<1>8. OrderInv
  BY Zenon, <1>1 DEF OrderInv, DestroyedStates
<1>9. SlotInv
  <2>1. {c \in Connections : pc[c] \in AliveStates} = {}
    BY Zenon, <1>1 DEF AliveStates, ServingStates, StopSteps
  <2>2. Cardinality({}) = 0
    BY Zenon, FS_EmptySet
  <2>3. active_handlers = 0 /\ Len(handlers) = 0
    BY Zenon
  <2>4. active_handlers = Cardinality({c \in Connections : pc[c] \in AliveStates})
                            + (IF pc[Main] = "spawn" THEN 1 ELSE 0)
    <3>1. Cardinality({c \in Connections : pc[c] \in AliveStates}) = 0
      BY Zenon, <2>1, <2>2
    <3>2. (IF pc[Main] = "spawn" THEN 1 ELSE 0) = 0
      BY Zenon, <1>1
    <3> HIDE DEF Init, ServerInit
    <3> QED BY <2>3, <3>1, <3>2
  <2>5. Len(handlers) <= maximum_active_connections + 1
    BY <2>3
  <2> QED BY Zenon, <1>1, <2>4, <2>5 DEF SlotInv
<1>10. InventoryIsLive
  <2>1. Serving = {}
    BY Zenon, <1>1 DEF Serving, StopSteps
  <2> QED BY Zenon, <2>1 DEF InventoryIsLive
<1>11. InterruptInv /\ SignalInv
  BY Zenon, <1>1 DEF InterruptInv, SignalInv, EarlySignalsAreAbsorbed
<1> QED
  BY ZenonT(60), <1>2, <1>3, <1>4, <1>5, <1>6, <1>7, <1>8, <1>9, <1>10, <1>11
     DEF DaemonInv

\* The invariant holds of the constructed Server and every step keeps it.
THEOREM DaemonInvariant == Spec => []DaemonInv
<1>1. Init => DaemonInv
  BY Zenon, DaemonInit
<1>2. ASSUME DaemonInv, [Next]_vars
      PROVE  DaemonInv'
  <2>0. /\ Typed /\ ListenerInv /\ FileInv /\ IncomingInv /\ RecordInv /\ OrderInv
        /\ SlotInv /\ InventoryIsLive /\ InterruptInv /\ SignalInv
    BY Zenon, <1>2 DEF DaemonInv, Typed
  <2>1. Typed'
    BY Zenon, <1>2, <2>0, TypesStep
  <2>2. ListenerInv' /\ FileInv' /\ IncomingInv'
    BY Zenon, <1>2, <2>0, ListenerStep, FileStep, IncomingStep
  <2>3. RecordInv' /\ OrderInv' /\ SlotInv'
    BY Zenon, <1>2, <2>0, RecordsStep, OrderStep, SlotStep
  <2>4. InventoryIsLive' /\ InterruptInv' /\ SignalInv'
    BY Zenon, <1>2, <2>0, <2>2, InventoryStep, InterruptStep, SignalStep
  <2> QED BY Zenon, <2>1, <2>2, <2>3, <2>4 DEF DaemonInv, Typed
<1> QED BY <1>1, <1>2, PTL DEF Spec

\* The variables of the Server and of the process keep their types; the count
\* of active_handlers stays between zero and the admission bound.
THEOREM DaemonTypeCorrect == Spec => []TypeOK
<1>1. DaemonInv => TypeOK
  BY Zenon DEF DaemonInv
<1> QED BY <1>1, DaemonInvariant, PTL

\* The numbers stop interrupts are those of the serving handlers' open
\* streams: stop never reaches a stream that reused a number.
THEOREM InventoryHoldsServingStreams == Spec => []InventoryIsLive
<1>1. DaemonInv => InventoryIsLive
  BY Zenon DEF DaemonInv
<1> QED BY <1>1, DaemonInvariant, PTL

\* Once stop has swept the inventory, every handler in a call for its peer has
\* been interrupted, whoever stopped and whenever handlers registered.
THEOREM StopInterruptsEveryWait == Spec => []NobodyWaitsAfterStop
<1>1. DaemonInv => NobodyWaitsAfterStop
  <2> SUFFICES ASSUME InterruptInv, Swept, NEW c \in Connections,
                      pc[c] \in {"read", "respond", "fail"}
               PROVE  c \in shut
    BY Zenon DEF NobodyWaitsAfterStop, DaemonInv
  <2>1. stopping /\ \A t \in Threads : ~Stopper(t)
    BY Zenon DEF Swept, Stopper, StopperStates, StopSteps
  <2> QED BY Zenon, <2>1 DEF InterruptInv
<1> QED BY <1>1, DaemonInvariant, PTL

\* A slot is held by exactly the handlers that are alive and the one being
\* spawned, every live handler has a record that will be joined, and there is
\* at most one record beyond the admission bound.
THEOREM HandlersAreBounded == Spec => []HandlersBounded
<1>1. ASSUME DaemonInv
      PROVE  HandlersBounded
  <2>1. Alive = {c \in Connections : pc[c] \in AliveStates}
    BY Zenon, <1>1 DEF DaemonInv, TypeOK, ServerTypeOK, HandlerStates, Alive, AliveStates,
                ServingStates, StopSteps
  <2>2. active_handlers = Cardinality(Alive) + (IF pc[Main] = "spawn" THEN 1 ELSE 0)
    BY Zenon, <1>1, <2>1 DEF DaemonInv, SlotInv
  <2>3. Len(handlers) <= maximum_active_connections + 1
    BY Zenon, <1>1 DEF DaemonInv, SlotInv
  <2>4. Alive \subseteq Range(handlers) \cup Range(owned)
    BY Zenon, <1>1, <2>1 DEF DaemonInv, RecordInv
  <2> QED BY Zenon, <2>2, <2>3, <2>4 DEF HandlersBounded
<1> QED BY <1>1, DaemonInvariant, PTL

\* run never reports the failure of accept that a requested stop caused.
THEOREM StopIsNotAFailure == Spec => []FailureIsGenuine
<1>1. DaemonInv => FailureIsGenuine
  BY Zenon DEF DaemonInv, IncomingInv
<1> QED BY <1>1, DaemonInvariant, PTL

\* The Server's members are destroyed after every handler thread and the
\* waiter are gone and every descriptor is closed, the listener's included.
THEOREM NothingIsLeftBehind == Spec => []NothingOutlivesTheServer
<1>1. ASSUME DaemonInv, Destroyed
      PROVE  Alive = {} /\ pc[Waiter] = "done" /\ \A d \in Fds : file[d] = None
  <2>0. pc[Main] \in DestroyedStates
    BY Zenon, <1>1 DEF Destroyed, DestroyedStates
  <2>1. handlers = <<>> /\ owned = <<>>
    BY Zenon, <1>1, <2>0 DEF DaemonInv, RecordInv, DestroyedStates
  <2>2. \A c \in Connections : pc[c] \notin AliveStates
    <3>1. Range(handlers) = {} /\ Range(owned) = {}
      BY <2>1 DEF Range
    <3> QED BY Zenon, <1>1, <3>1 DEF DaemonInv, RecordInv
  <2>3. Alive = {}
    BY Zenon, <1>1, <2>2 DEF DaemonInv, TypeOK, ServerTypeOK, HandlerStates, Alive,
                      AliveStates, ServingStates, StopSteps
  <2>4. pc[Waiter] = "done" /\ stopping
    BY Zenon, <1>1, <2>0 DEF DaemonInv, OrderInv
  <2>5. \A c \in Connections : pc[c] \notin OpenStates
    <3>1. incoming = None
      BY Zenon, <1>1, <2>0 DEF DaemonInv, IncomingInv
    <3>2. \A c \in Connections : pc[c] # "held"
      BY Zenon, <1>1, <3>1 DEF DaemonInv, IncomingInv
    <3> QED BY Zenon, <2>2, <3>2 DEF OpenStates, AliveStates
  <2>6. \A t \in Threads : pc[t] \notin {"listener", "shutdown", "close_listener"}
    <3>1. \A c \in Connections :
            pc[c] \notin {"listener", "shutdown", "close_listener"}
      BY Zenon, <2>2 DEF AliveStates, ServingStates, StopSteps
    <3> QED BY Zenon, <2>0, <2>4, <3>1 DEF Threads, DestroyedStates
  <2>7. file[ListenerFd] # Listener
    BY Zenon, <1>1, <2>4, <2>6 DEF DaemonInv, ListenerInv, TypeOK, ServerTypeOK
  <2>8. \A d \in Fds : file[d] \notin Connections /\ file[d] # Listener
    BY Zenon, <1>1, <2>5, <2>7 DEF DaemonInv, FileInv
  <2>9. \A d \in Fds : file[d] = None
    BY Zenon, <1>1, <2>8 DEF DaemonInv, TypeOK, ServerTypeOK
  <2> QED BY Zenon, <2>3, <2>4, <2>9
<1>2. DaemonInv => NothingOutlivesTheServer
  BY Zenon, <1>1 DEF NothingOutlivesTheServer
<1> QED BY <1>2, DaemonInvariant, PTL

\* A signal that was pending when restore last looked cannot end a process
\* whose run and whose waiter went well.
THEOREM EarlySignalsCannotKill == Spec => []EarlySignalsAreAbsorbed
<1>1. DaemonInv => EarlySignalsAreAbsorbed
  BY Zenon DEF DaemonInv, SignalInv
<1> QED BY <1>1, DaemonInvariant, PTL

-----------------------------------------------------------------------------
(* The Service inside the Server                                             *)

\* A handler is in the middle of a dispatch of the Service exactly while its
\* serve_connection is inside dispatch.
DispatchInv ==
  /\ dpc \in [Connections -> S!Labels]
  /\ \A c \in Connections : dpc[c] = "idle" <=> pc[c] # "dispatch"

\* Whatever happens to the Service, the Server and the process take one of their
\* own steps or none.
LEMMA SystemSteps ==
  ASSUME [SystemNext]_systemVars
  PROVE  [Next]_vars
<1>1. CASE UNCHANGED systemVars
  BY Zenon, <1>1 DEF systemVars
<1>2. CASE MainGoesOn \/ Apart(WaiterStep) \/ Apart(WaitFails)
           \/ Apart(AcceptStep /\ UNCHANGED processVars)
  BY Zenon, <1>2 DEF MainGoesOn, Apart, Next
<1>3. CASE \E s \in Signals : Apart(SignalArrives(s))
  BY Zenon, <1>3 DEF Apart, Next
<1>4. CASE DestroyService
  BY Zenon, <1>4 DEF DestroyService, Inside
<1>5. ASSUME NEW c \in Connections,
             \/ Apart((Connect(c) \/ OwnStep(c)) /\ UNCHANGED processVars)
             \/ ConnectionWaits(c) \/ DispatchReturns(c)
      PROVE  Next
  BY Zenon, <1>5 DEF Apart, ConnectionWaits, DispatchReturns, Next
<1>6. ASSUME NEW c \in Connections,
             \/ DispatchStep(c)
             \/ Inside(\E j \in S!JobIds :
                         S!WakeSpuriously(c, j) /\ UNCHANGED serviceVars)
      PROVE  UNCHANGED vars
  BY Zenon, <1>6 DEF DispatchStep, Inside
<1>7. ASSUME NEW w \in Workers,
             \/ WorkerGoesOn(w)
             \/ Inside((S!Execute(w) \/ S!SpuriousWake(w)) /\ UNCHANGED serviceVars)
      PROVE  UNCHANGED vars
  BY Zenon, <1>7 DEF WorkerGoesOn, Inside
<1>8. CASE Ended /\ UNCHANGED systemVars
  BY Zenon, <1>8 DEF systemVars
<1> QED
  BY Zenon, <1>1, <1>2, <1>3, <1>4, <1>5, <1>6, <1>7, <1>8 DEF SystemNext

\* The daemon with a Service in it behaves as Daemon says: what is proved of Spec
\* holds of it.
THEOREM SystemRunsTheDaemon == SystemSpec => Spec
<1>1. SystemInit => Init
  BY Zenon DEF SystemInit
<1>2. [SystemNext]_systemVars => [Next]_vars
  BY Zenon, SystemSteps
<1> QED BY <1>1, <1>2, PTL DEF SystemSpec, Spec

\* A section of a dispatch before its reply is known leaves it in dispatch.
LEMMA DispatchGoesOn ==
  ASSUME NEW c \in Connections, dpc \in [Connections -> S!Labels],
         S!HandlerStep(c), dpc[c] # "reply", dpc[c] # "idle"
  PROVE  \E l \in S!Labels \ {"idle"} : dpc' = [dpc EXCEPT ![c] = l]
<1> DEFINE Goes == \E l \in S!Labels \ {"idle"} : dpc' = [dpc EXCEPT ![c] = l]
<1>1. ASSUME NEW l \in S!Labels \ {"idle"}, NEW d, S!Continue(c, l, d)
      PROVE  Goes
  BY Zenon, <1>1 DEF S!Continue, S!Jump
<1>2. ASSUME NEW r, S!Leave(c, r)
      PROVE  Goes
  BY Zenon, <1>2 DEF S!Leave, S!Jump, S!Labels
<1>3. ASSUME NEW d, S!Respond(c, d) \/ S!Refuse(c, d)
      PROVE  Goes
  BY Zenon, <1>2, <1>3 DEF S!Respond, S!Refuse
<1>4. ASSUME dpc' = dpc
      PROVE  Goes
  <2>1. dpc[c] \in S!Labels \ {"idle"} /\ dpc' = [dpc EXCEPT ![c] = dpc[c]]
    BY Zenon, <1>4
  <2> QED
    BY Zenon, <2>1
<1>5. \A l \in {"compile", "rollback", "snapshot", "settle", "reopen", "enqueue", "found"} :
        l \in S!Labels \ {"idle"}
  BY Zenon DEF S!Labels
<1> SUFFICES Goes
  OBVIOUS
<1> HIDE DEF Goes
<1>6. CASE S!CreateReserve(c) \/ S!CreateRejected(c) \/ S!CreatePublish(c)
           \/ S!CreateRollback(c)
  BY Zenon, <1>1, <1>2, <1>3, <1>5, <1>6
     DEF S!CreateReserve, S!CreateRejected, S!CreatePublish, S!CreateRollback
<1>7. CASE S!CloseBegin(c) \/ S!CloseDetach(c) \/ S!CloseSnapshotThrows(c)
           \/ S!CloseReopen(c) \/ S!CloseFinalize(c)
  BY Zenon, <1>1, <1>2, <1>3, <1>5, <1>7
     DEF S!CloseBegin, S!CloseDetach, S!CloseSnapshotThrows, S!CloseReopen,
         S!CloseFinalize
<1>8. CASE S!SettleQueued(c) \/ S!SettlePopped(c) \/ S!SettleWait(c)
  BY Zenon, <1>4, <1>8 DEF S!SettleQueued, S!SettlePopped, S!SettleWait, S!dispatchVars
<1>9. CASE S!SubmitValidate(c) \/ S!SubmitPublish(c)
  BY Zenon, <1>1, <1>3, <1>5, <1>9 DEF S!SubmitValidate, S!SubmitPublish
<1>10. CASE \/ S!Find(c) \/ S!ReadStatus(c) \/ S!CancelJob(c) \/ S!ReadResult(c)
            \/ S!ReleaseJob(c) \/ S!AcceptShutdown(c)
  BY Zenon, <1>1, <1>2, <1>3, <1>5, <1>10
     DEF S!Find, S!ReadStatus, S!CancelJob, S!ReadResult, S!ReleaseJob, S!AcceptShutdown
<1>11. ~S!Return(c)
  BY Zenon DEF S!Return
<1> QED
  BY Zenon, <1>6, <1>7, <1>8, <1>9, <1>10, <1>11 DEF S!HandlerStep

\* A step of the Server or the process that is not a call into the Service takes
\* no handler into dispatch or out of it.
LEMMA DispatchLeftAlone ==
  ASSUME DaemonInv,
         \/ MainStep \/ WaiterStep \/ WaitFails
         \/ AcceptStep /\ UNCHANGED processVars
         \/ \E s \in Signals : SignalArrives(s)
         \/ \E d \in Connections : (Connect(d) \/ OwnStep(d)) /\ UNCHANGED processVars,
         NEW c \in Connections
  PROVE  pc'[c] = "dispatch" <=> pc[c] = "dispatch"
<1>0. /\ Typed /\ ListenerInv /\ FileInv /\ IncomingInv
      /\ c \in Threads /\ c # Main /\ c # Waiter /\ Main \in Threads /\ Waiter \in Threads
      /\ pc \in [Threads -> Places]
  BY Zenon DEF DaemonInv, Typed, Threads
<1>1. ASSUME NEW t \in Threads, StopStep(t)
      PROVE  pc'[c] = "dispatch" <=> pc[c] = "dispatch"
  <2>1. AfterStop(t) # "dispatch" /\ "dispatch" \notin StopSteps
    BY Zenon DEF AfterStop, StopSteps
  <2>2. /\ pc[t] \in StopSteps /\ pc'[t] \in StopSteps \cup {AfterStop(t)}
        /\ \A u \in Threads \ {t} :
             pc'[u] = pc[u] \/ (pc[u] = "backlog" /\ pc'[u] = "dropped")
    BY Zenon, <1>0, <1>1, StopMoves
  <2> QED
    BY Zenon, <1>0, <2>1, <2>2
<1>2. CASE MainMove \/ WaiterMove
  BY Zenon, <1>0, <1>2, MainMoves, WaiterMoves
<1>3. CASE RunChange
  BY Zenon, <1>0, <1>3, RunChanges
<1>4. ASSUME NEW d \in Connections, HandlerEnd(d)
      PROVE  pc'[c] = "dispatch" <=> pc[c] = "dispatch"
  <2>1. pc' = [pc EXCEPT ![d] = pc'[d]] /\ pc[d] # "dispatch" /\ pc'[d] # "dispatch"
    BY Zenon, <1>0, <1>4, HandlerEnds
  <2> QED
    BY Zenon, <1>0, <2>1
<1>5. ASSUME NEW d \in Connections, Connect(d) \/ HandlerLoop(d) \/ HandlerTail(d)
      PROVE  pc'[c] = "dispatch" <=> pc[c] = "dispatch"
  <2>1. d \in Threads
    BY Zenon DEF Threads
  <2>2. PICK from, to \in Places \ {"dispatch"} : Goto(d, from, to)
    BY Zenon, <1>5 DEF Connect, HandlerLoop, HandlerTail, Places, HandlerStates, StopSteps
  <2> QED
    BY Zenon, <1>0, <2>1, <2>2 DEF Goto
<1>6. ASSUME NEW s \in Signals, SignalArrives(s)
      PROVE  pc'[c] = pc[c]
  BY Zenon, <1>6 DEF SignalArrives, serverVars
<1>7. CASE MainStep
  BY Zenon, <1>0, <1>1, <1>2, <1>3, <1>7 DEF MainStep, RunStep, MainMove, RunChange
<1>8. CASE WaiterStep \/ WaitFails
  BY Zenon, <1>0, <1>1, <1>2, <1>8 DEF WaiterStep, WaiterMove
<1>9. CASE AcceptStep
  BY Zenon, <1>3, <1>9 DEF AcceptStep, RunChange
<1>10. ASSUME NEW d \in Connections, Connect(d) \/ OwnStep(d)
       PROVE  pc'[c] = "dispatch" <=> pc[c] = "dispatch"
  <2>1. d \in Threads
    BY Zenon DEF Threads
  <2> QED
    BY Zenon, <1>1, <1>4, <1>5, <1>10, <2>1 DEF OwnStep, HandlerEnd
<1> QED
  BY Zenon, <1>6, <1>7, <1>8, <1>9, <1>10

\* A handler begins a dispatch of the Service when it has read a request, and has
\* its reply when it leaves; nothing else changes where it is in the Service.
LEMMA DispatchInvStep ==
  ASSUME DaemonInv, DispatchInv, [SystemNext]_systemVars
  PROVE  DispatchInv'
<1>0. /\ dpc \in [Connections -> S!Labels]
      /\ \A c \in Connections : dpc[c] = "idle" <=> pc[c] # "dispatch"
      /\ pc \in [Threads -> Places] /\ Connections \subseteq Threads
  BY Zenon DEF DispatchInv, DaemonInv, Threads
<1>1. ASSUME dpc' = dpc,
             \A c \in Connections : pc'[c] = "dispatch" <=> pc[c] = "dispatch"
      PROVE  DispatchInv'
  BY Zenon, <1>0, <1>1 DEF DispatchInv, S!Labels
<1>2. ASSUME NEW c \in Connections, NEW l \in S!Labels, dpc' = [dpc EXCEPT ![c] = l],
             \A d \in Connections \ {c} : pc'[d] = pc[d],
             l = "idle" <=> pc'[c] # "dispatch"
      PROVE  DispatchInv'
  BY Zenon, <1>0, <1>2 DEF DispatchInv, S!Labels
<1>3. ASSUME UNCHANGED orchestrationVars,
             \/ MainStep \/ WaiterStep \/ WaitFails
             \/ AcceptStep /\ UNCHANGED processVars
             \/ \E s \in Signals : SignalArrives(s)
             \/ \E d \in Connections : (Connect(d) \/ OwnStep(d)) /\ UNCHANGED processVars
      PROVE  DispatchInv'
  <2>1. dpc' = dpc
    BY Zenon, <1>3 DEF orchestrationVars, serviceVars
  <2> QED
    BY Zenon, <1>1, <1>3, <2>1, DispatchLeftAlone
<1>4. ASSUME UNCHANGED vars, UNCHANGED serviceVars
      PROVE  DispatchInv'
  <2>1. dpc' = dpc /\ pc' = pc
    BY Zenon, <1>4 DEF vars, serverVars, serviceVars
  <2> QED
    BY Zenon, <1>1, <2>1
<1>5. ASSUME NEW c \in Connections, ConnectionWaits(c)
      PROVE  DispatchInv'
  <2>1. /\ c \in Threads /\ pc' = [pc EXCEPT ![c] = pc'[c]] /\ pc[c] # "dispatch"
        /\ \A d \in Connections \ {c} : pc'[d] = pc[d]
    BY Zenon, <1>0, <1>5
       DEF ConnectionWaits, PeerStep, ReadFrame, Respond, WriteFailure, Goto
  <2>2. CASE pc'[c] = "dispatch"
    <3>1. PICK m, i : S!Begin(c, m, i)
      BY Zenon, <1>5, <2>2 DEF ConnectionWaits
    <3>2. \E l \in {"call", "reply"} : dpc' = [dpc EXCEPT ![c] = l]
      BY Zenon, <3>1 DEF S!Begin, S!Leave, S!Jump
    <3>3. "call" \in S!Labels /\ "reply" \in S!Labels
      BY Zenon DEF S!Labels
    <3> QED
      BY Zenon, <1>2, <2>1, <2>2, <3>2, <3>3
  <2>3. CASE pc'[c] # "dispatch"
    <3>1. dpc' = dpc
      BY Zenon, <1>5, <2>3 DEF ConnectionWaits, orchestrationVars, serviceVars
    <3> QED
      BY Zenon, <1>1, <2>1, <2>3, <3>1
  <2> QED
    BY Zenon, <2>2, <2>3
<1>6. ASSUME NEW c \in Connections, DispatchStep(c)
      PROVE  DispatchInv'
  <2>1. pc' = pc /\ pc[c] = "dispatch" /\ dpc[c] # "reply" /\ S!HandlerStep(c)
    BY Zenon, <1>6 DEF DispatchStep, vars, serverVars
  <2>2. PICK l \in S!Labels \ {"idle"} : dpc' = [dpc EXCEPT ![c] = l]
    BY Zenon, <1>0, <2>1, DispatchGoesOn
  <2> QED
    BY Zenon, <1>2, <2>1, <2>2
<1>7. ASSUME NEW c \in Connections, DispatchReturns(c)
      PROVE  DispatchInv'
  <2>1. /\ pc'[c] = "respond" /\ \A d \in Connections \ {c} : pc'[d] = pc[d]
        /\ dpc' = [dpc EXCEPT ![c] = "idle"]
    BY Zenon, <1>0, <1>7 DEF DispatchReturns, Dispatch, Goto, S!Return, S!Jump
  <2>2. "idle" \in S!Labels
    BY Zenon DEF S!Labels
  <2> QED
    BY Zenon, <1>2, <2>1, <2>2
<1>8. CASE UNCHANGED systemVars
  BY Zenon, <1>4, <1>8 DEF systemVars, orchestrationVars
<1>9. CASE MainGoesOn \/ Apart(WaiterStep) \/ Apart(WaitFails)
           \/ Apart(AcceptStep /\ UNCHANGED processVars)
  BY Zenon, <1>3, <1>9 DEF MainGoesOn, Apart
<1>10. CASE \E s \in Signals : Apart(SignalArrives(s))
  BY Zenon, <1>3, <1>10 DEF Apart
<1>11. CASE DestroyService
  BY Zenon, <1>4, <1>11 DEF DestroyService, Inside
<1>12. ASSUME NEW c \in Connections,
              Apart((Connect(c) \/ OwnStep(c)) /\ UNCHANGED processVars)
       PROVE  DispatchInv'
  BY Zenon, <1>3, <1>12 DEF Apart
<1>13. ASSUME NEW c \in Connections,
              Inside(\E j \in S!JobIds :
                       S!WakeSpuriously(c, j) /\ UNCHANGED serviceVars)
       PROVE  DispatchInv'
  BY Zenon, <1>4, <1>13 DEF Inside
<1>14. ASSUME NEW w \in Workers,
              \/ WorkerGoesOn(w)
              \/ Inside((S!Execute(w) \/ S!SpuriousWake(w)) /\ UNCHANGED serviceVars)
       PROVE  DispatchInv'
  BY Zenon, <1>4, <1>14 DEF WorkerGoesOn, Inside
<1> QED
  BY Zenon, <1>5, <1>6, <1>7, <1>8, <1>9, <1>10, <1>11, <1>12, <1>13, <1>14
     DEF SystemNext

\* Before it accepts anything the Server has dispatched nothing.
LEMMA DispatchInvInit ==
  ASSUME SystemInit
  PROVE  DispatchInv
<1>1. dpc = [c \in Connections |-> "idle"]
  BY Zenon DEF SystemInit, S!Init
<1>2. ASSUME NEW c \in Connections
      PROVE  pc[c] # "dispatch"
  <2>1. c \in Threads /\ c # Main /\ c # Waiter
    BY Zenon DEF Threads
  <2> QED
    BY Zenon, <2>1 DEF SystemInit, Init, ServerInit
<1> QED
  BY Zenon, <1>1, <1>2 DEF DispatchInv, S!Labels

\* Every step of the daemon is one of the Service as Service specifies it, or none;
\* above all ~JobRegistry stops when every handler was joined.
LEMMA ServiceSteps ==
  ASSUME DaemonInv, DispatchInv, [SystemNext]_systemVars
  PROVE  [S!Next]_(S!vars)
<1>1. ASSUME UNCHANGED orchestrationVars
      PROVE  UNCHANGED S!vars
  BY Zenon, <1>1 DEF orchestrationVars, registryVars, serviceVars, S!vars,
     S!registryVars, S!serviceVars
<1>2. CASE UNCHANGED systemVars
  BY Zenon, <1>1, <1>2 DEF systemVars
<1>3. CASE \/ MainGoesOn \/ Apart(WaiterStep) \/ Apart(WaitFails)
           \/ Apart(AcceptStep /\ UNCHANGED processVars)
           \/ \E s \in Signals : Apart(SignalArrives(s))
           \/ \E c \in Connections :
                Apart((Connect(c) \/ OwnStep(c)) /\ UNCHANGED processVars)
  BY Zenon, <1>1, <1>3 DEF MainGoesOn, Apart
<1>4. UNCHANGED serviceVars => UNCHANGED S!serviceVars
  BY Zenon DEF serviceVars, S!serviceVars
<1>5. CASE DestroyService
  <2>1. ASSUME NEW c \in Connections
        PROVE  dpc[c] = "idle"
    <3>1. pc[Main] \in DestroyedStates
      BY Zenon, <1>5 DEF DestroyService, DestroyedStates
    <3>2. handlers = <<>> /\ owned = <<>>
      BY Zenon, <3>1 DEF DaemonInv, RecordInv, DestroyedStates
    <3>3. Range(handlers) = {} /\ Range(owned) = {}
      BY <3>2 DEF Range
    <3>4. pc[c] \notin AliveStates
      BY Zenon, <3>3 DEF DaemonInv, RecordInv
    <3> QED
      BY Zenon, <3>4 DEF DispatchInv, AliveStates, ServingStates
  <2> QED
    BY Zenon, <1>4, <1>5, <2>1 DEF DestroyService, Inside, S!Next, S!Stop, S!Clear
<1>6. ASSUME NEW c \in Connections, ConnectionWaits(c)
      PROVE  S!Next \/ UNCHANGED S!vars
  BY Zenon, <1>1, <1>6 DEF ConnectionWaits, S!Next
<1>7. ASSUME NEW c \in Connections, DispatchStep(c) \/ DispatchReturns(c)
      PROVE  S!Next
  BY Zenon, <1>7 DEF DispatchStep, DispatchReturns, S!Next, S!HandlerStep
<1>8. ASSUME NEW c \in Connections,
             Inside(\E j \in S!JobIds :
                      S!WakeSpuriously(c, j) /\ UNCHANGED serviceVars)
      PROVE  S!Next
  BY Zenon, <1>4, <1>8 DEF Inside, S!Next
<1>9. ASSUME NEW w \in Workers,
             \/ WorkerGoesOn(w)
             \/ Inside((S!Execute(w) \/ S!SpuriousWake(w)) /\ UNCHANGED serviceVars)
      PROVE  S!Next
  BY Zenon, <1>4, <1>9 DEF WorkerGoesOn, Inside, S!Next
<1> QED
  BY Zenon, <1>2, <1>3, <1>5, <1>6, <1>7, <1>8, <1>9 DEF SystemNext

\* The Server keeps what the Service asks of its caller, for any number of
\* connections, workers, Sessions and jobs: what is proved of Service holds in the
\* daemon.
THEOREM ServerUsesServiceAsSpecified == SystemSpec => ServiceIsUsedAsSpecified
<1>1. SystemInit => DispatchInv /\ S!Init
  BY Zenon, DispatchInvInit DEF SystemInit
<1>2. DaemonInv /\ DispatchInv /\ [SystemNext]_systemVars => DispatchInv'
  BY Zenon, DispatchInvStep
<1>3. DaemonInv /\ DispatchInv /\ [SystemNext]_systemVars => [S!Next]_(S!vars)
  BY Zenon, ServiceSteps
<1>4. SystemSpec => []DaemonInv
  BY SystemRunsTheDaemon, DaemonInvariant, PTL
<1> QED
  BY <1>1, <1>2, <1>3, <1>4, PTL DEF SystemSpec, ServiceIsUsedAsSpecified, S!Spec

=============================================================================
