------------------------------- MODULE Server -------------------------------
(***************************************************************************)
(* Server::Impl of src/lib/server/server.cpp: the accept loop of run, one  *)
(* thread per admitted connection, reaping of finished handlers, stop and  *)
(* join_handlers.                                                          *)
(*                                                                         *)
(* One action is one atomic operation, one critical section of             *)
(* connections_mutex, or one call that may block.  handlers_mutex has no   *)
(* variable: only the thread of run takes it.  A connection and the thread *)
(* that serves it have the same name, so pc also says what became of a     *)
(* connection that never got a thread.                                     *)
(*                                                                         *)
(* Descriptor numbers are those of the process: a number is free again     *)
(* once it is closed, and accept returns the lowest free one.              *)
(***************************************************************************)
EXTENDS Integers, FiniteSets, Sequences, Functions

CONSTANTS
  Connections,                  \* connections peers may open
  maximum_active_connections,   \* admission bound
  Waiter,                       \* the thread that calls request_stop
  Main,                         \* the thread of run and of the destructor
  Listener,                     \* the listening socket, as an open file
  None                          \* no connection, or a free descriptor

ASSUME ServerAssumption ==
  /\ IsFiniteSet(Connections)
  /\ maximum_active_connections \in Nat \ {0}
  /\ Waiter # Main /\ Listener # None /\ None \notin {Waiter, Main}
  /\ {Waiter, Main, Listener, None} \cap Connections = {}

VARIABLES
  stopping,             \* monotonic shutdown flag
  listener_fd,          \* listener descriptor, -1 once stop took it
  active_connections,   \* descriptors stop interrupts
  handlers,             \* handler records, oldest first
  owned,                \* records join_handlers has taken over
  active_handlers,      \* admitted handler count
  finished,             \* completion flag of a handler record
  accepted_shutdown,    \* local of serve_connection
  descriptor,           \* descriptor number of a connection
  file,                 \* open file behind each descriptor number
  shut,                 \* open files on which shutdown was called
  pc,                   \* control state of each thread
  incoming,             \* connection run has accepted and not handed over
  disposition,          \* result of accept, back to Accepted after its use
  scan,                 \* position of reap_finished_handlers, 1 outside it
  outcome,              \* what run returns, or Thrown
  destroying            \* whether Main is in the destructor

connectionVars == <<active_connections, accepted_shutdown, descriptor, file,
                    shut>>
runVars == <<incoming, disposition, scan, outcome, destroying>>
recordVars == <<handlers, owned, active_handlers, finished>>
stopVars == <<stopping, listener_fd>>
serverVars == <<stopping, listener_fd, active_connections, handlers, owned,
                active_handlers, finished, accepted_shutdown, descriptor,
                file, shut, pc, incoming, disposition, scan, outcome,
                destroying>>

Threads == Connections \cup {Waiter, Main}
Fds == 0..Cardinality(Connections)
ListenerFd == 0
NoFd == -1

StopSteps == {"stop", "listener", "shutdown", "close_listener", "sweep"}

\* A connection is "new" until a peer connects and "dropped" if it was closed
\* without a handler; every other value is a place in serve_connection.
HandlerStates ==
  StopSteps \cup {"new", "backlog", "held", "dropped", "register", "loop",
                  "read", "dispatch", "respond", "fail", "tail", "erase",
                  "close", "finish", "release", "exit"}

RunStates ==
  StopSteps \cup {"enter", "loop", "load", "accept", "accepted", "reap",
                  "admit", "reserve", "spawn", "swap", "join", "remove",
                  "returned", "destroyed"}

Dispositions == {"Accepted", "PeerRejected", "FatalFailure", "Interrupted"}

ServerTypeOK ==
  /\ stopping \in BOOLEAN /\ destroying \in BOOLEAN
  /\ listener_fd \in {NoFd, ListenerFd}
  /\ active_connections \subseteq Fds
  /\ handlers \in Seq(Connections) /\ owned \in Seq(Connections)
  /\ active_handlers \in 0..maximum_active_connections
  /\ finished \in [Connections -> BOOLEAN]
  /\ accepted_shutdown \in [Connections -> BOOLEAN]
  /\ descriptor \in [Connections -> Fds \cup {NoFd}]
  /\ file \in [Fds -> Connections \cup {Listener, None}]
  /\ shut \subseteq Connections \cup {Listener}
  /\ \A c \in Connections : pc[c] \in HandlerStates
  /\ incoming \in Connections \cup {None}
  /\ disposition \in Dispositions
  /\ scan \in Nat
  /\ outcome \in {"Success", "Thrown"} \cup Dispositions

\* The constructed Server: bound listener, no handler.
ServerInit ==
  /\ stopping = FALSE /\ destroying = FALSE
  /\ listener_fd = ListenerFd
  /\ active_connections = {}
  /\ handlers = <<>> /\ owned = <<>>
  /\ active_handlers = 0
  /\ finished = [c \in Connections |-> FALSE]
  /\ accepted_shutdown = [c \in Connections |-> FALSE]
  /\ descriptor = [c \in Connections |-> NoFd]
  /\ file = [d \in Fds |-> IF d = ListenerFd THEN Listener ELSE None]
  /\ shut = {}
  /\ pc = [t \in Threads |-> CASE t = Main -> "enter"
                               [] t = Waiter -> "sigwait"
                               [] OTHER -> "new"]
  /\ incoming = None
  /\ disposition = "Accepted"
  /\ scan = 1
  /\ outcome = "Success"

Goto(t, from, to) == pc[t] = from /\ pc' = [pc EXCEPT ![t] = to]

Closed(f, c) == [d \in Fds |-> IF f[d] = c THEN None ELSE f[d]]

-----------------------------------------------------------------------------
(* stop, which Main, the waiter and a handler that accepted a shutdown call. *)

AfterStop(t) ==
  CASE t = Main -> "swap" [] t = Waiter -> "done" [] OTHER -> "erase"

\* stopping.exchange(true): a later caller returns at once.
StopExchange(t) ==
  /\ Goto(t, "stop", IF stopping THEN AfterStop(t) ELSE "listener")
  /\ stopping' = TRUE
  /\ UNCHANGED <<listener_fd, connectionVars, recordVars, runVars>>

StopTakeListener(t) ==
  /\ Goto(t, "listener", IF listener_fd = NoFd THEN "sweep" ELSE "shutdown")
  /\ listener_fd' = NoFd
  /\ UNCHANGED <<stopping, connectionVars, recordVars, runVars>>

StopShutdownListener(t) ==
  /\ Goto(t, "shutdown", "close_listener")
  /\ shut' = shut \cup {Listener}
  /\ UNCHANGED <<stopVars, active_connections, accepted_shutdown, descriptor,
                 file, recordVars, runVars>>

\* close: connections still in the backlog are reset.
StopCloseListener(t) ==
  /\ pc[t] = "close_listener"
  /\ pc' = [u \in Threads |->
              CASE u = t -> "sweep"
                [] u # t /\ pc[u] = "backlog" -> "dropped"
                [] OTHER -> pc[u]]
  /\ file' = [file EXCEPT ![ListenerFd] = None]
  /\ UNCHANGED <<stopVars, active_connections, accepted_shutdown, descriptor,
                 shut, recordVars, runVars>>

\* The critical section of connections_mutex: shutdown hits whatever file the
\* process has behind each recorded number.
StopSweep(t) ==
  /\ Goto(t, "sweep", AfterStop(t))
  /\ shut' = shut \cup ({file[d] : d \in active_connections} \ {None})
  /\ UNCHANGED <<stopVars, active_connections, accepted_shutdown, descriptor,
                 file, recordVars, runVars>>

StopStep(t) ==
  \/ StopExchange(t)
  \/ StopTakeListener(t)
  \/ StopShutdownListener(t)
  \/ StopCloseListener(t)
  \/ StopSweep(t)

-----------------------------------------------------------------------------
(* serve_connection and HandlerCompletion, on the handler's own thread.      *)

\* Registration under connections_mutex, or its failure: a typed failure is
\* written to the fresh stream and the handler returns.
Register(c) ==
  /\ \/ /\ Goto(c, "register", "loop")
        /\ active_connections' = active_connections \cup {descriptor[c]}
     \/ /\ Goto(c, "register", "close")
        /\ UNCHANGED active_connections
  /\ UNCHANGED <<stopVars, accepted_shutdown, descriptor, file, shut,
                 recordVars, runVars>>

HandlerQuiet == UNCHANGED <<stopVars, connectionVars, recordVars, runVars>>

\* Mutant: the handler starts to read whatever the flag says.
HandlerLoop_IgnoresStop(c) == Goto(c, "loop", "read") /\ HandlerQuiet

\* while (!stopping.load())
HandlerLoop(c) ==
  /\ Goto(c, "loop", IF stopping THEN "tail" ELSE "read")
  /\ HandlerQuiet

\* read_frame and decode_request return a request, report a bad frame or an
\* allocation failure, or see the end of the stream.  The bytes are the peer's.
ReadFrame(c) ==
  /\ \E next \in {"dispatch", "fail", "tail"} : Goto(c, "read", next)
  /\ HandlerQuiet

\* Service::dispatch returns; whether a shutdown was accepted is recorded
\* before anything else can fail.
Dispatch(c) ==
  /\ Goto(c, "dispatch", "respond")
  /\ \E shutdown \in BOOLEAN :
       accepted_shutdown' = [accepted_shutdown EXCEPT ![c] = shutdown]
  /\ UNCHANGED <<stopVars, active_connections, descriptor, file, shut,
                 recordVars, runVars>>

\* Mutant: a shutdown whose acknowledgement cannot be written is forgotten.
Respond_LosesShutdown(c) ==
  /\ \/ Goto(c, "respond", IF accepted_shutdown[c] THEN "tail" ELSE "loop")
     \/ Goto(c, "respond", "erase")
  /\ HandlerQuiet

\* encode_response and write_frame succeed; or encoding fails or throws, and a
\* failure response is tried; or the write fails.
Respond(c) ==
  /\ \/ Goto(c, "respond", IF accepted_shutdown[c] THEN "tail" ELSE "loop")
     \/ Goto(c, "respond", "fail")
     \/ Goto(c, "respond", "tail")
  /\ HandlerQuiet

\* write_protocol_failure or write_handler_failure: best effort.
WriteFailure(c) == Goto(c, "fail", "tail") /\ HandlerQuiet

HandlerTail(c) ==
  /\ Goto(c, "tail", IF accepted_shutdown[c] THEN "stop" ELSE "erase")
  /\ HandlerQuiet

\* Mutant: the descriptor is closed before it is taken off the inventory.
Erase_AfterClose(c) ==
  /\ Goto(c, "erase", "close")
  /\ file' = Closed(file, c)
  /\ UNCHANGED <<stopVars, active_connections, accepted_shutdown, descriptor,
                 shut, recordVars, runVars>>

Erase(c) ==
  /\ Goto(c, "erase", "close")
  /\ active_connections' = active_connections \ {descriptor[c]}
  /\ UNCHANGED <<stopVars, accepted_shutdown, descriptor, file, shut,
                 recordVars, runVars>>

\* The UniqueDescriptor parameter is destroyed when serve_connection returns.
CloseConnection(c) ==
  /\ Goto(c, "close", "finish")
  /\ file' = Closed(file, c)
  /\ UNCHANGED <<stopVars, active_connections, accepted_shutdown, descriptor,
                 shut, recordVars, runVars>>

\* ~HandlerCompletion: the flag first, then the slot.
Finish(c) ==
  /\ Goto(c, "finish", "release")
  /\ finished' = [finished EXCEPT ![c] = TRUE]
  /\ UNCHANGED <<stopVars, connectionVars, handlers, owned, active_handlers,
                 runVars>>

ReleaseSlot(c) ==
  /\ Goto(c, "release", "exit")
  /\ active_handlers' = active_handlers - 1
  /\ UNCHANGED <<stopVars, connectionVars, handlers, owned, finished, runVars>>

\* The steps that wait for the peer, and those that do not.
PeerStep(c) == ReadFrame(c) \/ Respond(c) \/ WriteFailure(c)

OwnStep(c) ==
  \/ Register(c) \/ HandlerLoop(c) \/ HandlerTail(c)
  \/ StopStep(c)
  \/ Erase(c) \/ CloseConnection(c) \/ Finish(c) \/ ReleaseSlot(c)

-----------------------------------------------------------------------------
(* Server::run, on Main.                                                     *)

RunQuiet == UNCHANGED <<stopVars, connectionVars, recordVars, runVars>>

RunEnter ==
  /\ Goto(Main, "enter", IF stopping THEN "returned" ELSE "loop")
  /\ RunQuiet

RunLoop ==
  /\ Goto(Main, "loop", IF stopping THEN "stop" ELSE "load")
  /\ RunQuiet

LoadListener ==
  /\ Goto(Main, "load", IF listener_fd = NoFd THEN "stop" ELSE "accept")
  /\ RunQuiet

FreeFds == {d \in Fds : file[d] = None}
LowestFree == CHOOSE d \in FreeFds : \A e \in FreeFds : d <= e

\* accept_same_user hands over a connection of the same user.
AcceptConnection(c) ==
  /\ pc[Main] = "accept" /\ pc[c] = "backlog"
  /\ pc' = [pc EXCEPT ![Main] = "accepted", ![c] = "held"]
  /\ descriptor' = [descriptor EXCEPT ![c] = LowestFree]
  /\ file' = [file EXCEPT ![LowestFree] = c]
  /\ incoming' = c /\ disposition' = "Accepted"
  /\ UNCHANGED <<stopVars, active_connections, accepted_shutdown, shut,
                 recordVars, scan, outcome, destroying>>

\* The peer is another user's, or its credentials cannot be read: the stream
\* is closed again before accept_same_user returns.
AcceptDrops(c) ==
  /\ pc[Main] = "accept" /\ pc[c] = "backlog"
  /\ pc' = [pc EXCEPT ![Main] = "accepted", ![c] = "dropped"]
  /\ disposition' \in {"PeerRejected", "FatalFailure"}
  /\ UNCHANGED <<stopVars, connectionVars, recordVars, incoming, scan,
                 outcome, destroying>>

\* accept itself fails; "Interrupted" is the FatalFailure that only the
\* shutdown or the close of the listener explains.
AcceptFails ==
  /\ Goto(Main, "accept", "accepted")
  /\ \/ disposition' = "FatalFailure"
     \/ /\ Listener \in shut \/ file[ListenerFd] # Listener
        /\ disposition' = "Interrupted"
  /\ UNCHANGED <<stopVars, connectionVars, recordVars, incoming, scan,
                 outcome, destroying>>

\* The accepted connection, if any, is closed and Main goes on at next.
DropIncoming(next) ==
  /\ pc' = [t \in Threads |-> CASE t = Main -> next
                                [] t = incoming -> "dropped"
                                [] OTHER -> pc[t]]
  /\ file' = Closed(file, incoming)
  /\ incoming' = None
  /\ UNCHANGED <<active_connections, accepted_shutdown, descriptor, shut>>

\* A diagnostic cannot be allocated and the exception leaves run at once,
\* from accept or from the refusal of a connection over the bound.
RunThrows ==
  /\ \/ pc[Main] = "accept"
     \/ pc[Main] = "admit" /\ active_handlers >= maximum_active_connections
  /\ DropIncoming("returned")
  /\ outcome' = "Thrown"
  /\ UNCHANGED <<stopVars, recordVars, disposition, scan, destroying>>

\* Mutant: the flag is not looked at again when accept returns.
AfterAccept_NoRecheck ==
  /\ pc[Main] = "accepted"
  /\ \/ /\ disposition = "PeerRejected"
        /\ DropIncoming("loop") /\ UNCHANGED outcome
     \/ /\ disposition \in {"FatalFailure", "Interrupted"}
        /\ DropIncoming("stop") /\ outcome' = disposition
     \/ /\ disposition = "Accepted"
        /\ Goto(Main, "accepted", "reap")
        /\ UNCHANGED <<connectionVars, incoming, outcome>>
  /\ disposition' = "Accepted"
  /\ UNCHANGED <<stopVars, recordVars, scan, destroying>>

\* After accept: a stop in progress wins over whatever accept returned; then
\* a rejected peer is skipped, and a fatal failure stops the server.
AfterAccept ==
  /\ pc[Main] = "accepted"
  /\ \/ stopping /\ DropIncoming("stop") /\ UNCHANGED outcome
     \/ /\ ~stopping /\ disposition = "PeerRejected"
        /\ DropIncoming("loop") /\ UNCHANGED outcome
     \/ /\ ~stopping /\ disposition \in {"FatalFailure", "Interrupted"}
        /\ DropIncoming("stop") /\ outcome' = disposition
     \/ /\ ~stopping /\ disposition = "Accepted"
        /\ Goto(Main, "accepted", "reap")
        /\ UNCHANGED <<connectionVars, incoming, outcome>>
  /\ disposition' = "Accepted"
  /\ UNCHANGED <<stopVars, recordVars, scan, destroying>>

\* vector::erase of the record at position i.
Erased(s, i) == SubSeq(s, 1, i - 1) \o SubSeq(s, i + 1, Len(s))

\* reap_finished_handlers, one record at a time: one that has not finished is
\* passed over, one that has is joined and erased.
Reap ==
  /\ pc[Main] = "reap"
  /\ \/ /\ scan > Len(handlers)
        /\ Goto(Main, "reap", "admit")
        /\ scan' = 1
        /\ UNCHANGED handlers
     \/ /\ scan <= Len(handlers) /\ ~finished[handlers[scan]]
        /\ scan' = scan + 1
        /\ UNCHANGED <<pc, handlers>>
     \/ /\ scan <= Len(handlers) /\ finished[handlers[scan]]
        /\ pc[handlers[scan]] = "exit"
        /\ handlers' = Erased(handlers, scan)
        /\ UNCHANGED <<pc, scan>>
  /\ UNCHANGED <<stopVars, connectionVars, owned, active_handlers, finished,
                 incoming, disposition, outcome, destroying>>

\* Mutant: one connection more than the bound is admitted.
Admit_OffByOne ==
  /\ pc[Main] = "admit"
  /\ \/ /\ active_handlers > maximum_active_connections
        /\ DropIncoming("loop")
     \/ /\ active_handlers <= maximum_active_connections
        /\ Goto(Main, "admit", "reserve")
        /\ UNCHANGED <<connectionVars, incoming>>
  /\ UNCHANGED <<stopVars, recordVars, disposition, scan, outcome, destroying>>

\* The bound is tested on active_handlers; a connection over it is answered
\* with a typed failure and closed.
Admit ==
  /\ pc[Main] = "admit"
  /\ \/ /\ active_handlers >= maximum_active_connections
        /\ DropIncoming("loop")
     \/ /\ active_handlers < maximum_active_connections
        /\ Goto(Main, "admit", "reserve")
        /\ UNCHANGED <<connectionVars, incoming>>
  /\ UNCHANGED <<stopVars, recordVars, disposition, scan, outcome, destroying>>

\* The completion flag is allocated and the slot counted, or the allocation
\* throws with nothing reserved; the connection then stays open until the
\* exception leaves the loop.
Reserve ==
  /\ \/ /\ Goto(Main, "reserve", "spawn")
        /\ active_handlers' = active_handlers + 1
        /\ UNCHANGED outcome
     \/ /\ Goto(Main, "reserve", "stop")
        /\ outcome' = "Thrown"
        /\ UNCHANGED active_handlers
  /\ UNCHANGED <<stopVars, connectionVars, handlers, owned, finished, incoming,
                 disposition, scan, destroying>>

\* The record is pushed and its thread started with the descriptor.
Spawn ==
  /\ pc[Main] = "spawn"
  /\ pc' = [pc EXCEPT ![Main] = "loop", ![incoming] = "register"]
  /\ handlers' = Append(handlers, incoming)
  /\ incoming' = None
  /\ UNCHANGED <<stopVars, connectionVars, owned, active_handlers, finished,
                 disposition, scan, outcome, destroying>>

\* Mutant: the slot of a handler that could not be started stays taken.
SpawnFails_KeepsSlot ==
  /\ pc[Main] = "spawn"
  /\ DropIncoming("stop")
  /\ outcome' = "Thrown"
  /\ UNCHANGED <<stopVars, recordVars, disposition, scan, destroying>>

\* The record or the thread cannot be made: no record is left, the slot is
\* given back and the server stops; run throws once it has joined.  The thread's
\* closure takes the connection with it; without a record it stays open so long.
SpawnFails ==
  /\ pc[Main] = "spawn"
  /\ \/ DropIncoming("stop")
     \/ /\ Goto(Main, "spawn", "stop")
        /\ UNCHANGED <<connectionVars, incoming>>
  /\ active_handlers' = active_handlers - 1
  /\ outcome' = "Thrown"
  /\ UNCHANGED <<stopVars, handlers, owned, finished, disposition, scan,
                 destroying>>

SwapHandlers ==
  /\ Goto(Main, "swap", "join")
  /\ owned' = handlers /\ handlers' = <<>>
  /\ UNCHANGED <<stopVars, connectionVars, active_handlers, finished, runVars>>

\* Mutant: a handler that has not finished is left behind.
JoinHandlers_OnlyFinished ==
  /\ Goto(Main, "join", "remove")
  /\ owned' = <<>>
  /\ \A i \in DOMAIN owned : finished[owned[i]] => pc[owned[i]] = "exit"
  /\ UNCHANGED <<stopVars, connectionVars, handlers, active_handlers, finished,
                 runVars>>

\* join_handlers waits for the threads one after the other.
JoinHandlers ==
  /\ pc[Main] = "join"
  /\ \/ /\ owned = <<>>
        /\ Goto(Main, "join", "remove") /\ UNCHANGED owned
     \/ /\ owned # <<>> /\ pc[Head(owned)] = "exit"
        /\ owned' = Tail(owned) /\ UNCHANGED pc
  /\ UNCHANGED <<stopVars, connectionVars, handlers, active_handlers, finished,
                 runVars>>

\* socket_node.remove() ends run, and the destructor.
RemoveNode ==
  /\ pc[Main] = "remove"
  /\ DropIncoming(IF destroying THEN "destroyed" ELSE "returned")
  /\ UNCHANGED <<stopVars, recordVars, disposition, scan, outcome, destroying>>

\* ~Impl runs the same stop and join_handlers before its members go.
Destroy ==
  /\ Goto(Main, "destroy", "stop")
  /\ destroying' = TRUE
  /\ UNCHANGED <<stopVars, connectionVars, recordVars, incoming, disposition,
                 scan, outcome>>

\* What Main does by itself, except that accept waits for a peer.
RunStep ==
  \/ RunEnter \/ RunLoop \/ LoadListener
  \/ AfterAccept \/ Reap \/ Admit \/ Reserve \/ Spawn \/ SpawnFails
  \/ StopStep(Main) \/ SwapHandlers \/ JoinHandlers \/ RemoveNode
  \/ Destroy

AcceptStep ==
  \/ \E c \in Connections : AcceptConnection(c) \/ AcceptDrops(c)
  \/ AcceptFails
  \/ RunThrows

\* A peer connects while the listener is open.
Connect(c) ==
  /\ Goto(c, "new", "backlog")
  /\ file[ListenerFd] = Listener
  /\ UNCHANGED <<stopVars, connectionVars, recordVars, runVars>>

=============================================================================
