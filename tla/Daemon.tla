------------------------------- MODULE Daemon -------------------------------
(***************************************************************************)
(* The process of apps/photospiderd/main.cpp around the Server: the mask   *)
(* guard, the thread that waits for stop signals, and the order in which   *)
(* main finishes it, destroys the Server and restores the mask.            *)
(***************************************************************************)
EXTENDS Server

CONSTANTS Signals      \* the stop signals and SIGUSR1 that others may send

ASSUME DaemonAssumption == Signals \subseteq {"SIGINT", "SIGTERM", "SIGUSR1"}

VARIABLES
  pending,     \* blocked signals pending on the process
  wake,        \* whether the directed SIGUSR1 is pending on the waiter
  complete_,   \* normal completion flag
  error_,      \* whether a wait error was recorded
  missed       \* pending signals that came after the last look at them

processVars == <<pending, wake, complete_, error_, missed>>
vars == <<serverVars, processVars>>

MainStates ==
  RunStates \cup {"wake", "join_waiter", "destroy", "inspect", "drain",
                  "unmask", "exited", "killed"}

\* Every variable has the type the code gives it.
TypeOK ==
  /\ ServerTypeOK
  /\ pc[Main] \in MainStates
  /\ pc[Waiter] \in StopSteps \cup {"sigwait", "done"}
  /\ pending \subseteq Signals /\ missed \subseteq Signals
  /\ wake \in BOOLEAN /\ complete_ \in BOOLEAN /\ error_ \in BOOLEAN

Init ==
  /\ ServerInit
  /\ pending = {} /\ missed = {}
  /\ wake = FALSE /\ complete_ = FALSE /\ error_ = FALSE

ServerQuiet == UNCHANGED <<stopVars, connectionVars, recordVars, runVars>>

Ended == pc[Main] \in {"exited", "killed"}

\* Another process sends a signal.  The mask is up until restore lowers it.
SignalArrives(s) ==
  /\ ~Ended
  /\ pending' = pending \cup {s}
  /\ missed' = IF pc[Main] = "unmask" THEN missed \cup {s} ELSE missed
  /\ UNCHANGED <<serverVars, wake, complete_, error_>>

-----------------------------------------------------------------------------
(* SignalStopWaiter::wait_loop                                               *)

\* sigwait returns a stop signal: request_stop, then the thread returns.
WaitStopSignal ==
  /\ Goto(Waiter, "sigwait", "stop")
  /\ \E s \in pending \cap {"SIGINT", "SIGTERM"} : pending' = pending \ {s}
  /\ UNCHANGED <<wake, complete_, error_, missed>> /\ ServerQuiet

\* sigwait returns SIGUSR1, directed or not, which counts only on completion.
WaitWake ==
  /\ Goto(Waiter, "sigwait", IF complete_ THEN "done" ELSE "sigwait")
  /\ \/ wake /\ wake' = FALSE /\ UNCHANGED pending
     \/ /\ "SIGUSR1" \in pending
        /\ pending' = pending \ {"SIGUSR1"} /\ UNCHANGED wake
  /\ UNCHANGED <<complete_, error_, missed>> /\ ServerQuiet

\* sigwait fails: the error is kept for finish and the server is stopped.
WaitFails ==
  /\ Goto(Waiter, "sigwait", "stop")
  /\ error_' = TRUE
  /\ UNCHANGED <<pending, wake, complete_, missed>> /\ ServerQuiet

-----------------------------------------------------------------------------
(* main, once run has returned or thrown.                                    *)

\* Mutant: the waiter is woken without the flag it looks at.
FinishStore_Forgets ==
  /\ Goto(Main, "returned", "wake")
  /\ UNCHANGED processVars /\ ServerQuiet

\* finish and finish_noexcept store the flag, then direct SIGUSR1 at the
\* waiter, which has no effect on a thread that is gone, then join it.
FinishStore ==
  /\ Goto(Main, "returned", "wake")
  /\ complete_' = TRUE
  /\ UNCHANGED <<pending, wake, error_, missed>> /\ ServerQuiet

FinishWake ==
  /\ Goto(Main, "wake", "join_waiter")
  /\ wake' = (pc[Waiter] # "done")
  /\ UNCHANGED <<pending, complete_, error_, missed>> /\ ServerQuiet

\* Mutant: main does not wait for the waiter.
FinishJoin_NoWait ==
  /\ Goto(Main, "join_waiter", "destroy")
  /\ UNCHANGED processVars /\ ServerQuiet

FinishJoin ==
  /\ pc[Waiter] = "done"
  /\ Goto(Main, "join_waiter", "destroy")
  /\ wake' = FALSE
  /\ UNCHANGED <<pending, complete_, error_, missed>> /\ ServerQuiet

\* An exception of run or of finish leaves the mask to the guard's destructor,
\* which restores it without looking at pending signals.
Unwind ==
  /\ Goto(Main, "destroyed",
          IF outcome = "Thrown" \/ error_ THEN "unmask" ELSE "inspect")
  /\ UNCHANGED processVars /\ ServerQuiet

\* restore: sigpending, until nothing is pending ...
RestoreInspect ==
  /\ Goto(Main, "inspect", IF pending = {} THEN "unmask" ELSE "drain")
  /\ UNCHANGED processVars /\ ServerQuiet

\* Mutant: one signal is drained, and the pending set is not looked at again.
RestoreDrain_Once ==
  /\ Goto(Main, "drain", "unmask")
  /\ \E s \in pending : pending' = pending \ {s}
  /\ UNCHANGED <<wake, complete_, error_, missed>> /\ ServerQuiet

\* ... and sigwait takes one of them.
RestoreDrain ==
  /\ Goto(Main, "drain", "inspect")
  /\ \E s \in pending : pending' = pending \ {s}
  /\ UNCHANGED <<wake, complete_, error_, missed>> /\ ServerQuiet

\* The previous mask comes back: a signal still pending ends the process.
RestoreMask ==
  /\ Goto(Main, "unmask", IF pending = {} THEN "exited" ELSE "killed")
  /\ UNCHANGED processVars /\ ServerQuiet

WaiterStep ==
  \/ WaitStopSignal \/ WaitWake
  \/ StopStep(Waiter) /\ UNCHANGED processVars

MainStep ==
  \/ FinishStore \/ FinishWake \/ FinishJoin \/ Unwind
  \/ RestoreInspect \/ RestoreDrain \/ RestoreMask
  \/ RunStep /\ UNCHANGED processVars

Next ==
  \/ MainStep \/ WaiterStep \/ WaitFails
  \/ AcceptStep /\ UNCHANGED processVars
  \/ \E c \in Connections :
       (Connect(c) \/ OwnStep(c) \/ PeerStep(c) \/ Dispatch(c))
         /\ UNCHANGED processVars
  \/ \E s \in Signals : SignalArrives(s)
  \/ Ended /\ UNCHANGED vars

Spec == Init /\ [][Next]_vars

ListenerGone == Listener \in shut \/ file[ListenerFd] # Listener

\* Every thread that is neither in a call for a peer nor in dispatch goes on;
\* a call on a stream or a listener that was shut down returns.
FairSpec ==
  /\ Spec
  /\ WF_vars(MainStep) /\ WF_vars(WaiterStep)
  /\ WF_vars(ListenerGone /\ AcceptStep /\ UNCHANGED processVars)
  /\ \A c \in Connections :
       /\ WF_vars(OwnStep(c) /\ UNCHANGED processVars)
       /\ WF_vars(c \in shut /\ PeerStep(c) /\ UNCHANGED processVars)

-----------------------------------------------------------------------------
(* Safety                                                                    *)

\* Handler threads that exist, and the slots they count for.
Alive == {c \in Connections :
            pc[c] \notin {"new", "backlog", "held", "dropped", "exit"}}

\* Handlers between registration and erasure.
Serving == {c \in Connections :
              pc[c] \in StopSteps \cup {"loop", "read", "dispatch", "respond",
                                        "fail", "tail", "erase"}}

\* stop can only interrupt streams their handlers still own: the inventory
\* holds the number of every serving handler's open stream and no other,
\* however soon numbers are reused.
InventoryIsLive ==
  /\ active_connections = {descriptor[c] : c \in Serving}
  /\ \A c \in Serving : file[descriptor[c]] = c

\* Whoever called stop first and wherever the others are, once the inventory
\* was swept no handler goes on to wait for a peer that was not interrupted:
\* a handler that registers too late sees the flag instead.
Swept == stopping /\ \A t \in Threads : pc[t] \notin StopSteps \ {"stop"}

NobodyWaitsAfterStop ==
  Swept => \A c \in Connections :
             pc[c] \in {"read", "respond", "fail"} => c \in shut

\* The count is exact, so it never exceeds the bound nor goes below zero; and
\* although a handler can give its slot back just after it was passed over by
\* the reaper, at most one thread beyond the bound waits to be joined.
HandlersBounded ==
  /\ active_handlers =
       Cardinality(Alive) + (IF pc[Main] = "spawn" THEN 1 ELSE 0)
  /\ Len(handlers) <= maximum_active_connections + 1
  /\ Alive \subseteq Range(handlers) \cup Range(owned)

\* run reports a failure only if accept failed by itself, never because a
\* requested stop closed the listener under it.
FailureIsGenuine == outcome # "Interrupted"

Destroyed == pc[Main] \in {"destroyed", "inspect", "drain", "unmask",
                           "exited", "killed"}

\* When the Server's members go, no handler and no waiter is left that could
\* touch them, every stream is closed, and the listener is.
NothingOutlivesTheServer ==
  Destroyed => /\ Alive = {} /\ pc[Waiter] = "done"
               /\ \A d \in Fds : file[d] = None

\* A stop signal that came in while the daemon was still up, the one that
\* stopped it or a second one, does not kill it on its way out.
EarlySignalsAreAbsorbed ==
  pc[Main] = "killed" => outcome = "Thrown" \/ error_ \/ missed # {}

-----------------------------------------------------------------------------
(* Liveness                                                                  *)

\* "Once Service accepts shutdown, the server stops even if acknowledgement
\* encoding or writing fails" (server.hpp).  The premise covers a client that
\* never reads the acknowledgement.
AcceptedShutdownStops ==
  \A c \in Connections :
    \/ accepted_shutdown[c] ~> stopping
    \/ <>[](pc[c] \in {"respond", "fail"})

\* Once stopping is set, run returns and the Server is destroyed, unless a
\* dispatch never returns: no handler is left waiting for its peer, the waiter
\* is woken, and no join waits for a thread that waits for the join.
StopComesDown ==
  \/ stopping ~> Destroyed
  \/ \E c \in Connections : <>[](pc[c] = "dispatch")

=============================================================================
