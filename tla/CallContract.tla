---------------------------- MODULE CallContract ----------------------------
(***************************************************************************)
(* What a caller of Client (include/photospider/ipc/client.hpp) may rely   *)
(* on: calls are made one at a time, a request is executed at most once,   *)
(* and the way a call ends bounds what may still happen to its request.    *)
(***************************************************************************)
EXTENDS Naturals

CONSTANTS Calls

VARIABLES
  verdict,      \* unmade, open, or how it ended: answered, failed, not
                \* done or unknown
  executions    \* how often the daemon executed its request

Init ==
  /\ verdict = [c \in Calls |-> "unmade"]
  /\ executions = [c \in Calls |-> 0]

\* A call is made when none is in progress.  It may fail at once.
Make(c) ==
  /\ verdict[c] = "unmade" /\ \A d \in Calls : verdict[d] # "open"
  /\ \E v \in {"open", "not done"} : verdict' = [verdict EXCEPT ![c] = v]
  /\ UNCHANGED executions

\* The daemon executes a request once, and not after the call has ended unless
\* the caller was left in doubt.
Execute(c) ==
  /\ verdict[c] \in {"open", "unknown"} /\ executions[c] = 0
  /\ executions' = [executions EXCEPT ![c] = 1]
  /\ UNCHANGED verdict

\* A success is the answer of an execution; a definite failure means there was
\* none; a failure response may come before or after it.
Return(c) ==
  /\ verdict[c] = "open"
  /\ \E v \in {"unknown", "failed",
                IF executions[c] = 1 THEN "answered" ELSE "not done"} :
       verdict' = [verdict EXCEPT ![c] = v]
  /\ UNCHANGED executions

Next == \E c \in Calls : Make(c) \/ Execute(c) \/ Return(c)

Spec == Init /\ [][Next]_<<verdict, executions>>

=============================================================================
