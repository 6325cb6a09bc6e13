-------------------------- MODULE ServiceRefinement --------------------------
(* The service implements the contract of its Sessions and executions. *)
EXTENDS Service

Contract == INSTANCE JobContract WITH
  Jobs      <- JobIds,
  Sessions  <- SessionIds,
  NoSession <- NoId,
  alive     <- sessions,
  admitting <- sessions \ closing,
  retained  <- jobs_,
  life      <- state,
  owner     <- session_id,
  cancelled <- {j \in JobIds : cancellation[j]},
  stopped   <- stopping_

\* Without allocation failures every step of the threads of service.cpp is a
\* step of JobContract (or changes nothing a client can see): admission,
\* forward-only lives, cancellation precedence, release, the all-at-once
\* detach of a close and the end of a Session.
ImplementsContract == Contract!Spec

=============================================================================
