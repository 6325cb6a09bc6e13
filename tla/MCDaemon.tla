------------------------------ MODULE MCDaemon ------------------------------
(* Symmetry for the runs of Daemon. *)
EXTENDS Daemon, TLC

Symmetry == Permutations(Connections)

=============================================================================
