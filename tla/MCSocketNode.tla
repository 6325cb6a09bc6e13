---------------------------- MODULE MCSocketNode ----------------------------
(* Symmetry for the run of SocketNode. *)
EXTENDS SocketNode, TLC

Symmetry ==
  Permutations(Daemons) \cup Permutations(Directories) \cup Permutations(Inodes)

=============================================================================
