------------------------------ MODULE MCService ------------------------------
(* Model values and symmetry for the runs of Service. *)
EXTENDS Service, TLC

Symmetry == Permutations(Handlers) \cup Permutations(Workers)

=============================================================================
