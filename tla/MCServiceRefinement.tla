------------------------- MODULE MCServiceRefinement -------------------------
(* The model of ServiceRefinement that TLC checks. *)
EXTENDS ServiceRefinement, TLC

Symmetry == Permutations(Handlers) \cup Permutations(Workers)

=============================================================================
