-------------------------- MODULE MCHandleOwnership --------------------------
(* Instances of HandleOwnership for TLC. *)
EXTENDS HandleOwnership, TLC

Symmetry == Permutations(Logs) \cup Permutations(Handles) \cup Permutations(Infos)

=============================================================================
