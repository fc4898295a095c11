----------------------------- MODULE MCFinalize -----------------------------
(* Finalize for TLC. *)
EXTENDS Finalize, TLC

Symmetry == Permutations(Cards) \cup Permutations(Runs)
=============================================================================
