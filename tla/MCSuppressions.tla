--------------------------- MODULE MCSuppressions ---------------------------
(* Small instances of Suppressions for TLC. *)
EXTENDS Suppressions, TLC

Symmetry == Permutations(People) \cup Permutations(Ids)
=============================================================================
