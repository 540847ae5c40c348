-------------------------- MODULE MCFindingChanges --------------------------
(* Small instances of FindingChanges for TLC. *)
EXTENDS FindingChanges, TLC

Symmetry == Permutations(Contents) \cup Permutations(Slots)
=============================================================================
