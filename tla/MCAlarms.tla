------------------------------ MODULE MCAlarms ------------------------------
(* Small instances of Alarms for TLC. *)
EXTENDS Alarms, TLC

Symmetry == Permutations(Slots) \cup Permutations(Analysts)
=============================================================================
