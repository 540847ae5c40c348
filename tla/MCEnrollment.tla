---------------------------- MODULE MCEnrollment ----------------------------
(* Small instances of Enrollment for TLC. *)
EXTENDS Enrollment, TLC

Symmetry ==
  Permutations(Agents) \cup Permutations(Serials) \cup Permutations(Keys)
    \cup Permutations(Handlers)
=============================================================================
