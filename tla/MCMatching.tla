----------------------------- MODULE MCMatching -----------------------------
(* Small instances of Matching for TLC. *)
EXTENDS Matching, TLC

(* The statuses that the stored vulnerabilities tell apart most. *)
TwoContents == [Packages -> {"fixable", "nofix"}]

AllContents == [Packages -> Status]

Symmetry == Permutations(Hosts) \cup Permutations(Packages)
=============================================================================
