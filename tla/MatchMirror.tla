---------------------------- MODULE MatchMirror ----------------------------
(***************************************************************************)
(* What finding changes promise: the platform shows, for a host, one whole *)
(* match set that a scan of that host found, never parts of two scans.     *)
(* The one other change it may make is to withdraw every match of a rule   *)
(* set the host reports as no longer assigned.                             *)
(***************************************************************************)
CONSTANTS
  Keys,        \* (rule set, rule)
  Assignable,  \* the keys of the rule sets that can be switched off
  Contents,    \* what a match says: version, severity, message, evidence
  None

VARIABLES
  scanned,  \* every match set a scan found
  shown     \* the open matches the platform shows

vars == <<scanned, shown>>

MatchSet == [Keys -> Contents \cup {None}]

Empty == [k \in Keys |-> None]

Withdrawn(m) == [k \in Keys |-> IF k \in Assignable THEN None ELSE m[k]]

Init ==
  /\ scanned = {Empty}
  /\ shown = Empty

Scan ==
  /\ \E m \in MatchSet : scanned' = scanned \cup {m}
  /\ UNCHANGED shown

Show ==
  /\ shown' \in scanned
  /\ UNCHANGED scanned

Withdraw ==
  /\ shown' = Withdrawn(shown)
  /\ UNCHANGED scanned

Next == Scan \/ Show \/ Withdraw

Spec == Init /\ [][Next]_vars
=============================================================================
