------------------------------- MODULE MCRules -------------------------------
(* Small instances of Rules for TLC. *)
EXTENDS Rules, TLC

CONSTANTS k1, k2

(* One envelope that an operator signed offline. *)
MCOffline == {[version |-> 2, rules |-> 0, key |-> k2]}
=============================================================================
