------------------------------- MODULE MCCases -------------------------------
(* Small instances of Cases for TLC. *)
EXTENDS Cases, TLC
=============================================================================
