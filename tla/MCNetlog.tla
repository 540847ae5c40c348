------------------------------ MODULE MCNetlog ------------------------------
(* Two devices, one with the events of two keys. *)
EXTENDS Netlog, TLC

CONSTANTS k1, k2, k3, d1, d2

MCDeviceOf == (k1 :> d1) @@ (k2 :> d2) @@ (k3 :> d2)
=============================================================================
