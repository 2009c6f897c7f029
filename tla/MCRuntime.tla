----------------------------- MODULE MCRuntime -----------------------------
(* Small instances of Runtime. *)
EXTENDS Runtime

CONSTANTS p1, s1

=============================================================================
