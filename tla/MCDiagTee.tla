----------------------------- MODULE MCDiagTee -----------------------------
(* DiagTee on small instances: the main thread and another one. *)
EXTENDS DiagTee, TLC
=============================================================================
