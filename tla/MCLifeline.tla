---------------------------- MODULE MCLifeline -----------------------------
(* Lifeline on small instances: limits of a few rounds, one client. *)
EXTENDS Lifeline, TLC
=============================================================================
