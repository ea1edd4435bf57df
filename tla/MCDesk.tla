------------------------------- MODULE MCDesk -------------------------------
(* Desk on small instances: users and channel ids as model values. *)
EXTENDS Desk, TLC
=============================================================================
