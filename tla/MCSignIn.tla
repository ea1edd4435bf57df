------------------------------ MODULE MCSignIn ------------------------------
(* SignIn on small instances: client threads as model values.         *)
EXTENDS SignIn, TLC
=============================================================================
