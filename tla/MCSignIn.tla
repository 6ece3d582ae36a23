------------------------------ MODULE MCSignIn ------------------------------
(***************************************************************************)
(* SignIn on a small instance, for TLC.                                    *)
(***************************************************************************)
EXTENDS SignIn, TLC

Alike == Permutations(Devices)
=============================================================================
