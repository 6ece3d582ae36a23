---------------------------- MODULE MCSettlement ----------------------------
(***************************************************************************)
(* Settlement on small instances, for TLC.                                 *)
(***************************************************************************)
EXTENDS Settlement, TLC

\* Carts are interchangeable, and so are handlers of one role: the
\* safety properties name no particular one.
Symmetry == Permutations(Carts) \union Permutations(Staff)
=============================================================================
