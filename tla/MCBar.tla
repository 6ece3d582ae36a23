------------------------------- MODULE MCBar -------------------------------
(***************************************************************************)
(* Bar on a small instance, for TLC.                                       *)
(***************************************************************************)
EXTENDS Bar, TLC

Alike ==
    Permutations(Customers) \union Permutations(Blends) \union Permutations(Orders)
    \union Permutations(Desks) \union Permutations(Keys) \union Permutations(Emails)
=============================================================================
