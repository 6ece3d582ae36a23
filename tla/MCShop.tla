------------------------------- MODULE MCShop -------------------------------
(***************************************************************************)
(* Shop on a small instance, for TLC: a product with one photo or the      *)
(* other, the listing of a scent, and one without a photo that is hidden.  *)
(***************************************************************************)
EXTENDS Shop, TLC

CONSTANTS i1, i2, s1

AFewEdits ==
    {[face |-> "shown", scent |-> None, photo |-> i1],
     [face |-> "soldout", scent |-> None, photo |-> i2],
     [face |-> "hidden", scent |-> s1, photo |-> None],
     [face |-> "shown", scent |-> s1, photo |-> i1]}

Alike == Permutations(Listings) \union Permutations(Tabs)
=============================================================================
