----------------------------- MODULE MCCatalogue -----------------------------
(***************************************************************************)
(* Catalogue on a small instance, for TLC.  The formulas total the base    *)
(* exactly, within the allowance, and just outside it.                     *)
(***************************************************************************)
EXTENDS Catalogue, TLC

CONSTANTS g1, g2, s1

SomeFormulas == {g1 :> 1000000, g1 :> 333333 @@ g2 :> 666666, g1 :> 999999}

Prices(big, small) == [z \in Sizes |-> IF z = "oz3_4" THEN big ELSE small]

SomeScentEdits ==
    {[active |-> TRUE, formula |-> Same, prices |-> Prices(60, Nothing)],
     [active |-> Same, formula |-> Empty, prices |-> Same],
     [active |-> Same, formula |-> g1 :> 333333 @@ g2 :> 666666, prices |-> Prices(60, 25)]}

SomeDeals ==
    {[price |-> 100, items |-> <<[scent |-> s1, size |-> "oz3_4", quantity |-> 1],
                                 [scent |-> s1, size |-> "roller", quantity |-> 3]>>],
     [price |-> 50, items |-> <<[scent |-> s1, size |-> "oz3_4", quantity |-> 1],
                                [scent |-> s1, size |-> "roller", quantity |-> 1],
                                [scent |-> s1, size |-> "roller", quantity |-> 1]>>]}

Alike == Permutations(Desks)
=============================================================================
