----------------------------- MODULE MCCoupons -----------------------------
(***************************************************************************)
(* Coupons on a small instance, for TLC.                                   *)
(***************************************************************************)
EXTENDS Coupons

CONSTANTS ann, ben, x, y, won1, won2, k1, k2, k3

Settings ==
    {[enabled |-> on, discount |-> TRUE, reward |-> TRUE] : on \in BOOLEAN}

\* The state after a first sale: ben has bought with ann's code, which earned
\* her a coupon.  The two other carts are still to come.
AfterFirstSale ==
    /\ program \in Programs
    /\ codeOf = [c \in Customers |-> IF c = ann THEN x ELSE None]
    /\ referrals = {[by |-> ann, of |-> ben, cart |-> k1, reward |-> won1]}
    /\ coupon = [NothingIssued EXCEPT ![won1] = Earned(ann)]
    /\ cart = [NothingSold EXCEPT ![k1] =
         [status |-> "paid", buyer |-> ben, code |-> x, coupon |-> None, off |-> {"referral"}]]
    /\ request = [k \in Carts |-> IF k = k1 THEN "answered" ELSE "none"]
    /\ link = [k \in Carts |-> IF k = k1 THEN "paid" ELSE "none"]

SecondSale == AfterFirstSale /\ [][Next]_vars /\ Fairness
=============================================================================
