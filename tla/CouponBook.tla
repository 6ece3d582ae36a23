----------------------------- MODULE CouponBook -----------------------------
(***************************************************************************)
(* What referrals.rs promises of a coupon: it is issued once, a cart holds *)
(* it until it gives it back or spends it, and a spent coupon is spent.    *)
(* A payment may spend one coupon and earn another.                        *)
(***************************************************************************)
CONSTANTS Coupons

VARIABLES state

Stage == {"none", "active", "held", "spent"}

Issue == <<"none", "active">>
Hold == <<"active", "held">>
GiveBack == <<"held", "active">>
Spend == <<"held", "spent">>

Init == state \in [Coupons -> {"none", "active"}]

Next ==
    \E moving \in SUBSET Coupons :
      /\ state' \in [Coupons -> Stage]
      /\ \A p \in Coupons :
           IF p \in moving
           THEN <<state[p], state'[p]>> \in {Issue, Hold, GiveBack, Spend}
           ELSE state'[p] = state[p]

Spec == Init /\ [][Next]_state
=============================================================================
