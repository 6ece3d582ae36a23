----------------------------- MODULE DocClaims -----------------------------
(***************************************************************************)
(* What the comments and the README of Blend Bar say of the settlement of  *)
(* carts where the code, run by several handlers at once, does otherwise.  *)
(* Each formula is refuted by one configuration, Claim*.cfg.               *)
(***************************************************************************)
EXTENDS Settlement

\* carts.rs: "Checkout is safe to press twice", so a paid cart stays paid
\* until it is refunded.  The second press writes pending_payment over it.
PaidStaysPaid ==
    [][\A c \in Carts :
          cart[c].status = "paid" => cart'[c].status \in {"paid", "refunded"}]_vars

\* README: a blend "can never be billed twice": no two carts built from one
\* blend both keep money for it.
KeptMoney(c) ==
    \E k \in OrderKind : is_completed(pays[c][k]) /\ ~is_refunded(pays[c][k])
BlendBilledOnce ==
    \A c, d \in Carts :
       c # d /\ lines[c] \intersect lines[d] # {} => ~(KeptMoney(c) /\ KeptMoney(d))

\* square_webhooks.rs: re-fetching "collapses out-of-order deliveries", so a
\* cart that knows of its refund never goes back to paid.
RefundIsNotUndone ==
    [][\A c \in Carts : cart[c].status = "refunded" => cart'[c].status # "paid"]_vars

\* README: one method per cart, so a cart is never charged by link and on a
\* Terminal both.
ChargedOnce ==
    \A c \in Carts :
       ~(is_completed(pays[c]["link"]) /\ is_completed(pays[c]["order"]))
=============================================================================
