----------------------------- MODULE Settlement -----------------------------
(***************************************************************************)
(* The whole path of a cart: staff and shoppers build carts, send them to  *)
(* a payment link or a Terminal, cancel them; the worker expires them;     *)
(* customers pay; Square's webhooks and the refresh button settle them.    *)
(* Composes Square, Billing, CartRoutes, Terminal and SquareWebhooks.      *)
(***************************************************************************)
EXTENDS SquareWebhooks, FiniteSets

CONSTANTS
    Staff,      \* handlers that serve the staff's requests
    Shoppers    \* handlers that serve anonymous buyers

ASSUME RolesAssumption ==
    Staff \subseteq Handlers /\ Hooks \subseteq Handlers /\ Shoppers \subseteq Handlers

vars == <<link, tco, pays, cart, lines, claims, ord, job, log, acked>>

Job == {Idle} \union BillingJob \union CartJob \union TerminalJob \union WebhookJob

TypeOK ==
    /\ SquareTypeOK
    /\ DatabaseTypeOK
    /\ job \in [Handlers -> Job]
    /\ WebhooksTypeOK

Init == SquareInit /\ BillingInit /\ WebhooksInit

-----------------------------------------------------------------------------
\* A customer can only open a link the API has stored or handed out.
CustomerPays(c) == cart[c].url /\ Authorize(c)

World ==
    /\ \E c \in Carts :
          \/ CustomerPays(c)
          \/ Capture(c)
          \/ \E n \in Attempt : TapCard(c, n) \/ DeviceCancels(c, n)
          \/ \E k \in OrderKind : RefundUnit(c, k)
    /\ UNCHANGED <<database, job, webhooks>>

StaffRequest(h) ==
    \E c \in Carts :
       \/ \E os \in SUBSET Orders : Create(h, c, os)
       \/ Checkout(h, c)
       \/ Refresh(h, c)
       \/ StartCancel(h, c)
       \/ Charge(h, c)
       \/ Status(h, c)
       \/ CancelCheckout(h, c)

StaffFulfils(h) == \E o \in Orders : Fulfil(h, o)

ShopperRequest(h) ==
    \E c \in Carts, os \in SUBSET Public, by \in Origin : CreatePublic(h, c, os, by)

Request(h) ==
    /\ \/ h \in Staff /\ (StaffRequest(h) \/ StaffFulfils(h))
       \/ h \in Shoppers /\ ShopperRequest(h)
    /\ UNCHANGED webhooks

Step(h) ==
    \/ (BillingStep(h) \/ CartStep(h) \/ TerminalStep(h)) /\ UNCHANGED webhooks
    \/ Upsert(h) \/ Sync(h) \/ Settle(h)

Failure(h) ==
    \/ Abandon(h) /\ UNCHANGED webhooks
    \/ SquareFails(h)

Deliver(h) == \E e \in Event : Receive(h, e)

Progress ==
    \/ World
    \/ \E h \in Handlers : Request(h) \/ Deliver(h) \/ Step(h)

Next == Progress \/ \E h \in Handlers : Failure(h)

Spec == Init /\ [][Next]_vars

-----------------------------------------------------------------------------
(* Safety.                                                                 *)

\* The double-billing guard: no blend is claimed by two carts at once,
\* however creates, cancels and expiries of different carts overlap
\* (cart_items.order_id is unique where not null).
ClaimsExclusive ==
    \A c, d \in Carts : c # d => claims[c] \intersect claims[d] = {}

\* A cart says paid or refunded only if Square collected or returned money on
\* the Square order the cart carries, and the cart names that payment;
\* whatever the webhook, the poll and the refresh button read and when.
SettledHasMoney ==
    \A c \in Carts :
       cart[c].status \in {"paid", "refunded"} =>
          /\ cart[c].payment = cart[c].sq
          /\ is_completed(pays[c][cart[c].sq])
          /\ cart[c].status = "refunded" => is_refunded(pays[c][cart[c].sq])

\* A blend is paid or handed over only if Square once collected money for a
\* cart that was built from it: no order of events sells a blend for nothing.
SoldHasMoney ==
    \A o \in Orders :
       ord[o] \in {"paid", "fulfilled"} =>
          \E c \in Carts, k \in OrderKind : o \in lines[c] /\ is_completed(pays[c][k])

\* A paid cart has moved every blend it still claims out of 'lead', so none of
\* them can be refused at collection.
PaidCartSoldItsBlends ==
    \A c \in Carts : cart[c].status = "paid" =>
       \A o \in claims[c] : ord[o] \in {"paid", "fulfilled"}

\* A canceled cart holds no blend, so an abandoned checkout never locks one
\* out of being sold; and a live cart that was never canceled holds all its
\* blends (cancel_cart releases everything or nothing).
ReleasedTogether ==
    \A c \in Carts :
       /\ claims[c] \in {{}, lines[c]}
       /\ cart[c].status = "canceled" => claims[c] = {}

\* Once the event of a payment is filed as processed, the cart that carries the
\* payment's order stays settled: no cancel, expiry or late write that raced
\* with the delivery takes it back to unpaid.
ProcessedStaysSettled ==
    \A e \in PaymentEvent :
       log[e] = "processed" /\ cart[e.c].sq = e.k
          => cart[e.c].status \in {"paid", "refunded"}

\* An event filed as unmatched is never tried again, so it must not be about an
\* order a cart carries: the order is on the cart before anyone can pay it.
UnmatchedIsForeign ==
    \A e \in PaymentEvent : log[e] = "unmatched" => cart[e.c].sq # e.k

\* A blend handed over stays handed over: neither a late payment nor a refund
\* nor a cancel takes it back to lead (billing.rs on fulfilled orders).
FulfilledIsFinal ==
    [][\A o \in Orders : ord[o] = "fulfilled" => ord'[o] = "fulfilled"]_vars

\* The cart routes implement the abstract claim protocol.
Holder(held, o) ==
    IF \E c \in Carts : o \in held[c] THEN CHOOSE c \in Carts : o \in held[c] ELSE NoOrder
Owner == [o \in Orders |-> Holder(claims, o)]
UsedCarts == {c \in Carts : cart[c].status # "none"}
Guard == INSTANCE BlendClaims WITH owner <- Owner, used <- UsedCarts, Nobody <- NoOrder
ImplementsBlendClaims == Guard!BlendClaimsSpec
=============================================================================
