------------------------------ MODULE Billing ------------------------------
(***************************************************************************)
(* The carts, cart_items and orders tables and the three operations of     *)
(* src/api/src/billing.rs: apply_payment, cancel_cart and                  *)
(* expire_stale_checkouts.                                                 *)
(*                                                                         *)
(* A request handler (or the background worker) is a process h with one    *)
(* job.  A handler runs until its next call to Square or its next          *)
(* statement outside a transaction, so a job names the step it will take   *)
(* next and carries only what the code read earlier and uses later.  The   *)
(* steps of different handlers interleave freely.  A transaction that      *)
(* holds the cart's row lock is one step.                                  *)
(***************************************************************************)
EXTENDS Square

CONSTANTS
    Orders,     \* rows the orders table may hold
    Public,     \* orders raised by the share page or the shop (external_ref)
    Handlers,   \* requests in flight, and the background worker
    Sweepers,   \* the handlers that are the background worker
    NoOrder     \* square_order_id / square_payment_id is null

ASSUME PublicAssumption == Public \subseteq Orders
ASSUME SweepersAssumption == Sweepers \subseteq Handlers
ASSUME NullAssumption == NoOrder \notin OrderKind

VARIABLES
    cart,       \* cart[c]: the row of the carts table
    lines,      \* lines[c]: the orders the cart was built from
    claims,     \* claims[c]: those whose cart_items.order_id is not null
    ord,        \* ord[o]: orders.status, "none" when there is no such row
    job         \* job[h]: what handler h does next

database == <<cart, lines, claims, ord>>

CartStatus == {"none", "open", "pending_payment", "paid", "refunded", "canceled"}
OrderStatus == {"none", "lead", "paid", "fulfilled"}
SquareOrderId == OrderKind \union {NoOrder}

\* sq: square_order_id.  url: checkout_url and square_payment_link_id.
\* tc, tstat: terminal_checkout_id (0 is null) and terminal_status.
\* payment, paid: square_payment_id and paid_cents.
Cart == [status : CartStatus, method : {"none", "link", "terminal"},
         sq : SquareOrderId, url : BOOLEAN,
         tc : 0..MaxTC, tstat : TerminalStatus \union {"none"},
         payment : SquareOrderId, paid : 0..Total]

NoCart == [status |-> "none", method |-> "none", sq |-> NoOrder, url |-> FALSE,
           tc |-> 0, tstat |-> "none", payment |-> NoOrder, paid |-> 0]

Idle == [pc |-> "idle"]

\* ev: the webhook event that started the job, or NoEvent.
EventOrNone == Event \union {NoEvent}

BillingJob ==
    [pc : {"cancel_read"}, c : Carts]
    \union [pc : {"cancel_device"}, c : Carts, url : BOOLEAN, tc : Attempt]
    \union [pc : {"write_cancel"}, c : Carts, url : BOOLEAN, tstat : TerminalStatus]
    \union [pc : {"cancel_tx"}, c : Carts, url : BOOLEAN]
    \union [pc : {"void"}, c : Carts]
    \union [pc : {"fetch"}, c : Carts, k : OrderKind, ev : EventOrNone]
    \union [pc : {"apply"}, c : Carts, k : OrderKind, pay : RemotePayment, ev : EventOrNone]
    \union [pc : {"settle"}, ev : Event, matched : BOOLEAN]

DatabaseTypeOK ==
    /\ cart \in [Carts -> Cart]
    /\ lines \in [Carts -> SUBSET Orders]
    /\ claims \in [Carts -> SUBSET Orders]
    /\ ord \in [Orders -> OrderStatus]

\* Orders taken at the bar exist from the start; a public one is inserted by
\* the checkout that sells it.
BillingInit ==
    /\ cart = [c \in Carts |-> NoCart]
    /\ lines = [c \in Carts |-> {}]
    /\ claims = [c \in Carts |-> {}]
    /\ ord = [o \in Orders |-> IF o \in Public THEN "none" ELSE "lead"]
    /\ job = [h \in Handlers |-> Idle]

Goto(h, j) == job' = [job EXCEPT ![h] = j]
Finish(h) == Goto(h, Idle)

\* The end of a job that may have been started by webhook event ev: the route
\* that received it still has to settle its row (see SquareWebhooks).
Done(h, ev, matched) ==
    Goto(h, IF ev = NoEvent THEN Idle ELSE [pc |-> "settle", ev |-> ev, matched |-> matched])
IsIdle(h) == job[h].pc = "idle"
At(h, pc) == job[h].pc = pc

\* Mutant of Unpaid: a paid cart may be canceled too.
UnpaidOrPaid(c) == cart[c].status \in {"open", "pending_payment", "paid"}

\* where status in ('open', 'pending_payment')
Unpaid(c) == cart[c].status \in {"open", "pending_payment"}

\* update carts set ... where id = c
UpdateCart(c, row) == cart' = [cart EXCEPT ![c] = row]

Claimed == UNION {claims[c] : c \in Carts}

-----------------------------------------------------------------------------
(* apply_payment                                                           *)

\* Mutant of Outcome: an authorisation counts as a payment.
OutcomeOfApproved(c, k, p) ==
    IF cart[c].sq = k /\ p.status = "APPROVED" THEN "Paid" ELSE "Pending"

\* What a payment p fetched for Square order <<c, k>> does to the cart that
\* square_order_id finds: a refund is checked before completion.
Outcome(c, k, p) ==
    CASE cart[c].sq # k -> "Unmatched"
      [] cart[c].sq = k /\ is_refunded(p) ->
            IF cart[c].status = "refunded" THEN "NoChange" ELSE "Refunded"
      [] cart[c].sq = k /\ ~is_refunded(p) /\ is_completed(p) ->
            IF cart[c].status = "paid" THEN "NoChange" ELSE "Paid"
      [] OTHER -> "Pending"

\* Mutant of MoveOrders: the status an order is in is not looked at.
MoveAllOrders(c, from, to) ==
    ord' = [o \in Orders |-> IF o \in claims[c] THEN to ELSE ord[o]]

\* update orders set status = `to` where claimed by the cart and status = `from`
MoveOrders(c, from, to) ==
    ord' = [o \in Orders |-> IF o \in claims[c] /\ ord[o] = from THEN to ELSE ord[o]]

\* Mutants of SettlePaid and SettleRefunded: the orders are forgotten; the
\* refund is added to what was paid.
SettlePaidCartOnly(c, k) ==
    /\ UpdateCart(c, [cart[c] EXCEPT !.status = "paid", !.paid = Total, !.payment = k])
    /\ UNCHANGED ord
SettleRefundedAdds(c, k, p) ==
    /\ UpdateCart(c, [cart[c] EXCEPT !.status = "refunded", !.paid = Total + p.refunded,
                                     !.payment = k])
    /\ MoveOrders(c, "paid", "lead")

SettlePaid(c, k) ==
    /\ UpdateCart(c, [cart[c] EXCEPT !.status = "paid", !.paid = Total, !.payment = k])
    /\ MoveOrders(c, "lead", "paid")

SettleRefunded(c, k, p) ==
    /\ UpdateCart(c, [cart[c] EXCEPT !.status = "refunded", !.paid = Total - p.refunded,
                                     !.payment = k])
    /\ MoveOrders(c, "paid", "lead")

\* square_payment_id = coalesce(square_payment_id, ...)
NotePayment(c, k) ==
    /\ UpdateCart(c, [cart[c] EXCEPT !.payment = IF @ = NoOrder THEN k ELSE @])
    /\ UNCHANGED ord

apply_payment(c, k, p) ==
    /\ \/ Outcome(c, k, p) = "Unmatched" /\ UNCHANGED <<cart, ord>>
       \/ Outcome(c, k, p) = "Paid" /\ SettlePaid(c, k)
       \/ Outcome(c, k, p) = "Refunded" /\ SettleRefunded(c, k, p)
       \/ Outcome(c, k, p) \in {"Pending", "NoChange"} /\ NotePayment(c, k)
    /\ UNCHANGED <<lines, claims>>

\* get_payment: the payment as Square holds it now, for apply_payment later.
FetchPayment(h) ==
    LET c == job[h].c
        k == job[h].k
    IN /\ At(h, "fetch")
       /\ pays[c][k].status # "none"
       /\ Goto(h, [pc |-> "apply", c |-> c, k |-> k, pay |-> pays[c][k], ev |-> job[h].ev])
       /\ UNCHANGED <<square, database>>

\* find_payment_for_order: the order has no tender yet.
FetchNothing(h) ==
    /\ At(h, "fetch")
    /\ pays[job[h].c][job[h].k].status = "none"
    /\ Finish(h)
    /\ UNCHANGED <<square, database>>

\* Mutant of Matched: an event that changes nothing is filed as unmatched.
MatchedIfChanged(h) ==
    Outcome(job[h].c, job[h].k, job[h].pay) \in {"Paid", "Refunded"}

\* Whether the event that started the job is about a cart.
Matched(h) ==
    \/ cart[job[h].c].sq = job[h].k
    \/ job[h].ev.type = "terminal.checkout.updated"

ApplyFetched(h) ==
    /\ At(h, "apply")
    /\ apply_payment(job[h].c, job[h].k, job[h].pay)
    /\ Done(h, job[h].ev, Matched(h))
    /\ UNCHANGED square

-----------------------------------------------------------------------------
(* cancel_cart                                                             *)

\* The link and Terminal ids are read first, outside any transaction; a cart
\* that is not unpaid reads as having neither.
ReadForCancel(h, c) ==
    LET url == Unpaid(c) /\ cart[c].url
        onDevice == Unpaid(c) /\ cart[c].tc # 0 /\ is_active_terminal_status(cart[c].tstat)
    IN Goto(h, IF onDevice
               THEN [pc |-> "cancel_device", c |-> c, url |-> url, tc |-> cart[c].tc]
               ELSE [pc |-> "cancel_tx", c |-> c, url |-> url])

StartCancel(h, c) ==
    /\ IsIdle(h)
    /\ cart[c].status # "none"
    /\ ReadForCancel(h, c)
    /\ UNCHANGED <<square, database>>

CancelRead(h) ==
    /\ At(h, "cancel_read")
    /\ ReadForCancel(h, job[h].c)
    /\ UNCHANGED <<square, database>>

\* A checkout still on a Terminal is taken off it first; any error leaves the
\* cart alone.
CancelDevice(h) ==
    /\ At(h, "cancel_device")
    /\ UNCHANGED database
    /\ LET c == job[h].c
           n == job[h].tc
       IN \/ /\ CanCancel(c, n)
             /\ \E s \in TerminalStatus :
                   /\ CancelTerminalCheckout(c, n, s)
                   /\ Goto(h, [pc |-> "write_cancel", c |-> c, url |-> job[h].url, tstat |-> s])
          \/ ~CanCancel(c, n) /\ Finish(h) /\ UNCHANGED square

\* Only terminal_status is written: the checkout it belongs to is not named.
WriteCancel(h) ==
    /\ At(h, "write_cancel")
    /\ UpdateCart(job[h].c, [cart[job[h].c] EXCEPT !.tstat = job[h].tstat])
    /\ Goto(h, [pc |-> "cancel_tx", c |-> job[h].c, url |-> job[h].url])
    /\ UNCHANGED <<square, lines, claims, ord>>

\* Mutant of ReleaseClaims: cart_items.order_id is not set to null.
KeepClaims(c) == UNCHANGED claims

\* update cart_items set order_id = null where cart_id = c
ReleaseClaims(c) == claims' = [claims EXCEPT ![c] = {}]

\* The transaction: cancel, release the claims, and delete public orders
\* nobody paid for.
CancelTx(h) ==
    LET c == job[h].c
    IN /\ At(h, "cancel_tx")
       /\ Unpaid(c)
       /\ UpdateCart(c, [cart[c] EXCEPT !.status = "canceled"])
       /\ ReleaseClaims(c)
       /\ ord' = [o \in Orders |->
                    IF o \in claims[c] \intersect Public /\ ord[o] = "lead" THEN "none" ELSE ord[o]]
       /\ Goto(h, IF job[h].url THEN [pc |-> "void", c |-> c] ELSE Idle)
       /\ UNCHANGED <<square, lines>>

CancelRefused(h) ==
    /\ At(h, "cancel_tx")
    /\ ~Unpaid(job[h].c)
    /\ Finish(h)
    /\ UNCHANGED <<square, database>>

\* After the commit; a failure is only logged (see Abandon).
VoidLink(h) ==
    /\ At(h, "void")
    /\ VoidCheckout(job[h].c)
    /\ Finish(h)
    /\ UNCHANGED database

-----------------------------------------------------------------------------
(* expire_stale_checkouts                                                  *)

\* Mutant of Stale: the sweep looks at open carts only.
StaleIfOpen(c) == cart[c].status = "open"

Stale(c) == cart[c].status = "pending_payment"

\* The worker selects a cart left at pending_payment for 24 hours, then
\* calls cancel_cart.  Time is abstract: any pending cart may be that old.
Expire(h, c) ==
    /\ h \in Sweepers
    /\ IsIdle(h)
    /\ Stale(c)
    /\ Goto(h, [pc |-> "cancel_read", c |-> c])
    /\ UNCHANGED <<square, database>>

\* A step of a job ends it without its effect: the call to Square failed, the
\* client hung up and its request was dropped, or the server restarted.
Abandon(h) ==
    /\ ~IsIdle(h)
    /\ Finish(h)
    /\ UNCHANGED <<square, database>>

BillingStep(h) ==
    \/ FetchPayment(h) \/ FetchNothing(h) \/ ApplyFetched(h)
    \/ CancelRead(h) \/ CancelDevice(h) \/ WriteCancel(h)
    \/ CancelTx(h) \/ CancelRefused(h) \/ VoidLink(h)
    \/ \E c \in Carts : Expire(h, c)
=============================================================================
