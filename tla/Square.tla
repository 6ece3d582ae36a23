------------------------------- MODULE Square -------------------------------
(***************************************************************************)
(* What Square holds for the carts of Blend Bar: hosted payment links,     *)
(* checkouts on a Terminal, and the payments customers make.  Square is a  *)
(* service outside the repository; it is modelled from the trait           *)
(* src/api/src/square/mod.rs, from the way square/http.rs reads its        *)
(* replies, and from the mock the tests run against.                       *)
(*                                                                         *)
(* A cart can stand behind two Square orders, because the two ways of      *)
(* paying use different idempotency keys: "link" is the order a payment    *)
(* link creates, "order" the one created for the Terminal.  Creating       *)
(* either twice returns the one that exists, so <<c, k>> names an order.   *)
(* Terminal checkout n of a cart is the one whose key names checkout n-1   *)
(* ("-tc-first", "-tc-after-<previous>"), so <<c, n>> names a checkout.    *)
(***************************************************************************)
EXTENDS Naturals

CONSTANTS
    Carts,      \* rows of the carts table
    Total,      \* what each cart costs, in refundable units
    MaxTC,      \* bound: Terminal checkouts ever sent for one cart
    NoEvent     \* not an event

ASSUME TotalAssumption == Total \in Nat \ {0}
ASSUME MaxTCAssumption == MaxTC \in Nat

VARIABLES
    link,       \* link[c]: the payment link of the cart
    tco,        \* tco[c][n]: the n-th Terminal checkout of the cart
    pays        \* pays[c][k]: the payment made on Square order <<c, k>>

square == <<link, tco, pays>>

OrderKind == {"link", "order"}
Attempt == 1..MaxTC
LinkState == {"none", "live", "void"}
ActiveStatus == {"PENDING", "CANCEL_REQUESTED"}     \* PENDING also stands for IN_PROGRESS
TerminalStatus == ActiveStatus \union {"CANCELED", "COMPLETED"}
RemotePayment == [status : {"none", "APPROVED", "COMPLETED"}, refunded : 0..Total]

is_active_terminal_status(s) == s \in ActiveStatus
is_completed(p) == p.status = "COMPLETED"
is_refunded(p) == p.refunded > 0

\* The webhook events Square sends.  Every event but the terminal ones names a
\* payment; the body is never trusted, so nothing else of it is kept.
PaymentEvent == [type : {"payment.updated", "refund.created"}, c : Carts, k : OrderKind]
TerminalEvent == [type : {"terminal.checkout.updated"}, c : Carts, n : Attempt]
Event == PaymentEvent \union TerminalEvent
ASSUME NoEventAssumption == NoEvent \notin Event

Emitted(e) ==
    \/ e.type = "payment.updated" /\ is_completed(pays[e.c][e.k])
    \/ e.type = "refund.created" /\ is_refunded(pays[e.c][e.k])
    \/ e.type = "terminal.checkout.updated" /\ tco[e.c][e.n] \in {"CANCELED", "COMPLETED"}

SquareTypeOK ==
    /\ link \in [Carts -> LinkState]
    /\ tco \in [Carts -> [Attempt -> TerminalStatus \union {"none"}]]
    /\ pays \in [Carts -> [OrderKind -> RemotePayment]]

SquareInit ==
    /\ link = [c \in Carts |-> "none"]
    /\ tco = [c \in Carts |-> [n \in Attempt |-> "none"]]
    /\ pays = [c \in Carts |-> [k \in OrderKind |-> [status |-> "none", refunded |-> 0]]]

-----------------------------------------------------------------------------
(* Calls the API makes.  Each is one atomic step at Square; the step that  *)
(* handles the reply is another.                                           *)

\* POST payment-links: idempotent on the cart's key, so a second create
\* returns the first link, void or not.
CreateCheckout(c) ==
    /\ link' = [link EXCEPT ![c] = IF @ = "none" THEN "live" ELSE @]
    /\ UNCHANGED <<tco, pays>>

\* DELETE payment-links: a link already gone is a success.
VoidCheckout(c) ==
    /\ link' = [link EXCEPT ![c] = "void"]
    /\ UNCHANGED <<tco, pays>>

\* POST terminals/checkouts: idempotent; an order that is already paid is
\* refused.
CanSend(c, n) == tco[c][n] # "none" \/ pays[c]["order"].status = "none"
CreateTerminalCheckout(c, n) ==
    /\ tco' = [tco EXCEPT ![c][n] = IF @ = "none" THEN "PENDING" ELSE @]
    /\ UNCHANGED <<link, pays>>

\* POST terminals/checkouts/{id}/cancel: only while PENDING or IN_PROGRESS;
\* the device may drop the checkout at once or only be asked to.
CanCancel(c, n) == tco[c][n] = "PENDING"
CancelTerminalCheckout(c, n, s) ==
    /\ s \in {"CANCELED", "CANCEL_REQUESTED"}
    /\ tco' = [tco EXCEPT ![c][n] = s]
    /\ UNCHANGED <<link, pays>>

-----------------------------------------------------------------------------
(* What customers, Terminals and the Square dashboard do on their own.     *)

PaymentIs(c, k, p) == pays' = [pays EXCEPT ![c][k] = p]

\* The customer opens a live link and authorises the payment ...
Authorize(c) ==
    /\ link[c] = "live"
    /\ pays[c]["link"].status = "none"
    /\ PaymentIs(c, "link", [pays[c]["link"] EXCEPT !.status = "APPROVED"])
    /\ UNCHANGED <<link, tco>>

\* ... which Square then captures, whatever has become of the link.
Capture(c) ==
    /\ pays[c]["link"].status = "APPROVED"
    /\ PaymentIs(c, "link", [pays[c]["link"] EXCEPT !.status = "COMPLETED"])
    /\ UNCHANGED <<link, tco>>

\* The customer taps a card on a checkout the device still shows.
TapCard(c, n) ==
    /\ is_active_terminal_status(tco[c][n])
    /\ pays[c]["order"].status = "none"
    /\ PaymentIs(c, "order", [pays[c]["order"] EXCEPT !.status = "COMPLETED"])
    /\ tco' = [tco EXCEPT ![c][n] = "COMPLETED"]
    /\ UNCHANGED link

\* The buyer cancels on the device, the checkout times out, or the device
\* obeys a requested cancel.
DeviceCancels(c, n) ==
    /\ is_active_terminal_status(tco[c][n])
    /\ tco' = [tco EXCEPT ![c][n] = "CANCELED"]
    /\ UNCHANGED <<link, pays>>

\* Staff refund part or all of a payment in the Square dashboard.
RefundUnit(c, k) ==
    /\ is_completed(pays[c][k])
    /\ pays[c][k].refunded < Total
    /\ PaymentIs(c, k, [pays[c][k] EXCEPT !.refunded = @ + 1])
    /\ UNCHANGED <<link, tco>>
=============================================================================
