------------------------------ MODULE Coupons ------------------------------
(***************************************************************************)
(* Referral codes, the coupons they earn and the public checkouts that     *)
(* spend them: src/api/src/referrals.rs, the checkouts of                  *)
(* routes/public.rs (a shared scent) and routes/shop.rs (a bag), and the   *)
(* part of billing.rs that gives a coupon back or issues a reward.         *)
(*                                                                         *)
(* A checkout prices the cart from what it reads outside its transaction,  *)
(* writes the cart and takes the coupon in the transaction, and only then  *)
(* asks Square for a link.  Its request may be dropped in between.         *)
(***************************************************************************)
EXTENDS Naturals, FiniteSets

CONSTANTS
    Customers,
    Codes,      \* the referral codes that may be drawn
    Coupons,    \* bound: coupons that can be issued
    Carts,      \* the carts of public checkouts, one request each
    BagCarts,   \* those of the shop; the others are of the share page
    Programs,   \* bound: the referral settings an admin chooses between
    None

ASSUME BagCartsAssumption == BagCarts \subseteq Carts
ASSUME ProgramsAssumption == Programs \subseteq [enabled : BOOLEAN, discount : BOOLEAN, reward : BOOLEAN]
ASSUME NoneAssumption == None \notin Customers \union Codes \union Coupons \union Carts

VARIABLES
    program,    \* what the referral settings are worth now
    codeOf,     \* customers.referral_code
    referrals,  \* the table of who introduced whom
    coupon,     \* coupon[p]: the row of coupon p
    cart,       \* cart[k]: the row of cart k
    request,    \* request[k]: where the checkout request of k is
    link        \* link[k]: Square's payment link of k

vars == <<program, codeOf, referrals, coupon, cart, request, link>>

Reduction == {"referral", "coupon"}
Referral == [by : Customers, of : Customers, cart : Carts,
             reward : Coupons \union {None}]
Coupon ==
    [status : {"none", "active", "redeemed"}, owner : Customers \union {None},
     cart : Carts \union {None}, expired : BOOLEAN]
Cart ==
    [status : {"none", "open", "pending", "paid", "refunded", "canceled"},
     buyer : Customers \union {None}, code : Codes \union {None},
     coupon : Coupons \union {None}, off : SUBSET Reduction]

NoCoupon == [status |-> "none", owner |-> None, cart |-> None, expired |-> FALSE]
NoCart == [status |-> "none", buyer |-> None, code |-> None, coupon |-> None, off |-> {}]
NothingIssued == [p \in Coupons |-> NoCoupon]
NothingSold == [k \in Carts |-> NoCart]

\* Types; and a row that is there has its owner.
TypeOK ==
    /\ program \in Programs
    /\ codeOf \in [Customers -> Codes \union {None}]
    /\ referrals \in SUBSET Referral
    /\ coupon \in [Coupons -> Coupon]
    /\ cart \in [Carts -> Cart]
    /\ request \in [Carts -> {"none", "priced", "asking", "answered", "dropped"}]
    /\ link \in [Carts -> {"none", "live", "void", "paid", "refunded"}]
    /\ \A p \in Coupons : (coupon[p].status = "none") <=> (coupon[p].owner = None)
    /\ \A k \in Carts : (cart[k].status = "none") => request[k] \in {"none", "priced", "dropped"}

Init ==
    /\ program \in Programs
    /\ codeOf = [c \in Customers |-> None]
    /\ referrals = {}
    /\ coupon = NothingIssued
    /\ cart = NothingSold
    /\ request = [k \in Carts |-> "none"]
    /\ link = [k \in Carts |-> "none"]

-----------------------------------------------------------------------------
(* Settings and codes.                                                     *)

\* settings::update: read afresh by whoever needs it.
SetProgram(p) ==
    /\ program' = p
    /\ UNCHANGED <<codeOf, referrals, coupon, cart, request, link>>

\* code_for: its draws, repeated on a collision, end in a code nobody has.
Share(c, code) ==
    /\ program.enabled
    /\ codeOf[c] = None
    /\ \A other \in Customers : codeOf[other] # code
    /\ codeOf' = [codeOf EXCEPT ![c] = code]
    /\ UNCHANGED <<program, referrals, coupon, cart, request, link>>

-----------------------------------------------------------------------------
(* A public checkout.                                                      *)

Introduced(by, of) == \E r \in referrals : r.by = by /\ r.of = of

\* discount_for: worth something to somebody else, once.
ReferralDiscount(code, buyer) ==
    /\ program.enabled /\ program.discount
    /\ \E by \in Customers \ {buyer} :
         /\ code # None
         /\ codeOf[by] = code
         /\ ~Introduced(by, buyer)

\* find_coupon: an active coupon of this buyer.
Redeemable(p, buyer) ==
    /\ coupon[p].status = "active"
    /\ ~coupon[p].expired
    /\ coupon[p].owner = buyer

\* What the checkout reads before it writes.  The shop knows no referral codes.
Price(k, buyer, code, entered) ==
    LET p == IF entered # None /\ Redeemable(entered, buyer) THEN entered ELSE None
        off == {r \in Reduction : \/ r = "referral" /\ ReferralDiscount(code, buyer)
                                  \/ r = "coupon" /\ p # None}
    IN /\ request[k] = "none"
       /\ k \in BagCarts => code = None
       /\ request' = [request EXCEPT ![k] = "priced"]
       /\ cart' = [cart EXCEPT ![k] = [status |-> "none", buyer |-> buyer, code |-> code,
                                       coupon |-> p, off |-> off]]
       /\ UNCHANGED <<program, codeOf, referrals, coupon, link>>

\* redeem_coupon: only while it is active.
RedeemedBy(row, k) ==
    IF row.status = "active" THEN [row EXCEPT !.status = "redeemed", !.cart = k] ELSE row

Opened(row) == [row EXCEPT !.status = "open"]

\* The transaction of the checkout.  A coupon that was spent in the meantime
\* stays on the cart and in its total.
Write(k) ==
    /\ request[k] = "priced"
    /\ request' = [request EXCEPT ![k] = "asking"]
    /\ cart' = [cart EXCEPT ![k] = Opened(cart[k])]
    /\ coupon' = [p \in Coupons |-> IF p = cart[k].coupon THEN RedeemedBy(coupon[p], k)
                                    ELSE coupon[p]]
    /\ UNCHANGED <<program, codeOf, referrals, link>>

Pending(row) == [row EXCEPT !.status = "pending"]

\* Square gave a link; the cart is written by its id whatever became of it.
Placed(k) ==
    /\ request[k] = "asking"
    /\ request' = [request EXCEPT ![k] = "answered"]
    /\ cart' = [cart EXCEPT ![k] = Pending(cart[k])]
    /\ link' = [link EXCEPT ![k] = "live"]
    /\ UNCHANGED <<program, codeOf, referrals, coupon>>

\* Mutant of Cancelable: a paid cart can be canceled.
CancelableIfNotRefunded(k) == cart[k].status \in {"open", "pending", "paid"}

Cancelable(k) == cart[k].status \in {"open", "pending"}

Canceled(row) == [row EXCEPT !.status = "canceled"]

\* Mutant of Released: only carts that got as far as a link give it back.
ReleasedIfPending(row, k) ==
    IF row.cart = k /\ row.status = "redeemed" /\ cart[k].status = "pending"
    THEN [row EXCEPT !.status = "active", !.cart = None] ELSE row

\* release_coupon.
Released(row, k) ==
    IF row.cart = k /\ row.status = "redeemed"
    THEN [row EXCEPT !.status = "active", !.cart = None] ELSE row

\* The transaction of cancel_cart.
CancelCart(k) ==
    /\ Cancelable(k)
    /\ cart' = [cart EXCEPT ![k] = Canceled(cart[k])]
    /\ coupon' = [p \in Coupons |-> Released(coupon[p], k)]

\* Mutant of Unwind: the share page's way, for the shop as well.
LeaveOpen(k) == UNCHANGED <<cart, coupon>>

\* What the shop does when Square refuses: the cart goes, the coupon comes back.
Unwind(k) == IF Cancelable(k) THEN CancelCart(k) ELSE UNCHANGED <<cart, coupon>>

\* Square refused.  The share page leaves its cart open.
Refused(k) ==
    /\ request[k] = "asking"
    /\ request' = [request EXCEPT ![k] = "answered"]
    /\ IF k \in BagCarts THEN Unwind(k) ELSE UNCHANGED <<cart, coupon>>
    /\ UNCHANGED <<program, codeOf, referrals, link>>

\* The shopper left, or the server restarted.
Drop(k) ==
    /\ request[k] \in {"priced", "asking"}
    /\ request' = [request EXCEPT ![k] = "dropped"]
    /\ cart' = IF request[k] = "priced" THEN [cart EXCEPT ![k] = NoCart] ELSE cart
    /\ UNCHANGED <<program, codeOf, referrals, coupon, link>>

-----------------------------------------------------------------------------
(* The cart afterwards.                                                    *)

\* cancel_cart, by staff or by the sweep of stale carts.  Voiding the link may fail.
Cancel(k) ==
    /\ CancelCart(k)
    /\ \/ link' = [link EXCEPT ![k] = IF link[k] = "live" THEN "void" ELSE link[k]]
       \/ UNCHANGED link
    /\ UNCHANGED <<program, codeOf, referrals, request>>

Sweep(k) == cart[k].status = "pending" /\ Cancel(k)

Pay(k) ==
    /\ link[k] = "live"
    /\ link' = [link EXCEPT ![k] = "paid"]
    /\ UNCHANGED <<program, codeOf, referrals, coupon, cart, request>>

Refund(k) ==
    /\ link[k] = "paid"
    /\ link' = [link EXCEPT ![k] = "refunded"]
    /\ UNCHANGED <<program, codeOf, referrals, coupon, cart, request>>

Earned(owner) == [status |-> "active", owner |-> owner, cart |-> None, expired |-> FALSE]

Free == {p \in Coupons : coupon[p].status = "none"}

\* Mutant of Earns: every settlement of the cart earns.
EarnsAgain(by, k) == by # cart[k].buyer

\* settle_referral: somebody else's code, and the pair is not taken.
Earns(by, k) == by # cart[k].buyer /\ ~Introduced(by, cart[k].buyer)

\* settle_referral: the pair is claimed, then the coupon is issued, or none
\* when its code collides eight times.
SettleReferral(k) ==
    IF cart[k].code # None /\ program.enabled /\ program.reward
       /\ \E by \in Customers : codeOf[by] = cart[k].code /\ Earns(by, k)
    THEN LET by == CHOOSE c \in Customers : codeOf[c] = cart[k].code
         IN \E p \in Free \union {None} :
              /\ referrals' = referrals \union
                   {[by |-> by, of |-> cart[k].buyer, cart |-> k, reward |-> p]}
              /\ coupon' = [q \in Coupons |-> IF q = p THEN Earned(by) ELSE coupon[q]]
    ELSE UNCHANGED <<referrals, coupon>>

Paid(row) == [row EXCEPT !.status = "paid"]

\* apply_payment: with a payment as it is, or as it was before the refund.  The
\* cart is found by the order of its link, which Placed has written.
ApplyPaid(k) ==
    /\ link[k] \in {"paid", "refunded"}
    /\ cart[k].status # "paid"
    /\ cart' = [cart EXCEPT ![k] = Paid(cart[k])]
    /\ SettleReferral(k)
    /\ UNCHANGED <<program, codeOf, request, link>>

Refunded(row) == [row EXCEPT !.status = "refunded"]

ApplyRefunded(k) ==
    /\ link[k] = "refunded"
    /\ cart[k].status # "refunded"
    /\ cart' = [cart EXCEPT ![k] = Refunded(cart[k])]
    /\ UNCHANGED <<program, codeOf, referrals, coupon, request, link>>

PastDate(row) == [row EXCEPT !.expired = TRUE]

\* A coupon's date passes.
ExpireCoupon(p) ==
    /\ coupon[p].status # "none" /\ ~coupon[p].expired
    /\ coupon' = [coupon EXCEPT ![p] = PastDate(coupon[p])]
    /\ UNCHANGED <<program, codeOf, referrals, cart, request, link>>

Next ==
    \/ \E p \in Programs : SetProgram(p)
    \/ \E c \in Customers, code \in Codes : Share(c, code)
    \/ \E k \in Carts :
         \/ \E buyer \in Customers, code \in Codes \union {None}, p \in Coupons \union {None} :
              Price(k, buyer, code, p)
         \/ Write(k) \/ Placed(k) \/ Refused(k) \/ Drop(k)
         \/ Cancel(k) \/ Sweep(k) \/ Pay(k) \/ Refund(k) \/ ApplyPaid(k) \/ ApplyRefunded(k)
    \/ \E p \in Coupons : ExpireCoupon(p)

\* A request that is not dropped goes on, Square answers, and the worker sweeps.
Fairness ==
    \A k \in Carts :
      /\ WF_vars(Write(k) \/ Drop(k))
      /\ WF_vars(Placed(k) \/ Refused(k) \/ Drop(k))
      /\ WF_vars(Sweep(k))

Spec == Init /\ [][Next]_vars /\ Fairness

-----------------------------------------------------------------------------
(* Properties.                                                             *)

\* A pair is rewarded once, however often its carts are settled, refunded and
\* settled again: every coupon is the reward of one referral, of another
\* customer than its owner, for a cart that was paid for.
RewardedOnce ==
    /\ \A r, s \in referrals : r.by = s.by /\ r.of = s.of => r = s
    /\ \A p \in Coupons : coupon[p].status # "none" =>
         \E r \in referrals :
           /\ r.reward = p /\ r.by = coupon[p].owner /\ r.of # r.by
           /\ cart[r.cart].buyer = r.of
           /\ link[r.cart] \in {"paid", "refunded"}
           /\ \A s \in referrals : s.reward = p => s = r

\* A coupon that is off the market is on a cart of its owner that names it and
\* was not canceled, and is reckoned in what that cart costs.
HeldByItsCart ==
    \A p \in Coupons :
      IF coupon[p].status = "redeemed"
      THEN LET k == coupon[p].cart
           IN /\ k # None /\ cart[k].coupon = p /\ "coupon" \in cart[k].off
              /\ cart[k].buyer = coupon[p].owner
              /\ cart[k].status \in {"open", "pending", "paid", "refunded"}
      ELSE coupon[p].cart = None

\* The life of a coupon as CouponBook tells it.
book == [p \in Coupons |->
    IF coupon[p].status = "redeemed" /\ cart[coupon[p].cart].status \in {"paid", "refunded"}
    THEN "spent"
    ELSE IF coupon[p].status = "redeemed" THEN "held" ELSE coupon[p].status]

Abstract == INSTANCE CouponBook WITH state <- book

\* A coupon is issued, held, given back or spent, and spent is for good.
ImplementsCouponBook == Abstract!Spec

Held(p) == coupon[p].status = "redeemed" /\ cart[coupon[p].cart].status \in {"open", "pending"}

\* The carts nothing in the code ever closes: the share page's when Square
\* refused, and any whose request was dropped before Square answered.
LeftOpen(k) ==
    /\ cart[k].status = "open"
    /\ request[k] = "dropped" \/ (k \notin BagCarts /\ request[k] = "answered")

\* A coupon taken by a checkout is spent or comes back, but for those carts.
HoldsEnd ==
    \A p \in Coupons : Held(p) ~> (~Held(p) \/ LeftOpen(coupon[p].cart))

\* public.rs: "two tabs cannot spend the same coupon twice", and a cart that lost
\* the race goes on without it.  Its price was reckoned with it, though.
CouponTakenOffOnce ==
    \A k, l \in Carts :
      /\ k # l /\ cart[k].coupon = cart[l].coupon
      /\ "coupon" \in cart[k].off \intersect cart[l].off
      => ~(cart[k].status = "paid" /\ cart[l].status = "paid")
=============================================================================
