---------------------------- MODULE CouponsProofs ----------------------------
(***************************************************************************)
(* A coupon off the market is on a cart of its owner, a pair of customers  *)
(* is rewarded once, and a coupon lives as CouponBook tells it: for any    *)
(* number of customers, codes, coupons and checkouts.                      *)
(***************************************************************************)
EXTENDS Coupons, TLAPS

\* code_for draws until nobody has the code.
CodesDiffer ==
    \A c, d \in Customers : codeOf[c] # None /\ codeOf[c] = codeOf[d] => c = d

\* How far a checkout is says what its cart and its link may be.
Phases ==
    \A k \in Carts :
      /\ request[k] \in {"none", "priced"} => cart[k].status = "none"
      /\ request[k] = "priced" \/ cart[k].status # "none" => cart[k].buyer # None
      /\ link[k] # "none" => request[k] = "answered"
      /\ cart[k].status \in {"paid", "refunded"} => link[k] # "none"

\* A coupon named on a cart is reckoned in its price and belongs to its buyer,
\* whether or not the cart came to take it.
NamedByBuyer ==
    \A k \in Carts :
      /\ "coupon" \in cart[k].off <=> cart[k].coupon # None
      /\ cart[k].coupon # None =>
           cart[k].buyer # None /\ coupon[cart[k].coupon].owner = cart[k].buyer

\* A referral's reward was issued.
RewardsIssued == \A r \in referrals : r.reward # None => coupon[r.reward].status # "none"

CouponsInv ==
    /\ TypeOK
    /\ CodesDiffer
    /\ Phases
    /\ NamedByBuyer
    /\ RewardsIssued
    /\ HeldByItsCart
    /\ RewardedOnce

-----------------------------------------------------------------------------
\* What the codes and rows are, one at a time.
LEMMA Rows ==
    ASSUME TypeOK
    PROVE  /\ \A k \in Carts : /\ cart[k] \in Cart
                               /\ cart[k].buyer \in Customers \union {None}
                               /\ cart[k].coupon \in Coupons \union {None}
                               /\ cart[k].code \in Codes \union {None}
                               /\ cart[k].off \in SUBSET Reduction
           /\ \A p \in Coupons : /\ coupon[p] \in Coupon
                                 /\ coupon[p].owner \in Customers \union {None}
                                 /\ coupon[p].cart \in Carts \union {None}
                                 /\ coupon[p].status \in {"none", "active", "redeemed"}
BY DEF TypeOK, Cart, Coupon

LEMMA InitCoupons == Init => CouponsInv
<1> SUFFICES ASSUME Init PROVE CouponsInv
  OBVIOUS
<1> USE DEF Init, NothingIssued, NothingSold, NoCoupon, NoCart
<1>1. TypeOK
  BY DEF TypeOK, Cart, Coupon, Reduction
<1>2. CodesDiffer /\ Phases /\ RewardsIssued
  BY DEF CodesDiffer, Phases, RewardsIssued
<1>3. NamedByBuyer /\ HeldByItsCart /\ RewardedOnce
  BY DEF NamedByBuyer, HeldByItsCart, RewardedOnce
<1> QED
  BY <1>1, <1>2, <1>3 DEF CouponsInv

\* A step that touches neither a cart's row nor a coupon's.
LEMMA PaperworkStep ==
    ASSUME CouponsInv, TypeOK', CodesDiffer', UNCHANGED <<referrals, coupon, cart>>,
           \A k \in Carts :
             \/ request'[k] = request[k] /\ link'[k] = link[k]
             \/ request'[k] = request[k] /\ link[k] = "live" /\ link'[k] = "paid"
             \/ request'[k] = request[k] /\ link[k] = "paid" /\ link'[k] = "refunded"
             \/ request[k] = "asking" /\ request'[k] \in {"answered", "dropped"} /\ link'[k] = link[k]
    PROVE  CouponsInv'
<1> USE DEF CouponsInv
<1>1. Phases'
  BY DEF Phases
<1>2. NamedByBuyer' /\ HeldByItsCart' /\ RewardsIssued'
  BY DEF NamedByBuyer, HeldByItsCart, RewardsIssued
<1>3. RewardedOnce'
  <2> SUFFICES \A r \in referrals : link[r.cart] \in {"paid", "refunded"} => link'[r.cart] \in {"paid", "refunded"}
    BY DEF RewardedOnce
  <2> QED
    BY DEF TypeOK, Referral
<1> QED
  BY <1>1, <1>2, <1>3

LEMMA SetProgramCoupons ==
    ASSUME CouponsInv, NEW p \in Programs, SetProgram(p)
    PROVE  CouponsInv'
<1>1. TypeOK' /\ CodesDiffer'
  BY DEF CouponsInv, SetProgram, TypeOK, CodesDiffer
<1> QED
  BY <1>1, PaperworkStep DEF SetProgram

LEMMA ShareCoupons ==
    ASSUME CouponsInv, NEW c \in Customers, NEW code \in Codes, Share(c, code)
    PROVE  CouponsInv'
<1>1. TypeOK'
  BY DEF CouponsInv, Share, TypeOK
<1>2. CodesDiffer'
  BY DEF CouponsInv, Share, TypeOK, CodesDiffer
<1> QED
  BY <1>1, <1>2, PaperworkStep DEF Share

LEMMA PayCoupons ==
    ASSUME CouponsInv, NEW k \in Carts, Pay(k) \/ Refund(k)
    PROVE  CouponsInv'
<1>1. TypeOK' /\ CodesDiffer'
  BY DEF CouponsInv, Pay, Refund, TypeOK, CodesDiffer
<1> QED
  BY <1>1, PaperworkStep DEF CouponsInv, TypeOK, Pay, Refund

\* A step that rewrites the rows of carts and coupons and writes no referral:
\* no coupon changes its owner, and no cart that was paid for its buyer.
LEMMA BooksStep ==
    ASSUME CouponsInv, TypeOK', Phases', NamedByBuyer', HeldByItsCart',
           UNCHANGED <<codeOf, referrals>>,
           \A p \in Coupons : coupon'[p].owner = coupon[p].owner,
           \A k \in Carts : link[k] \in {"paid", "refunded"} =>
             link'[k] = link[k] /\ cart'[k].buyer = cart[k].buyer
    PROVE  CouponsInv'
<1> USE DEF CouponsInv
<1>1. \A p \in Coupons : coupon'[p].status = "none" <=> coupon[p].status = "none"
  BY DEF TypeOK
<1>2. CodesDiffer'
  BY DEF CodesDiffer
<1>3. \A r \in referrals : r.cart \in Carts /\ r.reward \in Coupons \union {None}
  BY DEF TypeOK, Referral
<1>4. RewardsIssued'
  BY <1>1, <1>3 DEF RewardsIssued
<1>5. RewardedOnce'
  BY <1>1, <1>3 DEF RewardedOnce
<1> QED
  BY <1>2, <1>4, <1>5

LEMMA PriceCoupons ==
    ASSUME CouponsInv, NEW k \in Carts, NEW buyer \in Customers,
           NEW code \in Codes \union {None}, NEW entered \in Coupons \union {None},
           Price(k, buyer, code, entered)
    PROVE  CouponsInv'
<1> USE DEF CouponsInv
<1> DEFINE p == IF entered # None /\ Redeemable(entered, buyer) THEN entered ELSE None
           off == {r \in Reduction : \/ r = "referral" /\ ReferralDiscount(code, buyer)
                                     \/ r = "coupon" /\ p # None}
           row == [status |-> "none", buyer |-> buyer, code |-> code, coupon |-> p, off |-> off]
<1>1. /\ cart'[k] = row
      /\ \A l \in Carts \ {k} : cart'[l] = cart[l]
      /\ request[k] = "none" /\ request'[k] = "priced"
      /\ \A l \in Carts \ {k} : request'[l] = request[l]
  BY DEF Price, TypeOK
<1>2. row \in Cart /\ p \in Coupons \union {None} /\ off \in SUBSET Reduction
  BY DEF Cart
<1>3. buyer # None /\ (p # None => coupon[p].owner = buyer /\ coupon[p].status = "active")
  BY NoneAssumption DEF Redeemable
<1>4. "coupon" \in off <=> p # None
  BY DEF Reduction
<1> HIDE DEF p, off
<1>5. TypeOK'
  BY <1>1, <1>2 DEF TypeOK, Price
<1>6. Phases'
  BY <1>1, <1>3 DEF Phases, Price
<1>7. NamedByBuyer'
  BY <1>1, <1>3, <1>4 DEF NamedByBuyer, Price
<1>8. HeldByItsCart'
  <2>1. \A q \in Coupons : coupon[q].cart \in Carts \union {None}
    BY Rows
  <2>2. cart[k].status = "none"
    BY <1>1 DEF Phases
  <2> QED
    BY <1>1, <2>1, <2>2, NoneAssumption DEF HeldByItsCart, Price
<1> QED
  BY <1>1, <1>5, <1>6, <1>7, <1>8, BooksStep DEF Price, Phases

LEMMA WriteCoupons ==
    ASSUME CouponsInv, NEW k \in Carts, Write(k)
    PROVE  CouponsInv'
<1> USE DEF CouponsInv
<1>1. /\ cart'[k] = Opened(cart[k])
      /\ \A l \in Carts \ {k} : cart'[l] = cart[l]
      /\ request[k] = "priced" /\ request'[k] = "asking"
      /\ \A l \in Carts \ {k} : request'[l] = request[l]
  BY DEF Write, TypeOK
<1>2. /\ Opened(cart[k]) \in Cart /\ Opened(cart[k]).status = "open"
      /\ Opened(cart[k]).buyer = cart[k].buyer /\ Opened(cart[k]).coupon = cart[k].coupon
      /\ Opened(cart[k]).off = cart[k].off
  BY Rows DEF Opened, Cart
<1>3. \A q \in Coupons :
        IF q = cart[k].coupon /\ coupon[q].status = "active"
        THEN coupon'[q] = [coupon[q] EXCEPT !.status = "redeemed", !.cart = k]
        ELSE coupon'[q] = coupon[q]
  BY DEF Write, RedeemedBy
<1>4. \A q \in Coupons :
        /\ coupon'[q] \in Coupon
        /\ coupon'[q].owner = coupon[q].owner
        /\ IF q = cart[k].coupon /\ coupon[q].status = "active"
           THEN coupon'[q].status = "redeemed" /\ coupon'[q].cart = k
           ELSE coupon'[q].status = coupon[q].status /\ coupon'[q].cart = coupon[q].cart
  BY <1>3, Rows DEF Coupon
<1>5. cart[k].status = "none" /\ cart[k].buyer # None /\ link[k] = "none"
  BY <1>1 DEF Phases
<1>6. TypeOK'
  <2>1. coupon' \in [Coupons -> Coupon]
    BY <1>4 DEF Write
  <2>2. \A q \in Coupons : (coupon'[q].status = "none") <=> (coupon'[q].owner = None)
    BY <1>4 DEF TypeOK
  <2>3. \A l \in Carts : (cart'[l].status = "none") => request'[l] \in {"none", "priced", "dropped"}
    BY <1>1, <1>2 DEF TypeOK
  <2> QED
    BY <1>1, <1>2, <2>1, <2>2, <2>3 DEF TypeOK, Write
<1>7. Phases'
  BY <1>1, <1>2, <1>5 DEF Phases, Write
<1>8. NamedByBuyer'
  BY <1>1, <1>2, <1>4, Rows DEF NamedByBuyer, Write
<1>9. HeldByItsCart'
  <2> SUFFICES ASSUME NEW q \in Coupons
               PROVE  IF coupon'[q].status = "redeemed"
                      THEN /\ coupon'[q].cart # None /\ cart'[coupon'[q].cart].coupon = q
                           /\ "coupon" \in cart'[coupon'[q].cart].off
                           /\ cart'[coupon'[q].cart].buyer = coupon'[q].owner
                           /\ cart'[coupon'[q].cart].status \in {"open", "pending", "paid", "refunded"}
                      ELSE coupon'[q].cart = None
    BY DEF HeldByItsCart
  <2>1. CASE q = cart[k].coupon /\ coupon[q].status = "active"
    BY <1>1, <1>2, <1>4, <2>1, NoneAssumption DEF NamedByBuyer
  <2>2. CASE ~(q = cart[k].coupon /\ coupon[q].status = "active")
    <3>1. coupon[q].cart # k /\ coupon[q].cart \in Carts \union {None}
      BY <1>5, Rows, NoneAssumption DEF HeldByItsCart
    <3> QED
      BY <1>1, <1>4, <2>2, <3>1 DEF HeldByItsCart
  <2> QED
    BY <2>1, <2>2
<1> QED
  BY <1>1, <1>4, <1>5, <1>6, <1>7, <1>8, <1>9, BooksStep DEF Write

\* A step that moves one written cart on, and keeps every coupon where it is.
LEMMA CartStep ==
    ASSUME CouponsInv, TypeOK', Phases', NEW k \in Carts,
           UNCHANGED <<codeOf, referrals, coupon, link>>,
           cart[k].status # "none",
           /\ cart'[k].buyer = cart[k].buyer
           /\ cart'[k].coupon = cart[k].coupon
           /\ cart'[k].off = cart[k].off
           /\ cart'[k].status \in {"open", "pending", "paid", "refunded"},
           \A l \in Carts \ {k} : cart'[l] = cart[l]
    PROVE  CouponsInv'
<1> USE DEF CouponsInv
<1>1. NamedByBuyer'
  BY DEF NamedByBuyer
<1>2. HeldByItsCart'
  BY Rows DEF HeldByItsCart
<1> QED
  BY <1>1, <1>2, BooksStep

LEMMA PlacedCoupons ==
    ASSUME CouponsInv, NEW k \in Carts, Placed(k)
    PROVE  CouponsInv'
<1> USE DEF CouponsInv
<1>1. /\ cart'[k] = Pending(cart[k])
      /\ \A l \in Carts \ {k} : cart'[l] = cart[l]
      /\ request[k] = "asking" /\ request'[k] = "answered"
      /\ \A l \in Carts \ {k} : request'[l] = request[l]
      /\ link'[k] = "live"
      /\ \A l \in Carts \ {k} : link'[l] = link[l]
  BY DEF Placed, TypeOK
<1>2. /\ Pending(cart[k]) \in Cart /\ Pending(cart[k]).status = "pending"
      /\ Pending(cart[k]).buyer = cart[k].buyer /\ Pending(cart[k]).coupon = cart[k].coupon
      /\ Pending(cart[k]).off = cart[k].off
  BY Rows DEF Pending, Cart
<1>3. cart[k].status # "none" /\ link[k] = "none"
  BY <1>1 DEF TypeOK, Phases
<1>4. TypeOK'
  BY <1>1, <1>2 DEF TypeOK, Placed
<1>5. Phases'
  BY <1>1, <1>2, <1>3 DEF Phases
<1>6. NamedByBuyer' /\ HeldByItsCart'
  BY <1>1, <1>2, <1>3, Rows DEF NamedByBuyer, HeldByItsCart, Placed
<1> QED
  BY <1>1, <1>2, <1>3, <1>4, <1>5, <1>6, BooksStep DEF Placed

LEMMA ApplyRefundedCoupons ==
    ASSUME CouponsInv, NEW k \in Carts, ApplyRefunded(k)
    PROVE  CouponsInv'
<1> USE DEF CouponsInv
<1>1. /\ cart'[k] = Refunded(cart[k])
      /\ \A l \in Carts \ {k} : cart'[l] = cart[l]
  BY DEF ApplyRefunded, TypeOK
<1>2. /\ Refunded(cart[k]) \in Cart /\ Refunded(cart[k]).status = "refunded"
      /\ Refunded(cart[k]).buyer = cart[k].buyer /\ Refunded(cart[k]).coupon = cart[k].coupon
      /\ Refunded(cart[k]).off = cart[k].off
  BY Rows DEF Refunded, Cart
<1>3. cart[k].status # "none"
  BY DEF ApplyRefunded, TypeOK, Phases
<1>4. TypeOK'
  BY <1>1, <1>2 DEF TypeOK, ApplyRefunded
<1>5. Phases'
  BY <1>1, <1>2, <1>3 DEF Phases, ApplyRefunded
<1> QED
  BY <1>1, <1>2, <1>3, <1>4, <1>5, CartStep DEF ApplyRefunded

LEMMA DropCoupons ==
    ASSUME CouponsInv, NEW k \in Carts, Drop(k)
    PROVE  CouponsInv'
<1> USE DEF CouponsInv
<1>1. /\ request'[k] = "dropped"
      /\ \A l \in Carts \ {k} : request'[l] = request[l] /\ cart'[l] = cart[l]
      /\ request[k] \in {"priced", "asking"}
      /\ request[k] = "priced" => cart'[k] = NoCart /\ cart[k].status = "none"
      /\ request[k] = "asking" => cart' = cart
  BY DEF Drop, TypeOK, Phases
<1>2. NoCart \in Cart
  BY DEF NoCart, Cart
<1>3. TypeOK'
  <2>1. cart' \in [Carts -> Cart]
    BY <1>1, <1>2 DEF Drop, TypeOK
  <2>2. \A l \in Carts : (cart'[l].status = "none") => request'[l] \in {"none", "priced", "dropped"}
    BY <1>1 DEF TypeOK
  <2> QED
    BY <1>1, <2>1, <2>2 DEF TypeOK, Drop
<1>4. link[k] = "none"
  BY <1>1 DEF Phases
<1>5. Phases'
  BY <1>1, <1>4 DEF Phases, Drop, NoCart
<1>6. NamedByBuyer'
  BY <1>1 DEF NamedByBuyer, Drop, NoCart
<1>7. HeldByItsCart'
  BY <1>1, Rows DEF HeldByItsCart, Drop
<1> QED
  BY <1>1, <1>3, <1>4, <1>5, <1>6, <1>7, BooksStep DEF Drop

LEMMA ExpireCouponCoupons ==
    ASSUME CouponsInv, NEW p \in Coupons, ExpireCoupon(p)
    PROVE  CouponsInv'
<1> USE DEF CouponsInv
<1>1. /\ coupon'[p] = PastDate(coupon[p])
      /\ \A q \in Coupons \ {p} : coupon'[q] = coupon[q]
  BY DEF ExpireCoupon, TypeOK
<1>2. /\ PastDate(coupon[p]) \in Coupon
      /\ PastDate(coupon[p]).status = coupon[p].status
      /\ PastDate(coupon[p]).owner = coupon[p].owner
      /\ PastDate(coupon[p]).cart = coupon[p].cart
  BY Rows DEF PastDate, Coupon
<1>3. TypeOK'
  BY <1>1, <1>2 DEF TypeOK, ExpireCoupon
<1>4. Phases'
  BY DEF Phases, ExpireCoupon
<1>5. \A q \in Coupons : /\ coupon'[q].owner = coupon[q].owner
                         /\ coupon'[q].status = coupon[q].status
                         /\ coupon'[q].cart = coupon[q].cart
  BY <1>1, <1>2
<1>6. NamedByBuyer'
  BY <1>5, Rows DEF NamedByBuyer, ExpireCoupon
<1>7. HeldByItsCart'
  BY <1>5 DEF HeldByItsCart, ExpireCoupon
<1> QED
  BY <1>3, <1>4, <1>5, <1>6, <1>7, BooksStep DEF ExpireCoupon

\* A cart that is canceled gives back the coupon it holds.
LEMMA CancelStep ==
    ASSUME CouponsInv, NEW k \in Carts, CancelCart(k),
           UNCHANGED <<program, codeOf, referrals>>,
           \/ UNCHANGED link
           \/ link' = [link EXCEPT ![k] = IF link[k] = "live" THEN "void" ELSE link[k]],
           \/ UNCHANGED request
           \/ request[k] = "asking" /\ request' = [request EXCEPT ![k] = "answered"]
    PROVE  CouponsInv'
<1> USE DEF CouponsInv
<1>1. /\ cart'[k] = Canceled(cart[k])
      /\ \A l \in Carts \ {k} : cart'[l] = cart[l]
      /\ cart[k].status \in {"open", "pending"}
  BY DEF CancelCart, Cancelable, TypeOK
<1>2. /\ Canceled(cart[k]) \in Cart /\ Canceled(cart[k]).status = "canceled"
      /\ Canceled(cart[k]).buyer = cart[k].buyer /\ Canceled(cart[k]).coupon = cart[k].coupon
      /\ Canceled(cart[k]).off = cart[k].off
  BY Rows DEF Canceled, Cart
<1>3. \A q \in Coupons :
        IF coupon[q].cart = k /\ coupon[q].status = "redeemed"
        THEN coupon'[q] = [coupon[q] EXCEPT !.status = "active", !.cart = None]
        ELSE coupon'[q] = coupon[q]
  BY DEF CancelCart, Released
<1>4. \A q \in Coupons :
        /\ coupon'[q] \in Coupon
        /\ coupon'[q].owner = coupon[q].owner
        /\ IF coupon[q].cart = k /\ coupon[q].status = "redeemed"
           THEN coupon'[q].status = "active" /\ coupon'[q].cart = None
           ELSE coupon'[q].status = coupon[q].status /\ coupon'[q].cart = coupon[q].cart
  BY <1>3, Rows DEF Coupon
<1>5. /\ \A l \in Carts : link'[l] \in {"none", "live", "void", "paid", "refunded"}
      /\ \A l \in Carts : link'[l] = link[l] \/ (link[l] = "live" /\ link'[l] = "void")
      /\ link' \in [Carts -> {"none", "live", "void", "paid", "refunded"}]
  BY DEF TypeOK
<1>6. /\ \A l \in Carts : request'[l] = request[l] \/ (request[l] = "asking" /\ request'[l] = "answered")
      /\ request' \in [Carts -> {"none", "priced", "asking", "answered", "dropped"}]
  BY DEF TypeOK
<1>7. TypeOK'
  <2>1. coupon' \in [Coupons -> Coupon]
    BY <1>4 DEF CancelCart
  <2>2. \A q \in Coupons : (coupon'[q].status = "none") <=> (coupon'[q].owner = None)
    BY <1>4 DEF TypeOK
  <2>3. \A l \in Carts : (cart'[l].status = "none") => request'[l] \in {"none", "priced", "dropped"}
    BY <1>1, <1>2, <1>6 DEF TypeOK
  <2>4. cart' \in [Carts -> Cart]
    BY <1>2 DEF CancelCart, TypeOK
  <2> QED
    BY <1>5, <1>6, <2>1, <2>2, <2>3, <2>4 DEF TypeOK
<1>8. Phases'
  BY <1>1, <1>2, <1>5, <1>6 DEF Phases
<1>9. NamedByBuyer'
  BY <1>1, <1>2, <1>4, Rows DEF NamedByBuyer
<1>10. HeldByItsCart'
  BY <1>1, <1>2, <1>4, Rows DEF HeldByItsCart
<1>11. \A l \in Carts : cart'[l].buyer = cart[l].buyer
  BY <1>1, <1>2
<1> QED
  BY <1>4, <1>5, <1>7, <1>8, <1>9, <1>10, <1>11, BooksStep

LEMMA CancelCoupons ==
    ASSUME CouponsInv, NEW k \in Carts, Cancel(k) \/ Sweep(k)
    PROVE  CouponsInv'
BY CancelStep DEF Cancel, Sweep

LEMMA RefusedCoupons ==
    ASSUME CouponsInv, NEW k \in Carts, Refused(k)
    PROVE  CouponsInv'
<1>1. CASE CancelCart(k)
  BY <1>1, CancelStep DEF Refused
<1>2. CASE UNCHANGED <<cart, coupon>>
  <2>1. TypeOK' /\ CodesDiffer'
    BY <1>2 DEF CouponsInv, TypeOK, CodesDiffer, Refused
  <2> QED
    BY <1>2, <2>1, PaperworkStep DEF CouponsInv, TypeOK, Refused
<1> QED
  BY <1>1, <1>2 DEF Refused, Unwind

\* A settlement rewards nobody, or the one customer whose code is on the cart,
\* who is not its buyer and was not rewarded for this buyer before.
LEMMA SettleReferralWorks ==
    ASSUME CouponsInv, NEW k \in Carts, SettleReferral(k)
    PROVE  \/ UNCHANGED <<referrals, coupon>>
           \/ \E by \in Customers, p \in Free \union {None} :
                /\ by # cart[k].buyer /\ ~Introduced(by, cart[k].buyer)
                /\ referrals' = referrals \union
                     {[by |-> by, of |-> cart[k].buyer, cart |-> k, reward |-> p]}
                /\ coupon' = [q \in Coupons |-> IF q = p THEN Earned(by) ELSE coupon[q]]
<1> DEFINE by == CHOOSE c \in Customers : codeOf[c] = cart[k].code
<1>1. CASE \E c \in Customers : cart[k].code # None /\ codeOf[c] = cart[k].code /\ Earns(c, k)
  <2>1. PICK c \in Customers : cart[k].code # None /\ codeOf[c] = cart[k].code /\ Earns(c, k)
    BY <1>1
  <2>2. by \in Customers /\ codeOf[by] = cart[k].code
    BY <2>1
  <2>3. by = c
    BY <2>1, <2>2 DEF CouponsInv, CodesDiffer
  <2> HIDE DEF by
  <2>4. by # cart[k].buyer /\ ~Introduced(by, cart[k].buyer)
    BY <2>1, <2>3 DEF Earns
  <2> QED
    BY <2>2, <2>4 DEF SettleReferral, by
<1>2. CASE ~\E c \in Customers : cart[k].code # None /\ codeOf[c] = cart[k].code /\ Earns(c, k)
  BY <1>2 DEF SettleReferral
<1> QED
  BY <1>1, <1>2

\* The cart of a settlement is paid; what it rewards is a coupon nobody had.
LEMMA RewardStep ==
    ASSUME CouponsInv, TypeOK, NEW k \in Carts, NEW by \in Customers,
           NEW p \in Free \union {None},
           UNCHANGED <<program, codeOf, request, link>>,
           link[k] \in {"paid", "refunded"},
           cart' = [cart EXCEPT ![k] = Paid(cart[k])],
           by # cart[k].buyer, ~Introduced(by, cart[k].buyer),
           referrals' = referrals \union {[by |-> by, of |-> cart[k].buyer, cart |-> k, reward |-> p]},
           coupon' = [q \in Coupons |-> IF q = p THEN Earned(by) ELSE coupon[q]]
    PROVE  CouponsInv'
<1> USE DEF CouponsInv
<1> DEFINE new == [by |-> by, of |-> cart[k].buyer, cart |-> k, reward |-> p]
<1>1. /\ cart'[k] = Paid(cart[k])
      /\ \A l \in Carts \ {k} : cart'[l] = cart[l]
  BY DEF TypeOK
<1>2. /\ Paid(cart[k]) \in Cart /\ Paid(cart[k]).status = "paid"
      /\ Paid(cart[k]).buyer = cart[k].buyer /\ Paid(cart[k]).coupon = cart[k].coupon
      /\ Paid(cart[k]).off = cart[k].off
  BY Rows DEF Paid, Cart
<1>3. request[k] = "answered" /\ cart[k].status # "none" /\ cart[k].buyer \in Customers
  BY Rows DEF Phases, TypeOK
<1>4. p \in Coupons => coupon[p].status = "none" /\ coupon[p].owner = None
  BY NoneAssumption DEF Free, TypeOK
<1>5. /\ \A q \in Coupons : q # p => coupon'[q] = coupon[q]
      /\ p \in Coupons => /\ coupon'[p] \in Coupon
                          /\ coupon'[p].status = "active"
                          /\ coupon'[p].owner = by
                          /\ coupon'[p].cart = None
  BY DEF Earned, Coupon
<1>6. by # None /\ p \in Coupons \union {None}
  BY NoneAssumption DEF Free
<1>7. new \in Referral /\ new.by = by /\ new.of = cart[k].buyer /\ new.cart = k /\ new.reward = p
  BY <1>3, <1>6 DEF Referral
<1> HIDE DEF new
<1>8. referrals' = referrals \union {new}
  BY DEF new
<1>9. TypeOK'
  <2>1. coupon' \in [Coupons -> Coupon]
    BY <1>5, Rows
  <2>2. \A q \in Coupons : (coupon'[q].status = "none") <=> (coupon'[q].owner = None)
    BY <1>5, <1>6 DEF TypeOK
  <2>3. cart' \in [Carts -> Cart]
    BY <1>2 DEF TypeOK
  <2>4. \A l \in Carts : (cart'[l].status = "none") => request'[l] \in {"none", "priced", "dropped"}
    BY <1>1, <1>2 DEF TypeOK
  <2> QED
    BY <1>7, <1>8, <2>1, <2>2, <2>3, <2>4 DEF TypeOK
<1>10. CodesDiffer' /\ Phases'
  BY <1>1, <1>2, <1>3 DEF CodesDiffer, Phases
<1>11. NamedByBuyer'
  <2>1. \A l \in Carts : cart[l].coupon # None => cart[l].coupon \in Coupons /\ cart[l].coupon # p
    BY <1>4, Rows DEF NamedByBuyer
  <2> QED
    BY <1>1, <1>2, <1>5, <2>1 DEF NamedByBuyer
<1>12. HeldByItsCart'
  BY <1>1, <1>2, <1>5, Rows DEF HeldByItsCart
<1>13. \A r \in referrals : r.cart \in Carts /\ r.reward \in Coupons \union {None}
  BY DEF TypeOK, Referral
<1>14. RewardsIssued'
  BY <1>5, <1>6, <1>7, <1>8, <1>13 DEF RewardsIssued
<1>15. RewardedOnce'
  <2>1. \A r, s \in referrals' : r.by = s.by /\ r.of = s.of => r = s
    BY <1>7, <1>8 DEF RewardedOnce, Introduced
  <2>2. \A l \in Carts : cart'[l].buyer = cart[l].buyer
    BY <1>1, <1>2
  <2>3. ASSUME NEW q \in Coupons, coupon'[q].status # "none"
        PROVE  \E r \in referrals' :
                 /\ r.reward = q /\ r.by = coupon'[q].owner /\ r.of # r.by
                 /\ cart'[r.cart].buyer = r.of
                 /\ link'[r.cart] \in {"paid", "refunded"}
                 /\ \A s \in referrals' : s.reward = q => s = r
    <3>1. CASE q = p
      <4>1. \A s \in referrals : s.reward # p
        BY <1>4, <1>6, <2>3, <3>1, NoneAssumption DEF RewardsIssued
      <4> QED
        BY <1>5, <1>7, <1>8, <2>2, <3>1, <4>1
    <3>2. CASE q # p
      <4>1. PICK r \in referrals :
              /\ r.reward = q /\ r.by = coupon[q].owner /\ r.of # r.by
              /\ cart[r.cart].buyer = r.of
              /\ link[r.cart] \in {"paid", "refunded"}
              /\ \A s \in referrals : s.reward = q => s = r
        BY <1>5, <2>3, <3>2 DEF RewardedOnce
      <4> QED
        BY <1>5, <1>7, <1>8, <1>13, <2>2, <3>2, <4>1
    <3> QED
      BY <3>1, <3>2
  <2> QED
    BY <2>1, <2>3 DEF RewardedOnce
<1> QED
  BY <1>9, <1>10, <1>11, <1>12, <1>14, <1>15

LEMMA ApplyPaidCoupons ==
    ASSUME CouponsInv, NEW k \in Carts, ApplyPaid(k)
    PROVE  CouponsInv'
<1> USE DEF CouponsInv
<1>1. CASE UNCHANGED <<referrals, coupon>>
  <2>1. /\ cart'[k] = Paid(cart[k])
        /\ \A l \in Carts \ {k} : cart'[l] = cart[l]
    BY DEF ApplyPaid, TypeOK
  <2>2. /\ Paid(cart[k]) \in Cart /\ Paid(cart[k]).status = "paid"
        /\ Paid(cart[k]).buyer = cart[k].buyer /\ Paid(cart[k]).coupon = cart[k].coupon
        /\ Paid(cart[k]).off = cart[k].off
    BY Rows DEF Paid, Cart
  <2>3. cart[k].status # "none"
    BY DEF ApplyPaid, TypeOK, Phases
  <2>4. TypeOK'
    BY <1>1, <2>1, <2>2 DEF TypeOK, ApplyPaid
  <2>5. Phases'
    BY <2>1, <2>2, <2>3 DEF Phases, ApplyPaid
  <2> QED
    BY <1>1, <2>1, <2>2, <2>3, <2>4, <2>5, CartStep DEF ApplyPaid
<1>2. CASE \E by \in Customers, p \in Free \union {None} :
             /\ by # cart[k].buyer /\ ~Introduced(by, cart[k].buyer)
             /\ referrals' = referrals \union
                  {[by |-> by, of |-> cart[k].buyer, cart |-> k, reward |-> p]}
             /\ coupon' = [q \in Coupons |-> IF q = p THEN Earned(by) ELSE coupon[q]]
  BY <1>2, RewardStep DEF ApplyPaid
<1> QED
  BY <1>1, <1>2, SettleReferralWorks DEF ApplyPaid

LEMMA NextCoupons == CouponsInv /\ [Next]_vars => CouponsInv'
<1> SUFFICES ASSUME CouponsInv, [Next]_vars PROVE CouponsInv'
  OBVIOUS
<1>1. CASE UNCHANGED vars
  <2>1. TypeOK' /\ CodesDiffer'
    BY <1>1 DEF vars, CouponsInv, TypeOK, CodesDiffer
  <2> QED
    BY <1>1, <2>1, PaperworkStep DEF vars, CouponsInv
<1>2. ASSUME NEW p \in Programs, SetProgram(p) PROVE CouponsInv'
  BY <1>2, SetProgramCoupons
<1>3. ASSUME NEW c \in Customers, NEW code \in Codes, Share(c, code) PROVE CouponsInv'
  BY <1>3, ShareCoupons
<1>4. ASSUME NEW k \in Carts, NEW buyer \in Customers, NEW code \in Codes \union {None},
             NEW p \in Coupons \union {None}, Price(k, buyer, code, p)
      PROVE  CouponsInv'
  BY <1>4, PriceCoupons
<1>5. ASSUME NEW k \in Carts, Write(k) PROVE CouponsInv'
  BY <1>5, WriteCoupons
<1>6. ASSUME NEW k \in Carts, Placed(k) PROVE CouponsInv'
  BY <1>6, PlacedCoupons
<1>7. ASSUME NEW k \in Carts, Refused(k) PROVE CouponsInv'
  BY <1>7, RefusedCoupons
<1>8. ASSUME NEW k \in Carts, Drop(k) PROVE CouponsInv'
  BY <1>8, DropCoupons
<1>9. ASSUME NEW k \in Carts, Cancel(k) PROVE CouponsInv'
  BY <1>9, CancelCoupons
<1>10. ASSUME NEW k \in Carts, Sweep(k) PROVE CouponsInv'
  BY <1>10, CancelCoupons
<1>11. ASSUME NEW k \in Carts, Pay(k) PROVE CouponsInv'
  BY <1>11, PayCoupons
<1>12. ASSUME NEW k \in Carts, Refund(k) PROVE CouponsInv'
  BY <1>12, PayCoupons
<1>13. ASSUME NEW k \in Carts, ApplyPaid(k) PROVE CouponsInv'
  BY <1>13, ApplyPaidCoupons
<1>14. ASSUME NEW k \in Carts, ApplyRefunded(k) PROVE CouponsInv'
  BY <1>14, ApplyRefundedCoupons
<1>15. ASSUME NEW p \in Coupons, ExpireCoupon(p) PROVE CouponsInv'
  BY <1>15, ExpireCouponCoupons
<1> QED
  BY <1>1, <1>2, <1>3, <1>4, <1>5, <1>6, <1>7, <1>8, <1>9, <1>10, <1>11, <1>12, <1>13,
     <1>14, <1>15 DEF Next

\* Everything below rests on this invariant.
THEOREM CouponsInvariant == Spec => []CouponsInv
<1> QED
  BY InitCoupons, NextCoupons, PTL DEF Spec

\* The types of the coupon and referral tables, and that a row has its owner.
THEOREM CouponsTyped == Spec => []TypeOK
<1>1. CouponsInv => TypeOK
  BY DEF CouponsInv
<1> QED
  BY <1>1, CouponsInvariant, PTL

\* However checkouts, cancellations and Square's answers interleave, a coupon off
\* the market is held by the cart that took it (redeem_coupon, release_coupon).
THEOREM CouponsHeld == Spec => []HeldByItsCart
<1>1. CouponsInv => HeldByItsCart
  BY DEF CouponsInv
<1> QED
  BY <1>1, CouponsInvariant, PTL

\* However often payments and refunds are applied, settle_referral rewards a pair
\* of customers once.
THEOREM CouponsRewarded == Spec => []RewardedOnce
<1>1. CouponsInv => RewardedOnce
  BY DEF CouponsInv
<1> QED
  BY <1>1, CouponsInvariant, PTL

-----------------------------------------------------------------------------
(* Coupons implements CouponBook.                                          *)

IsSold(k) == cart[k].status \in {"paid", "refunded"}

\* A cart that was paid for stays so, through refunds and settlements applied again.
SoldStays == \A k \in Carts : IsSold(k) => IsSold(k)'

\* What a step may do to a coupon.
Stays(p) == coupon'[p].status = coupon[p].status /\ coupon'[p].cart = coupon[p].cart
Taken(p) ==
    /\ coupon[p].status = "active" /\ coupon'[p].status = "redeemed"
    /\ cart'[coupon'[p].cart].status = "open"
Returned(p) ==
    /\ coupon[p].status = "redeemed" /\ coupon'[p].status = "active"
    /\ cart[coupon[p].cart].status \in {"open", "pending"}
Granted(p) == coupon[p].status = "none" /\ coupon'[p].status = "active"
Moves == \A p \in Coupons : Stays(p) \/ Taken(p) \/ Returned(p) \/ Granted(p)

\* Neither rows of coupons nor rows of carts that are written change.
LEMMA QuietStep ==
    ASSUME CouponsInv, UNCHANGED coupon,
           \A k \in Carts : cart[k].status # "none" => cart'[k] = cart[k]
    PROVE  SoldStays /\ Moves
BY DEF SoldStays, Moves, Stays, IsSold

\* One written cart gets another status.
LEMMA StatusStep ==
    ASSUME CouponsInv, NEW k \in Carts, UNCHANGED coupon,
           \A l \in Carts \ {k} : cart'[l] = cart[l],
           IsSold(k) => IsSold(k)'
    PROVE  SoldStays /\ Moves
BY DEF SoldStays, Moves, Stays, IsSold

LEMMA WriteMoves ==
    ASSUME CouponsInv, NEW k \in Carts, Write(k)
    PROVE  SoldStays /\ Moves
<1>1. cart'[k].status = "open" /\ \A l \in Carts \ {k} : cart'[l] = cart[l]
  BY Rows DEF CouponsInv, TypeOK, Write, Opened, Cart
<1>2. cart[k].status = "none"
  BY DEF CouponsInv, Phases, Write
<1>3. SoldStays
  BY <1>1, <1>2 DEF SoldStays, IsSold
<1>4. ASSUME NEW p \in Coupons PROVE Stays(p) \/ Taken(p)
  <2>1. CASE p = cart[k].coupon /\ coupon[p].status = "active"
    <3>1. coupon'[p] = [coupon[p] EXCEPT !.status = "redeemed", !.cart = k]
      BY <2>1 DEF Write, RedeemedBy
    <3>2. coupon'[p].status = "redeemed" /\ coupon'[p].cart = k
      BY <3>1, Rows DEF CouponsInv, Coupon
    <3> QED
      BY <1>1, <2>1, <3>2 DEF Taken
  <2>2. CASE ~(p = cart[k].coupon /\ coupon[p].status = "active")
    BY <2>2 DEF Write, RedeemedBy, Stays
  <2> QED
    BY <2>1, <2>2
<1> QED
  BY <1>3, <1>4 DEF Moves

LEMMA CancelMoves ==
    ASSUME CouponsInv, NEW k \in Carts, CancelCart(k)
    PROVE  SoldStays /\ Moves
<1>1. cart[k].status \in {"open", "pending"} /\ \A l \in Carts \ {k} : cart'[l] = cart[l]
  BY DEF CouponsInv, TypeOK, CancelCart, Cancelable
<1>2. SoldStays
  BY <1>1 DEF SoldStays, IsSold
<1>3. ASSUME NEW p \in Coupons PROVE Stays(p) \/ Returned(p)
  <2>1. CASE coupon[p].cart = k /\ coupon[p].status = "redeemed"
    <3>1. coupon'[p] = [coupon[p] EXCEPT !.status = "active", !.cart = None]
      BY <2>1 DEF CancelCart, Released
    <3>2. coupon'[p].status = "active"
      BY <3>1, Rows DEF CouponsInv, Coupon
    <3> QED
      BY <1>1, <2>1, <3>2 DEF Returned
  <2>2. CASE ~(coupon[p].cart = k /\ coupon[p].status = "redeemed")
    BY <2>2 DEF CancelCart, Released, Stays
  <2> QED
    BY <2>1, <2>2
<1> QED
  BY <1>2, <1>3 DEF Moves

LEMMA ApplyPaidMoves ==
    ASSUME CouponsInv, NEW k \in Carts, ApplyPaid(k)
    PROVE  SoldStays /\ Moves
<1>1. cart'[k].status = "paid" /\ \A l \in Carts \ {k} : cart'[l] = cart[l]
  BY Rows DEF CouponsInv, TypeOK, ApplyPaid, Paid, Cart
<1>2. SoldStays
  BY <1>1 DEF SoldStays, IsSold
<1>3. CASE UNCHANGED coupon
  BY <1>2, <1>3 DEF Moves, Stays
<1>4. CASE \E by \in Customers, p \in Free \union {None} :
             coupon' = [q \in Coupons |-> IF q = p THEN Earned(by) ELSE coupon[q]]
  <2>1. PICK by \in Customers, p \in Free \union {None} :
          coupon' = [q \in Coupons |-> IF q = p THEN Earned(by) ELSE coupon[q]]
    BY <1>4
  <2>2. ASSUME NEW q \in Coupons PROVE Stays(q) \/ Granted(q)
    BY <2>1, NoneAssumption DEF Free, Earned, Stays, Granted
  <2> QED
    BY <1>2, <2>2 DEF Moves
<1> QED
  BY <1>3, <1>4, SettleReferralWorks DEF ApplyPaid

LEMMA NextMoves ==
    ASSUME CouponsInv, [Next]_vars
    PROVE  SoldStays /\ Moves
<1>1. CASE UNCHANGED <<coupon, cart>>
  BY <1>1, QuietStep
<1>2. ASSUME NEW k \in Carts, NEW buyer \in Customers, NEW code \in Codes \union {None},
             NEW p \in Coupons \union {None}, Price(k, buyer, code, p)
      PROVE  SoldStays /\ Moves
  <2>1. cart[k].status = "none" /\ \A l \in Carts \ {k} : cart'[l] = cart[l]
    BY <1>2 DEF CouponsInv, TypeOK, Phases, Price
  <2> QED
    BY <1>2, <2>1, QuietStep DEF Price
<1>3. ASSUME NEW k \in Carts, Write(k) PROVE SoldStays /\ Moves
  BY <1>3, WriteMoves
<1>4. ASSUME NEW k \in Carts, Placed(k) PROVE SoldStays /\ Moves
  <2>1. ~IsSold(k) /\ \A l \in Carts \ {k} : cart'[l] = cart[l]
    BY <1>4 DEF CouponsInv, TypeOK, Phases, Placed, IsSold
  <2> QED
    BY <1>4, <2>1, StatusStep DEF Placed
<1>5. ASSUME NEW k \in Carts, Refused(k) PROVE SoldStays /\ Moves
  BY <1>1, <1>5, CancelMoves DEF Refused, Unwind
<1>6. ASSUME NEW k \in Carts, Drop(k) PROVE SoldStays /\ Moves
  <2>1. \A l \in Carts : cart[l].status # "none" => cart'[l] = cart[l]
    BY <1>6 DEF CouponsInv, TypeOK, Phases, Drop
  <2> QED
    BY <1>6, <2>1, QuietStep DEF Drop
<1>7. ASSUME NEW k \in Carts, Cancel(k) \/ Sweep(k) PROVE SoldStays /\ Moves
  BY <1>7, CancelMoves DEF Cancel, Sweep
<1>8. ASSUME NEW k \in Carts, ApplyPaid(k) PROVE SoldStays /\ Moves
  BY <1>8, ApplyPaidMoves
<1>9. ASSUME NEW k \in Carts, ApplyRefunded(k) PROVE SoldStays /\ Moves
  <2>1. cart'[k].status = "refunded" /\ \A l \in Carts \ {k} : cart'[l] = cart[l]
    BY <1>9, Rows DEF CouponsInv, TypeOK, ApplyRefunded, Refunded, Cart
  <2> QED
    BY <1>9, <2>1, StatusStep DEF ApplyRefunded, IsSold
<1>10. ASSUME NEW p \in Coupons, ExpireCoupon(p) PROVE SoldStays /\ Moves
  <2>1. \A q \in Coupons : Stays(q)
    BY <1>10, Rows DEF CouponsInv, TypeOK, ExpireCoupon, PastDate, Coupon, Stays
  <2> QED
    BY <1>10, <2>1 DEF ExpireCoupon, SoldStays, Moves, IsSold
<1>11. ASSUME NEW p \in Programs, SetProgram(p) PROVE SoldStays /\ Moves
  BY <1>1, <1>11 DEF SetProgram
<1>12. ASSUME NEW c \in Customers, NEW code \in Codes, Share(c, code) PROVE SoldStays /\ Moves
  BY <1>1, <1>12 DEF Share
<1>13. ASSUME NEW k \in Carts, Pay(k) \/ Refund(k) PROVE SoldStays /\ Moves
  BY <1>1, <1>13 DEF Pay, Refund
<1>14. CASE UNCHANGED vars
  BY <1>1, <1>14 DEF vars
<1> QED
  BY <1>2, <1>3, <1>4, <1>5, <1>6, <1>7, <1>8, <1>9, <1>10, <1>11, <1>12, <1>13, <1>14 DEF Next

\* Every step of the program is a step of the book, or none.
LEMMA BookStep ==
    ASSUME CouponsInv, CouponsInv', [Next]_vars
    PROVE  [Abstract!Next]_book
<1>1. SoldStays /\ Moves
  BY NextMoves
<1>2. /\ \A p \in Coupons : book[p] \in Abstract!Stage /\ book'[p] \in Abstract!Stage
      /\ book' \in [Coupons -> Abstract!Stage]
  BY Rows DEF book, Abstract!Stage, CouponsInv, TypeOK, Coupon
<1>3. ASSUME NEW p \in Coupons
      PROVE  \/ book'[p] = book[p]
             \/ <<book[p], book'[p]>> \in
                  {Abstract!Issue, Abstract!Hold, Abstract!GiveBack, Abstract!Spend}
  <2> USE DEF Abstract!Issue, Abstract!Hold, Abstract!GiveBack, Abstract!Spend
  <2>1. CASE Stays(p) /\ coupon[p].status # "redeemed"
    BY <2>1 DEF Stays, book
  <2>2. CASE Stays(p) /\ coupon[p].status = "redeemed"
    <3>1. coupon[p].cart \in Carts
      BY <2>2, Rows DEF CouponsInv, HeldByItsCart
    <3> QED
      BY <1>1, <2>2, <3>1 DEF Stays, SoldStays, IsSold, book
  <2>3. CASE Taken(p)
    BY <2>3 DEF Taken, book
  <2>4. CASE Returned(p)
    BY <2>4 DEF Returned, book
  <2>5. CASE Granted(p)
    BY <2>5 DEF Granted, book
  <2> QED
    BY <1>1, <2>1, <2>2, <2>3, <2>4, <2>5 DEF Moves
<1> DEFINE moving == {p \in Coupons : book'[p] # book[p]}
<1>4. \A p \in Coupons :
        IF p \in moving
        THEN <<book[p], book'[p]>> \in
               {Abstract!Issue, Abstract!Hold, Abstract!GiveBack, Abstract!Spend}
        ELSE book'[p] = book[p]
  BY <1>3
<1> HIDE DEF moving
<1>5. moving \in SUBSET Coupons
  BY DEF moving
<1> QED
  BY <1>2, <1>4, <1>5 DEF Abstract!Next

\* A coupon is issued once, held by one cart until that gives it back or is paid
\* for, and a spent coupon is spent for good (CouponBook).
THEOREM CouponsFollowTheBook == Spec => ImplementsCouponBook
<1>1. Init => Abstract!Init
  BY DEF Init, NothingIssued, NoCoupon, book, Abstract!Init
<1>2. CouponsInv /\ CouponsInv' /\ [Next]_vars => [Abstract!Next]_book
  BY BookStep
<1> QED
  BY <1>1, <1>2, CouponsInvariant, PTL DEF Spec, ImplementsCouponBook, Abstract!Spec

=============================================================================
