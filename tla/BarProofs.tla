------------------------------ MODULE BarProofs ------------------------------
(***************************************************************************)
(* The books of the bar stay whole, a double tap records one intake, and a *)
(* deletion takes nothing that was paid for when it looked: for any number *)
(* of rows, and requests whose look and write are any distance apart.      *)
(***************************************************************************)
EXTENDS Bar, TLAPS, FiniteSetTheorems

Shapes ==
    /\ customer \in [Customers -> Customer]
    /\ blend \in [Blends -> Blend]
    /\ ord \in [Orders -> Order]
    /\ cart \in [Carts -> Cart]
    /\ intake \in [Keys -> Customers \union {None}]
    /\ desk \in [Desks -> Desk]

\* The foreign keys: a row that is there names rows that are.
BlendsOwned == \A m \in Blends : blend[m].is = "here" => blend[m].who \in Customers /\ Here(blend[m].who)
OrdersOwned ==
    \A o \in Orders : OnBooks(o) =>
      /\ ord[o].who \in Customers /\ Here(ord[o].who)
      /\ ord[o].of \in Blends \union {House}
CartsOwned ==
    \A k \in Carts : Standing(k) =>
      /\ cart[k].who \in Customers /\ Here(cart[k].who)
      /\ \A o \in cart[k].lines : OnBooks(o) /\ ord[o].who = cart[k].who
IntakesOwned == \A key \in Keys : intake[key] # None => Here(intake[key])

\* carts::create locks the orders it puts on a cart and looks for other carts.
LinesOnce ==
    \A k, l \in Carts : Standing(k) /\ Standing(l) /\ cart[k].lines \intersect cart[l].lines # {} => k = l

\* An order of the intake form belongs to the customer its key stands for.
KeyOnFile ==
    \A o \in Orders : OnBooks(o) /\ ord[o].key # None => intake[ord[o].key] = ord[o].who

\* What requests saw when they looked, as far as it cannot change under them.
Seen ==
    \A d \in Desks :
      /\ desk[d].pc = "reorder" /\ desk[d].of # House =>
           /\ blend[desk[d].of].is # "none"
           /\ blend[desk[d].of].is = "here" => blend[desk[d].of].who = desk[d].c
      /\ desk[d].pc = "delete customer" =>
           \A k \in desk[d].paid : cart[k].is # "none" /\ cart[k].who # desk[d].c
      /\ desk[d].pc = "delete order" =>
           \A k \in desk[d].paid : cart[k].is # "none" /\ desk[d].o \notin cart[k].lines

BarInv ==
    /\ Shapes
    /\ BlendsOwned
    /\ OrdersOwned
    /\ CartsOwned
    /\ IntakesOwned
    /\ LinesOnce
    /\ KeyOnFile
    /\ Seen
    /\ BlendIsTheirs
    /\ RecordedOnce

-----------------------------------------------------------------------------
(* Rows and requests, one at a time.                                       *)

LEMMA Rows ==
    ASSUME Shapes
    PROVE  /\ \A c \in Customers : customer[c] \in Customer
           /\ \A m \in Blends : /\ blend[m] \in Blend
                                /\ blend[m].is \in Life
                                /\ blend[m].who \in Customers \union {None}
           /\ \A o \in Orders : /\ ord[o] \in Order
                                /\ ord[o].is \in {"none", "lead", "paid", "fulfilled", "gone"}
                                /\ ord[o].who \in Customers \union {None}
                                /\ ord[o].of \in Blends \union {House, None}
                                /\ ord[o].key \in Keys \union {None}
                                /\ ord[o].by \in Desks \union {None}
           /\ \A k \in Carts : /\ cart[k] \in Cart
                               /\ cart[k].is \in {"none", "open", "paid", "refunded", "canceled", "gone"}
                               /\ cart[k].who \in Customers \union {None}
                               /\ cart[k].lines \in SUBSET Orders
           /\ \A d \in Desks : desk[d] \in Desk
BY DEF Shapes, Blend, Order, Cart

LEMMA Requests ==
    ASSUME NEW r \in Desk
    PROVE  /\ r.pc = "intake" => r.key \in Keys /\ r.email \in Emails /\ r.wants \in SUBSET Wanted
           /\ r.pc = "reorder" => r.c \in Customers /\ r.of \in Blends \union {House}
           /\ r.pc = "delete customer" => r.c \in Customers /\ r.paid \in SUBSET Carts
           /\ r.pc = "delete blend" => r.m \in Blends
           /\ r.pc = "delete order" => r.o \in Orders /\ r.paid \in SUBSET Carts
           /\ r.pc \in {"idle", "intake", "reorder", "delete customer", "delete blend", "delete order"}
<1>1. CASE r \in [pc : {"idle"}]
  BY <1>1
<1>2. CASE r \in [pc : {"intake"}, key : Keys, email : Emails, wants : SUBSET Wanted]
  BY <1>2
<1>3. CASE r \in [pc : {"reorder"}, c : Customers, of : Blends \union {House}]
  BY <1>3
<1>4. CASE r \in [pc : {"delete customer"}, c : Customers, paid : SUBSET Carts]
  BY <1>4
<1>5. CASE r \in [pc : {"delete blend"}, m : Blends]
  BY <1>5
<1>6. CASE r \in [pc : {"delete order"}, o : Orders, paid : SUBSET Carts]
  BY <1>6
<1> QED
  BY <1>1, <1>2, <1>3, <1>4, <1>5, <1>6 DEF Desk

LEMMA IdleIsRequest == Idle \in Desk /\ Idle.pc = "idle"
BY DEF Idle, Desk

\* A request that is answered, or starts, or fails leaves the others alone.
LEMMA OneDesk ==
    ASSUME Shapes, NEW d \in Desks, NEW r \in Desk, desk' = [desk EXCEPT ![d] = r]
    PROVE  /\ desk'[d] = r
           /\ \A e \in Desks \ {d} : desk'[e] = desk[e]
           /\ desk' \in [Desks -> Desk]
BY DEF Shapes

\* A blend is never written again, but to take it away; a cart that was there
\* gets no other customer and no more lines.
BlendsSettle ==
    \A m \in Blends : blend[m].is # "none" =>
      /\ blend'[m].is # "none"
      /\ blend'[m].is = "here" => blend[m].is = "here" /\ blend'[m].who = blend[m].who
CartsSettle ==
    \A k \in Carts : cart[k].is # "none" =>
      /\ cart'[k].is # "none"
      /\ cart'[k].who \in {cart[k].who, None}
      /\ cart'[k].lines \subseteq cart[k].lines

LEMMA SeenStays ==
    ASSUME BarInv, BlendsSettle, CartsSettle,
           \A d \in Desks : desk'[d] = desk[d] \/ desk'[d] = Idle
    PROVE  Seen'
<1> SUFFICES ASSUME NEW d \in Desks
             PROVE  /\ desk'[d].pc = "reorder" /\ desk'[d].of # House =>
                         /\ blend'[desk'[d].of].is # "none"
                         /\ blend'[desk'[d].of].is = "here" => blend'[desk'[d].of].who = desk'[d].c
                    /\ desk'[d].pc = "delete customer" =>
                         \A k \in desk'[d].paid : cart'[k].is # "none" /\ cart'[k].who # desk'[d].c
                    /\ desk'[d].pc = "delete order" =>
                         \A k \in desk'[d].paid : cart'[k].is # "none" /\ desk'[d].o \notin cart'[k].lines
  BY DEF Seen
<1>1. CASE desk'[d] = Idle
  BY <1>1, IdleIsRequest
<1>2. CASE desk'[d] = desk[d]
  <2>1. desk[d] \in Desk
    BY DEF BarInv, Shapes
  <2>2. ASSUME desk[d].pc = "reorder", desk[d].of # House
        PROVE  /\ blend'[desk[d].of].is # "none"
               /\ blend'[desk[d].of].is = "here" => blend'[desk[d].of].who = desk[d].c
    BY <2>1, <2>2, Requests DEF BarInv, Seen, BlendsSettle
  <2>3. ASSUME desk[d].pc = "delete customer", NEW k \in desk[d].paid
        PROVE  cart'[k].is # "none" /\ cart'[k].who # desk[d].c
    <3>1. desk[d].c \in Customers /\ k \in Carts
      BY <2>1, <2>3, Requests
    <3> QED
      BY <2>3, <3>1, NoneAssumption DEF BarInv, Seen, CartsSettle
  <2>4. ASSUME desk[d].pc = "delete order", NEW k \in desk[d].paid
        PROVE  cart'[k].is # "none" /\ desk[d].o \notin cart'[k].lines
    <3>1. k \in Carts
      BY <2>1, <2>4, Requests
    <3> QED
      BY <2>4, <3>1 DEF BarInv, Seen, CartsSettle
  <2> QED
    BY <1>2, <2>2, <2>3, <2>4
<1> QED
  BY <1>1, <1>2

LEMMA InitBar == Init => BarInv
<1> SUFFICES ASSUME Init PROVE BarInv
  OBVIOUS
<1> USE DEF Init, NoCustomer, NoBlend, NoOrder, NoCart
<1>1. Shapes
  BY IdleIsRequest DEF Shapes, Customer, Blend, Order, Cart, Life
<1>2. BlendsOwned /\ OrdersOwned /\ CartsOwned /\ IntakesOwned /\ LinesOnce
  BY DEF BlendsOwned, OrdersOwned, CartsOwned, IntakesOwned, LinesOnce, OnBooks, Standing
<1>3. KeyOnFile /\ BlendIsTheirs /\ RecordedOnce
  BY DEF KeyOnFile, BlendIsTheirs, RecordedOnce, OnBooks
<1>4. Seen
  BY IdleIsRequest DEF Seen
<1> QED
  BY <1>1, <1>2, <1>3, <1>4 DEF BarInv

-----------------------------------------------------------------------------
(* Requests that look, and requests that fail.                             *)

\* The books are as they were; what a new request saw is so.
LEMMA LookStep ==
    ASSUME BarInv, UNCHANGED <<customer, blend, ord, cart, intake>>, desk' \in [Desks -> Desk], Seen'
    PROVE  BarInv'
<1> USE DEF BarInv
<1>1. Shapes'
  BY DEF Shapes
<1>2. BlendsOwned' /\ OrdersOwned' /\ CartsOwned' /\ IntakesOwned' /\ LinesOnce'
  BY DEF BlendsOwned, OrdersOwned, CartsOwned, IntakesOwned, LinesOnce, OnBooks, Standing, Here
<1>3. KeyOnFile' /\ BlendIsTheirs' /\ RecordedOnce'
  BY DEF KeyOnFile, BlendIsTheirs, RecordedOnce, OnBooks
<1> QED
  BY <1>1, <1>2, <1>3

\* The step of a request that starts as r.
LEMMA StartStep ==
    ASSUME BarInv, NEW d \in Desks, NEW r \in Desk, Starts(d, r),
           r.pc = "reorder" /\ r.of # House =>
             /\ blend[r.of].is # "none"
             /\ blend[r.of].is = "here" => blend[r.of].who = r.c,
           r.pc = "delete customer" => \A k \in r.paid : cart[k].is # "none" /\ cart[k].who # r.c,
           r.pc = "delete order" => \A k \in r.paid : cart[k].is # "none" /\ r.o \notin cart[k].lines
    PROVE  BarInv'
<1>1. /\ desk'[d] = r
      /\ \A e \in Desks \ {d} : desk'[e] = desk[e]
      /\ desk' \in [Desks -> Desk]
      /\ UNCHANGED <<customer, blend, ord, cart, intake>>
  BY OneDesk DEF BarInv, Starts
<1>2. Seen'
  <2>1. ASSUME NEW e \in Desks \ {d}
        PROVE  /\ desk'[e].pc = "reorder" /\ desk'[e].of # House =>
                    /\ blend[desk'[e].of].is # "none"
                    /\ blend[desk'[e].of].is = "here" => blend[desk'[e].of].who = desk'[e].c
               /\ desk'[e].pc = "delete customer" =>
                    \A k \in desk'[e].paid : cart[k].is # "none" /\ cart[k].who # desk'[e].c
               /\ desk'[e].pc = "delete order" =>
                    \A k \in desk'[e].paid : cart[k].is # "none" /\ desk'[e].o \notin cart[k].lines
    BY <1>1 DEF BarInv, Seen
  <2> QED
    BY <1>1, <2>1 DEF Seen
<1> QED
  BY <1>1, <1>2, LookStep

LEMMA StartIntakeBar ==
    ASSUME BarInv, NEW d \in Desks, NEW key \in Keys, NEW email \in Emails,
           NEW wants \in SUBSET Wanted, StartIntake(d, key, email, wants)
    PROVE  BarInv'
<1> DEFINE r == [pc |-> "intake", key |-> key, email |-> email, wants |-> wants]
<1>1. r \in Desk /\ r.pc = "intake"
  BY DEF Desk
<1>2. Starts(d, r)
  BY DEF StartIntake
<1> QED
  BY <1>1, <1>2, StartStep

LEMMA StartReorderBar ==
    ASSUME BarInv, NEW d \in Desks, NEW c \in Customers, NEW of \in Blends \union {House},
           StartReorder(d, c, of)
    PROVE  BarInv'
<1> DEFINE r == [pc |-> "reorder", c |-> c, of |-> of]
<1>1. r \in Desk /\ r.pc = "reorder" /\ r.c = c /\ r.of = of
  BY DEF Desk
<1>2. Starts(d, r) /\ (of # House => blend[of].is = "here" /\ blend[of].who = c)
  BY DEF StartReorder, MayReorder
<1> HIDE DEF r
<1> QED
  BY <1>1, <1>2, StartStep

LEMMA StartDeleteBlendBar ==
    ASSUME BarInv, NEW d \in Desks, NEW m \in Blends, StartDeleteBlend(d, m)
    PROVE  BarInv'
<1> DEFINE r == [pc |-> "delete blend", m |-> m]
<1>1. r \in Desk /\ r.pc = "delete blend"
  BY DEF Desk
<1>2. Starts(d, r)
  BY DEF StartDeleteBlend
<1> HIDE DEF r
<1> QED
  BY <1>1, <1>2, StartStep

LEMMA StartDeleteCustomerBar ==
    ASSUME BarInv, NEW d \in Desks, NEW c \in Customers, StartDeleteCustomer(d, c)
    PROVE  BarInv'
<1> DEFINE r == [pc |-> "delete customer", c |-> c, paid |-> Money]
<1>1. r \in Desk /\ r.pc = "delete customer" /\ r.c = c /\ r.paid = Money
  BY DEF Desk, Money
<1>2. Starts(d, r) /\ \A k \in Money : cart[k].is # "none" /\ cart[k].who # c
  BY DEF StartDeleteCustomer, Money, Sold
<1> HIDE DEF r
<1> QED
  BY <1>1, <1>2, StartStep

LEMMA StartDeleteOrderBar ==
    ASSUME BarInv, NEW d \in Desks, NEW o \in Orders, StartDeleteOrder(d, o)
    PROVE  BarInv'
<1> DEFINE r == [pc |-> "delete order", o |-> o, paid |-> Money]
<1>1. r \in Desk /\ r.pc = "delete order" /\ r.o = o /\ r.paid = Money
  BY DEF Desk, Money
<1>2. Starts(d, r) /\ \A k \in Money : cart[k].is # "none" /\ o \notin cart[k].lines
  BY DEF StartDeleteOrder, Money, Sold, Claims, Standing
<1> HIDE DEF r
<1> QED
  BY <1>1, <1>2, StartStep

LEMMA RefusedBar ==
    ASSUME BarInv, NEW d \in Desks, Refused(d)
    PROVE  BarInv'
<1>1. /\ desk' \in [Desks -> Desk]
      /\ \A e \in Desks : desk'[e] = desk[e] \/ desk'[e] = Idle
  BY IdleIsRequest, OneDesk DEF BarInv, Refused, Done
<1>2. UNCHANGED <<customer, blend, ord, cart, intake>>
  BY DEF Refused
<1>3. Seen'
  BY <1>1, <1>2, SeenStays DEF BlendsSettle, CartsSettle
<1> QED
  BY <1>1, <1>2, <1>3, LookStep

-----------------------------------------------------------------------------
(* Sales.                                                                  *)

\* Orders keep everything but how far they are; a cart that stands stays the
\* customer's and gets no more lines.
LEMMA SaleStep ==
    ASSUME BarInv, Shapes', UNCHANGED <<customer, blend, intake, desk>>,
           \A o \in Orders :
             /\ OnBooks(o)' <=> OnBooks(o)
             /\ ord'[o].who = ord[o].who /\ ord'[o].of = ord[o].of
             /\ ord'[o].key = ord[o].key /\ ord'[o].by = ord[o].by,
           \A k \in Carts :
             \/ cart'[k] = cart[k]
             \/ /\ Standing(k) /\ Standing(k)'
                /\ cart'[k].who = cart[k].who
                /\ cart'[k].lines \subseteq cart[k].lines
    PROVE  BarInv'
<1> USE DEF BarInv
<1>1. \A k \in Carts : /\ Standing(k)' <=> Standing(k)
                       /\ cart'[k].who = cart[k].who
                       /\ cart'[k].lines \subseteq cart[k].lines
  BY DEF Standing
<1>2. BlendsOwned' /\ IntakesOwned'
  BY DEF BlendsOwned, IntakesOwned, Here
<1>3. OrdersOwned'
  BY DEF OrdersOwned, Here
<1>4. CartsOwned'
  BY <1>1, Rows DEF CartsOwned, Here
<1>5. LinesOnce'
  <2> SUFFICES ASSUME NEW k \in Carts, NEW l \in Carts, Standing(k)', Standing(l)',
                      NEW o \in cart'[k].lines, o \in cart'[l].lines
               PROVE  k = l
    BY DEF LinesOnce
  <2> QED
    BY <1>1 DEF LinesOnce
<1>6. KeyOnFile'
  BY DEF KeyOnFile
<1>7. BlendIsTheirs'
  BY DEF BlendIsTheirs
<1>8. RecordedOnce'
  BY DEF RecordedOnce
<1>9. Seen'
  BY <1>1, SeenStays DEF BlendsSettle, CartsSettle, Standing
<1> QED
  BY <1>2, <1>3, <1>4, <1>5, <1>6, <1>7, <1>8, <1>9

\* One cart that stands gets another status, or loses its lines.
LEMMA CartStep ==
    ASSUME BarInv, NEW k \in Carts, NEW row \in Cart, cart' = [cart EXCEPT ![k] = row],
           UNCHANGED <<customer, blend, ord, intake, desk>>, Standing(k),
           row.is \notin {"none", "gone"}, row.who = cart[k].who, row.lines \subseteq cart[k].lines
    PROVE  BarInv'
<1>1. Shapes' /\ cart'[k] = row /\ \A l \in Carts \ {k} : cart'[l] = cart[l]
  BY DEF BarInv, Shapes
<1> QED
  BY <1>1, SaleStep DEF Standing, OnBooks

LEMMA RefundBar ==
    ASSUME BarInv, NEW k \in Carts, Refund(k) \/ Cancel(k) \/ Name(k)
    PROVE  BarInv'
<1>1. cart[k] \in Cart
  BY DEF BarInv, Shapes
<1>2. CASE Refund(k)
  <2> DEFINE row == [cart[k] EXCEPT !.is = "refunded"]
  <2>1. row \in Cart /\ row.is = "refunded" /\ row.who = cart[k].who /\ row.lines = cart[k].lines
    BY <1>1 DEF Cart
  <2>2. cart' = [cart EXCEPT ![k] = row] /\ Standing(k)
    BY <1>2 DEF Refund, Standing
  <2> HIDE DEF row
  <2> QED
    BY <1>2, <2>1, <2>2, CartStep DEF Refund
<1>3. CASE Cancel(k)
  <2> DEFINE row == [cart[k] EXCEPT !.is = "canceled", !.lines = {}]
  <2>1. row \in Cart /\ row.is = "canceled" /\ row.who = cart[k].who /\ row.lines = {}
    BY <1>1 DEF Cart
  <2>2. cart' = [cart EXCEPT ![k] = row] /\ Standing(k)
    BY <1>3 DEF Cancel, Standing, BarInv, Shapes
  <2> HIDE DEF row
  <2> QED
    BY <1>3, <2>1, <2>2, CartStep DEF Cancel
<1>4. CASE Name(k)
  <2> DEFINE row == [cart[k] EXCEPT !.named = TRUE]
  <2>1. row \in Cart /\ row.is = cart[k].is /\ row.who = cart[k].who /\ row.lines = cart[k].lines
    BY <1>1 DEF Cart
  <2>2. cart' = [cart EXCEPT ![k] = row] /\ Standing(k)
    BY <1>4 DEF Name
  <2> HIDE DEF row
  <2> QED
    BY <1>4, <2>1, <2>2, CartStep DEF Name, Standing
<1> QED
  BY <1>2, <1>3, <1>4

\* An order that goes from one status on the books to another.
LEMMA OrderMoved ==
    ASSUME NEW row \in Order, NEW status \in {"lead", "paid", "fulfilled"}
    PROVE  LET next == [row EXCEPT !.is = status]
           IN  /\ next \in Order /\ next.is = status
               /\ next.who = row.who /\ next.of = row.of /\ next.key = row.key /\ next.by = row.by
BY DEF Order

LEMMA PayBar ==
    ASSUME BarInv, NEW k \in Carts, Pay(k)
    PROVE  BarInv'
<1> DEFINE row == [cart[k] EXCEPT !.is = "paid"]
<1>1. row \in Cart /\ row.is = "paid" /\ row.who = cart[k].who /\ row.lines = cart[k].lines
  BY DEF BarInv, Shapes, Cart
<1>2. cart' = [cart EXCEPT ![k] = row] /\ Standing(k)
  BY DEF Pay, Standing
<1> HIDE DEF row
<1>3. cart'[k] = row /\ (\A l \in Carts \ {k} : cart'[l] = cart[l]) /\ cart' \in [Carts -> Cart]
  BY <1>1, <1>2 DEF BarInv, Shapes
<1>4. ASSUME NEW o \in Orders
      PROVE  /\ ord'[o] \in Order
             /\ OnBooks(o)' <=> OnBooks(o)
             /\ ord'[o].who = ord[o].who /\ ord'[o].of = ord[o].of
             /\ ord'[o].key = ord[o].key /\ ord'[o].by = ord[o].by
  <2>1. ord[o] \in Order
    BY DEF BarInv, Shapes
  <2>2. CASE o \in cart[k].lines /\ ord[o].is = "lead"
    <3> DEFINE next == [ord[o] EXCEPT !.is = "paid"]
    <3>1. ord'[o] = next
      BY <2>2 DEF Pay
    <3>2. /\ next \in Order /\ next.is = "paid"
          /\ next.who = ord[o].who /\ next.of = ord[o].of
          /\ next.key = ord[o].key /\ next.by = ord[o].by
      BY <2>1, OrderMoved
    <3> HIDE DEF next
    <3> QED
      BY <2>2, <3>1, <3>2 DEF OnBooks
  <2>3. CASE ~(o \in cart[k].lines /\ ord[o].is = "lead")
    <3>1. ord'[o] = ord[o]
      BY <2>3 DEF Pay
    <3> QED
      BY <2>1, <3>1 DEF OnBooks
  <2> QED
    BY <2>2, <2>3
<1>5. ord' \in [Orders -> Order]
  BY <1>4 DEF Pay
<1>6. Shapes' /\ UNCHANGED <<customer, blend, intake, desk>>
  BY <1>3, <1>5 DEF BarInv, Shapes, Pay
<1> QED
  BY <1>1, <1>2, <1>3, <1>4, <1>6, SaleStep DEF Standing

LEMMA SetStatusBar ==
    ASSUME BarInv, NEW o \in Orders, NEW status \in {"lead", "paid", "fulfilled"}, SetStatus(o, status)
    PROVE  BarInv'
<1> DEFINE row == [ord[o] EXCEPT !.is = status]
<1>0. ord[o] \in Order
  BY DEF BarInv, Shapes
<1>1. /\ row \in Order /\ row.is = status
      /\ row.who = ord[o].who /\ row.of = ord[o].of /\ row.key = ord[o].key /\ row.by = ord[o].by
  BY <1>0, OrderMoved
<1>2. ord' = [ord EXCEPT ![o] = row]
  BY DEF SetStatus
<1> HIDE DEF row
<1>3. ord'[o] = row /\ (\A p \in Orders \ {o} : ord'[p] = ord[p]) /\ ord' \in [Orders -> Order]
  BY <1>1, <1>2 DEF BarInv, Shapes
<1>4. Shapes' /\ UNCHANGED <<customer, blend, cart, intake, desk>>
  BY <1>3 DEF BarInv, Shapes, SetStatus
<1>5. \A p \in Orders :
        /\ OnBooks(p)' <=> OnBooks(p)
        /\ ord'[p].who = ord[p].who /\ ord'[p].of = ord[p].of
        /\ ord'[p].key = ord[p].key /\ ord'[p].by = ord[p].by
  BY <1>1, <1>3 DEF OnBooks, SetStatus
<1> QED
  BY <1>4, <1>5, SaleStep

\* A new cart takes orders of its customer that no cart claims.
LEMMA MakeCartBar ==
    ASSUME BarInv, NEW k \in Carts, NEW c \in Customers, NEW os \in SUBSET Orders, MakeCart(k, c, os)
    PROVE  BarInv'
<1> USE DEF BarInv
<1> DEFINE row == [NoCart EXCEPT !.is = "open", !.who = c, !.lines = os]
<1>1. row \in Cart /\ row.is = "open" /\ row.who = c /\ row.lines = os
  BY DEF NoCart, Cart
<1>2. cart' = [cart EXCEPT ![k] = row] /\ cart[k].is = "none" /\ Here(c)
  BY DEF MakeCart
<1> HIDE DEF row
<1>3. cart'[k] = row /\ (\A l \in Carts \ {k} : cart'[l] = cart[l]) /\ cart' \in [Carts -> Cart]
  BY <1>1, <1>2 DEF Shapes
<1>4. UNCHANGED <<customer, blend, ord, intake, desk>>
  BY DEF MakeCart
<1>5. Shapes'
  BY <1>3, <1>4 DEF Shapes
<1>6. BlendsOwned' /\ OrdersOwned' /\ IntakesOwned' /\ KeyOnFile' /\ BlendIsTheirs' /\ RecordedOnce'
  BY <1>4 DEF BlendsOwned, OrdersOwned, IntakesOwned, KeyOnFile, BlendIsTheirs, RecordedOnce, Here, OnBooks
<1>7. \A o \in os : /\ OnBooks(o) /\ ord[o].who = c
                    /\ \A l \in Carts : Standing(l) => o \notin cart[l].lines
  BY DEF MakeCart, MaySell, Claims
<1>8. CartsOwned'
  BY <1>1, <1>2, <1>3, <1>4, <1>7 DEF CartsOwned, Standing, OnBooks, Here
<1>9. LinesOnce'
  <2> SUFFICES ASSUME NEW l \in Carts, NEW j \in Carts, Standing(l)', Standing(j)',
                      NEW o \in cart'[l].lines, o \in cart'[j].lines
               PROVE  l = j
    BY DEF LinesOnce
  <2> QED
    BY <1>1, <1>3, <1>7 DEF LinesOnce, Standing
<1>10. Seen'
  BY <1>2, <1>3, <1>4, SeenStays DEF BlendsSettle, CartsSettle
<1> QED
  BY <1>5, <1>6, <1>8, <1>9, <1>10

-----------------------------------------------------------------------------
(* New orders.                                                             *)

\* A request by takes the orders new, to rows that were free, for a customer c who
\* is here, and enters them under the key if it has one, which nobody used.
Adds(c, new, key, by) ==
    /\ UNCHANGED cart
    /\ Here(c)' /\ \A e \in Customers : Here(e) => Here(e)'
    /\ \A o \in Orders \ new : ord'[o] = ord[o]
    /\ \A o \in new :
         /\ ord[o].is = "none" /\ ord'[o].is = "lead" /\ ord'[o].who = c
         /\ ord'[o].key = key /\ ord'[o].by = by
         /\ \/ ord'[o].of = House
            \/ ord'[o].of \in Blends /\ blend'[ord'[o].of].is = "here" /\ blend'[ord'[o].of].who = c
    /\ \A m \in Blends : \/ blend'[m] = blend[m]
                         \/ blend[m].is = "none" /\ blend'[m].is = "here" /\ blend'[m].who = c
    /\ key # None => intake'[key] = c /\ \A o \in Orders : OnBooks(o) => ord[o].key # key
    /\ \A k \in Keys : k # key => intake'[k] = intake[k]

LEMMA OrdersAdded ==
    ASSUME BarInv, Shapes', IntakesOwned', NEW c \in Customers, NEW new \in SUBSET Orders,
           NEW key, NEW by, Adds(c, new, key, by)
    PROVE  /\ BlendsOwned' /\ OrdersOwned' /\ CartsOwned' /\ LinesOnce'
           /\ KeyOnFile' /\ BlendIsTheirs' /\ RecordedOnce'
<1> USE DEF BarInv, Adds
<1>1. \A o \in Orders : OnBooks(o) => o \notin new
  BY DEF OnBooks
<1>2. \A o \in Orders \ new : OnBooks(o)' <=> OnBooks(o)
  BY DEF OnBooks
<1>3. BlendsOwned'
  BY DEF BlendsOwned
<1>4. OrdersOwned'
  BY <1>2 DEF OrdersOwned
<1>5. CartsOwned'
  <2> SUFFICES ASSUME NEW k \in Carts, Standing(k)
               PROVE  /\ cart[k].who \in Customers /\ Here(cart[k].who)'
                      /\ \A o \in cart[k].lines : OnBooks(o)' /\ ord'[o].who = cart[k].who
    BY DEF CartsOwned, Standing
  <2>1. /\ cart[k].who \in Customers /\ Here(cart[k].who)
        /\ \A o \in cart[k].lines : o \in Orders /\ OnBooks(o) /\ ord[o].who = cart[k].who
    BY Rows DEF CartsOwned
  <2> QED
    BY <1>1, <1>2, <2>1
<1>7. LinesOnce'
  BY DEF LinesOnce, Standing
<1>8. KeyOnFile'
  BY <1>2, Rows DEF KeyOnFile
<1>9. BlendIsTheirs'
  <2> SUFFICES ASSUME NEW o \in Orders, OnBooks(o)', ord'[o].of # House
               PROVE  blend'[ord'[o].of].is = "here" /\ blend'[ord'[o].of].who = ord'[o].who
    BY DEF BlendIsTheirs
  <2>1. CASE o \in new
    BY <2>1
  <2>2. CASE o \notin new
    <3>1. /\ blend[ord[o].of].is = "here" /\ blend[ord[o].of].who = ord[o].who
          /\ ord[o].of \in Blends
      BY <1>2, <2>2 DEF BlendIsTheirs, OrdersOwned
    <3> QED
      BY <2>2, <3>1
  <2> QED
    BY <2>1, <2>2
<1>10. RecordedOnce'
  BY <1>2 DEF RecordedOnce
<1> QED
  BY <1>3, <1>4, <1>5, <1>7, <1>8, <1>9, <1>10

LEMMA ReorderBar ==
    ASSUME BarInv, NEW d \in Desks, NEW o \in Orders, Reorder(d, o)
    PROVE  BarInv'
<1> USE DEF BarInv
<1>1. PICK c \in Customers, of \in Blends \union {House} : c = desk[d].c /\ of = desk[d].of
  BY Requests DEF Shapes, Reorder
<1> DEFINE row == [NoOrder EXCEPT !.is = "lead", !.who = c, !.of = of]
<1>2. /\ row \in Order /\ row.is = "lead" /\ row.who = c /\ row.of = of
      /\ row.key = None /\ row.by = None
  BY <1>1 DEF NoOrder, Order
<1>3. ord' = [ord EXCEPT ![o] = row]
  BY <1>1 DEF Reorder
<1> HIDE DEF row
<1>4. ord'[o] = row /\ (\A p \in Orders \ {o} : ord'[p] = ord[p]) /\ ord' \in [Orders -> Order]
  BY <1>2, <1>3 DEF Shapes
<1>5. desk' \in [Desks -> Desk] /\ \A e \in Desks : desk'[e] = desk[e] \/ desk'[e] = Idle
  BY IdleIsRequest, OneDesk DEF Reorder, Done
<1>6. UNCHANGED <<customer, blend, cart, intake>> /\ ord[o].is = "none" /\ Here(c)
  BY <1>1 DEF Reorder, StillThere
<1>7. Shapes'
  BY <1>4, <1>5, <1>6 DEF Shapes
<1>8. of # House => of \in Blends /\ blend[of].is = "here" /\ blend[of].who = c
  BY <1>1 DEF Reorder, StillThere, Seen
<1>9. IntakesOwned' /\ \A e \in Customers : Here(e)' <=> Here(e)
  BY <1>6 DEF IntakesOwned, Here
<1>10. /\ BlendsOwned' /\ OrdersOwned' /\ CartsOwned' /\ LinesOnce'
       /\ KeyOnFile' /\ BlendIsTheirs' /\ RecordedOnce'
  <2> DEFINE new == {o}
  <2>1. /\ new \in SUBSET Orders
        /\ \A p \in Orders \ new : ord'[p] = ord[p]
        /\ \A p \in new : /\ ord[p].is = "none" /\ ord'[p].is = "lead" /\ ord'[p].who = c
                          /\ ord'[p].key = None /\ ord'[p].by = None
                          /\ \/ ord'[p].of = House
                             \/ ord'[p].of \in Blends /\ blend'[ord'[p].of].is = "here" /\ blend'[ord'[p].of].who = c
    BY <1>1, <1>2, <1>4, <1>6, <1>8
  <2> HIDE DEF new
  <2>2. Adds(c, new, None, None)
    BY <1>1, <1>6, <1>9, <2>1 DEF Adds
  <2> QED
    BY <1>1, <1>7, <1>9, <2>1, <2>2, OrdersAdded
<1>11. Seen'
  BY <1>5, <1>6, SeenStays DEF BlendsSettle, CartsSettle
<1> QED
  BY <1>7, <1>9, <1>10, <1>11

LEMMA RecordIntakeBar ==
    ASSUME BarInv, NEW d \in Desks, NEW c \in Customers, NEW m \in Blends,
           NEW os \in [desk[d].wants -> Orders], RecordIntake(d, c, m, os)
    PROVE  BarInv'
<1> USE DEF BarInv
<1>1. PICK r \in Desk : r = desk[d]
  BY DEF Shapes
<1>2. r.pc = "intake" /\ r.key \in Keys /\ r.email \in Emails /\ r.wants \in SUBSET Wanted
  BY <1>1, Requests DEF RecordIntake
<1> DEFINE line(w) == [is |-> "lead", who |-> c, of |-> IF w = "blend" THEN m ELSE House,
                       key |-> r.key, by |-> d]
           new == {os[w] : w \in r.wants}
           guest == [is |-> "here", email |-> r.email]
           mix == [is |-> "here", who |-> c]
<1>3. /\ intake[r.key] = None
      /\ os \in [r.wants -> Orders]
      /\ \A w \in r.wants : ord[os[w]].is = "none"
      /\ "blend" \in r.wants => blend[m].is = "none"
      /\ (Here(c) /\ customer[c].email = r.email) \/ customer[c].is = "none"
      /\ customer' = [customer EXCEPT ![c] = guest]
      /\ blend' = IF "blend" \in r.wants THEN [blend EXCEPT ![m] = mix] ELSE blend
      /\ ord' = [o \in Orders |-> IF \E w \in r.wants : os[w] = o
                                  THEN line(CHOOSE w \in r.wants : os[w] = o) ELSE ord[o]]
      /\ intake' = [intake EXCEPT ![r.key] = c]
      /\ desk' = [desk EXCEPT ![d] = Idle]
      /\ UNCHANGED cart
  BY <1>1 DEF RecordIntake, KeyIsFree, Upserts, Done
<1>4. guest \in Customer /\ mix \in Blend /\ guest.is = "here" /\ mix.is = "here" /\ mix.who = c
  BY <1>2 DEF Customer, Blend, Life
<1>5. ASSUME NEW w \in r.wants
      PROVE  /\ line(w) \in Order /\ line(w).is = "lead" /\ line(w).who = c
             /\ line(w).key = r.key /\ line(w).by = d
             /\ line(w).of = House \/ (line(w).of = m /\ "blend" \in r.wants)
  BY <1>2 DEF Order
<1> HIDE DEF line, guest, mix
<1>6. /\ customer' \in [Customers -> Customer]
      /\ \A e \in Customers : Here(e) => Here(e)'
      /\ Here(c)'
  BY <1>3, <1>4 DEF Shapes, Here
<1>7. /\ blend' \in [Blends -> Blend]
      /\ \A n \in Blends : \/ blend'[n] = blend[n]
                           \/ /\ n = m /\ "blend" \in r.wants
                              /\ blend[n].is = "none" /\ blend'[n].is = "here" /\ blend'[n].who = c
      /\ "blend" \in r.wants => blend'[m].is = "here" /\ blend'[m].who = c
  <2>1. CASE "blend" \in r.wants
    BY <1>3, <1>4, <2>1 DEF Shapes
  <2>2. CASE "blend" \notin r.wants
    BY <1>3, <2>2 DEF Shapes
  <2> QED
    BY <2>1, <2>2
<1>8. ASSUME NEW o \in Orders
      PROVE  /\ o \notin new => ord'[o] = ord[o]
             /\ o \in new => \E w \in r.wants : ord'[o] = line(w) /\ ord[o].is = "none"
  <2>1. CASE o \in new
    <3>1. PICK w \in r.wants : os[w] = o
      BY <2>1
    <3>2. (CHOOSE x \in r.wants : os[x] = o) \in r.wants
      BY <3>1
    <3> QED
      BY <1>3, <2>1, <3>1, <3>2
  <2>2. CASE o \notin new
    BY <1>3, <2>2
  <2> QED
    BY <2>1, <2>2
<1>9. new \in SUBSET Orders
  BY <1>3
<1> HIDE DEF new
<1>10. ord' \in [Orders -> Order]
  <2>1. \A o \in Orders : ord'[o] \in Order
    BY <1>5, <1>8, Rows
  <2> QED
    BY <1>3, <2>1
<1>11. intake' \in [Keys -> Customers \union {None}] /\ intake'[r.key] = c
       /\ \A k \in Keys : k # r.key => intake'[k] = intake[k]
  BY <1>2, <1>3 DEF Shapes
<1>12. desk' \in [Desks -> Desk] /\ \A e \in Desks : desk'[e] = desk[e] \/ desk'[e] = Idle
  BY <1>3, IdleIsRequest, OneDesk
<1>13. Shapes'
  BY <1>3, <1>6, <1>7, <1>10, <1>11, <1>12 DEF Shapes
<1>14. IntakesOwned'
  <2> SUFFICES ASSUME NEW k \in Keys, intake'[k] # None PROVE customer'[intake'[k]].is = "here"
    BY DEF IntakesOwned, Here
  <2>1. CASE k = r.key
    BY <1>6, <1>11, <2>1 DEF Here
  <2>2. CASE k # r.key
    <3>1. intake[k] \in Customers /\ Here(intake[k]) /\ intake'[k] = intake[k]
      BY <1>11, <2>2 DEF IntakesOwned, Shapes
    <3> QED
      BY <1>6, <3>1 DEF Here
  <2> QED
    BY <2>1, <2>2
<1>15. \A o \in Orders : OnBooks(o) => ord[o].key # r.key
  <2> SUFFICES ASSUME NEW o \in Orders, OnBooks(o), ord[o].key = r.key PROVE FALSE
    OBVIOUS
  <2>1. r.key # None
    BY <1>2, NoneAssumption
  <2>2. ord[o].who \in Customers /\ intake[r.key] = ord[o].who
    BY <2>1 DEF KeyOnFile, OrdersOwned
  <2> QED
    BY <1>3, <2>2, NoneAssumption
<1>16. Adds(c, new, r.key, d)
  <2>1. \A o \in new :
          /\ ord[o].is = "none" /\ ord'[o].is = "lead" /\ ord'[o].who = c
          /\ ord'[o].key = r.key /\ ord'[o].by = d
          /\ \/ ord'[o].of = House
             \/ ord'[o].of \in Blends /\ blend'[ord'[o].of].is = "here" /\ blend'[ord'[o].of].who = c
    BY <1>5, <1>7, <1>8, <1>9
  <2>2. \A o \in Orders \ new : ord'[o] = ord[o]
    BY <1>8
  <2>3. \A n \in Blends : \/ blend'[n] = blend[n]
                          \/ blend[n].is = "none" /\ blend'[n].is = "here" /\ blend'[n].who = c
    BY <1>7
  <2> QED
    BY <1>3, <1>6, <1>11, <1>15, <2>1, <2>2, <2>3 DEF Adds
<1>17. Seen'
  <2>1. BlendsSettle
    BY <1>7 DEF BlendsSettle
  <2>2. CartsSettle
    BY <1>3 DEF CartsSettle
  <2> QED
    BY <1>12, <2>1, <2>2, SeenStays
<1> QED
  BY <1>9, <1>13, <1>14, <1>16, <1>17, OrdersAdded

-----------------------------------------------------------------------------
(* Deletions.                                                              *)

LEMMA DeleteCustomerBar ==
    ASSUME BarInv, NEW d \in Desks, DeleteCustomer(d)
    PROVE  BarInv'
<1> USE DEF BarInv
<1>1. PICK c \in Customers : c = desk[d].c
  BY Requests DEF Shapes, DeleteCustomer
<1> DEFINE goneCart == [NoCart EXCEPT !.is = "gone"]
           goneOrder == [NoOrder EXCEPT !.is = "gone"]
           goneBlend == [NoBlend EXCEPT !.is = "gone"]
           goneCustomer == [NoCustomer EXCEPT !.is = "gone"]
<1>2. /\ Here(c)
      /\ cart' = [k \in Carts |-> IF Standing(k) /\ cart[k].who = c THEN goneCart ELSE cart[k]]
      /\ ord' = [o \in Orders |-> IF OnBooks(o) /\ ord[o].who = c THEN goneOrder ELSE ord[o]]
      /\ blend' = [m \in Blends |-> IF blend[m].who = c THEN goneBlend ELSE blend[m]]
      /\ intake' = [key \in Keys |-> IF intake[key] = c THEN None ELSE intake[key]]
      /\ customer' = [customer EXCEPT ![c] = goneCustomer]
      /\ desk' = [desk EXCEPT ![d] = Idle]
  BY <1>1 DEF DeleteCustomer, Done
<1>3. /\ goneCart \in Cart /\ goneCart.is = "gone" /\ goneCart.who = None /\ goneCart.lines = {}
      /\ goneOrder \in Order /\ goneOrder.is = "gone"
      /\ goneBlend \in Blend /\ goneBlend.is = "gone" /\ goneBlend.who = None
      /\ goneCustomer \in Customer /\ goneCustomer.is = "gone"
  BY DEF NoCart, NoOrder, NoBlend, NoCustomer, Cart, Order, Blend, Customer, Life
<1> HIDE DEF goneCart, goneOrder, goneBlend, goneCustomer
<1>4. /\ customer' \in [Customers -> Customer]
      /\ \A e \in Customers : Here(e)' <=> Here(e) /\ e # c
  BY <1>2, <1>3 DEF Shapes, Here
<1>5. /\ cart' \in [Carts -> Cart]
      /\ \A k \in Carts : /\ Standing(k)' <=> Standing(k) /\ cart[k].who # c
                          /\ Standing(k)' => cart'[k] = cart[k]
                          /\ cart[k].is # "none" => cart'[k].is # "none"
                          /\ cart'[k] \in {cart[k], goneCart}
  BY <1>2, <1>3, Rows DEF Standing
<1>6. /\ ord' \in [Orders -> Order]
      /\ \A o \in Orders : /\ OnBooks(o)' <=> OnBooks(o) /\ ord[o].who # c
                           /\ OnBooks(o)' => ord'[o] = ord[o]
  BY <1>2, <1>3, Rows DEF OnBooks
<1>7. /\ blend' \in [Blends -> Blend]
      /\ \A m \in Blends : /\ blend'[m].is = "here" => blend'[m] = blend[m]
                           /\ blend[m].who # c => blend'[m] = blend[m]
                           /\ blend'[m].is = "here" => blend[m].who # c
                           /\ blend[m].is # "none" => blend'[m].is # "none"
  BY <1>2, <1>3, Rows
<1>8. /\ intake' \in [Keys -> Customers \union {None}]
      /\ \A key \in Keys : /\ intake[key] # c => intake'[key] = intake[key]
                           /\ intake'[key] # None => intake'[key] = intake[key] /\ intake[key] # c
  BY <1>2 DEF Shapes
<1>9. desk' \in [Desks -> Desk] /\ \A e \in Desks : desk'[e] = desk[e] \/ desk'[e] = Idle
  BY <1>2, IdleIsRequest, OneDesk
<1>10. Shapes'
  BY <1>4, <1>5, <1>6, <1>7, <1>8, <1>9 DEF Shapes
<1>11. BlendsOwned'
  BY <1>4, <1>7 DEF BlendsOwned
<1>12. OrdersOwned'
  BY <1>4, <1>6 DEF OrdersOwned
<1>13. CartsOwned'
  <2> SUFFICES ASSUME NEW k \in Carts, Standing(k)'
               PROVE  /\ cart[k].who \in Customers /\ Here(cart[k].who)'
                      /\ \A o \in cart[k].lines : OnBooks(o)' /\ ord'[o].who = cart[k].who
    BY <1>5 DEF CartsOwned
  <2>1. /\ Standing(k) /\ cart[k].who # c /\ cart[k].who \in Customers /\ Here(cart[k].who)
        /\ \A o \in cart[k].lines : o \in Orders /\ OnBooks(o) /\ ord[o].who = cart[k].who
    BY <1>5, Rows DEF CartsOwned
  <2>2. Here(cart[k].who)'
    BY <1>2, <1>3, <1>5, <2>1 DEF Here
  <2> QED
    BY <1>6, <2>1, <2>2
<1>14. IntakesOwned'
  <2> SUFFICES ASSUME NEW key \in Keys, intake'[key] # None PROVE customer'[intake'[key]].is = "here"
    BY DEF IntakesOwned, Here
  <2>1. intake'[key] = intake[key] /\ intake[key] # c /\ intake[key] \in Customers /\ Here(intake[key])
    BY <1>8 DEF IntakesOwned, Shapes
  <2> QED
    BY <1>4, <2>1 DEF Here
<1>15. LinesOnce'
  BY <1>5 DEF LinesOnce
<1>16. KeyOnFile'
  BY <1>6, <1>8, Rows DEF KeyOnFile
<1>17. BlendIsTheirs'
  BY <1>6, <1>7 DEF BlendIsTheirs, OrdersOwned
<1>18. RecordedOnce'
  BY <1>6 DEF RecordedOnce
<1>19. Seen'
  <2>1. BlendsSettle
    BY <1>7 DEF BlendsSettle
  <2>2. CartsSettle
    BY <1>3, <1>5 DEF CartsSettle
  <2> QED
    BY <1>9, <2>1, <2>2, SeenStays
<1> QED
  BY <1>10, <1>11, <1>12, <1>13, <1>14, <1>15, <1>16, <1>17, <1>18, <1>19

LEMMA DeleteBlendBar ==
    ASSUME BarInv, NEW d \in Desks, DeleteBlend(d)
    PROVE  BarInv'
<1> USE DEF BarInv
<1>1. PICK m \in Blends : m = desk[d].m
  BY Requests DEF Shapes, DeleteBlend
<1> DEFINE gone == [NoBlend EXCEPT !.is = "gone"]
<1>2. /\ blend' = [blend EXCEPT ![m] = gone] /\ Uses(m) = {}
      /\ UNCHANGED <<customer, ord, cart, intake>>
      /\ desk' = [desk EXCEPT ![d] = Idle]
  BY <1>1 DEF DeleteBlend, Done
<1>3. gone \in Blend /\ gone.is = "gone"
  BY DEF NoBlend, Blend, Life
<1> HIDE DEF gone
<1>4. blend'[m] = gone /\ (\A n \in Blends \ {m} : blend'[n] = blend[n]) /\ blend' \in [Blends -> Blend]
  BY <1>2, <1>3 DEF Shapes
<1>5. desk' \in [Desks -> Desk] /\ \A e \in Desks : desk'[e] = desk[e] \/ desk'[e] = Idle
  BY <1>2, IdleIsRequest, OneDesk
<1>6. Shapes'
  BY <1>2, <1>4, <1>5 DEF Shapes
<1>7. /\ BlendsOwned' /\ OrdersOwned' /\ CartsOwned' /\ IntakesOwned' /\ LinesOnce'
      /\ KeyOnFile' /\ RecordedOnce'
  BY <1>2, <1>3, <1>4 DEF BlendsOwned, OrdersOwned, CartsOwned, IntakesOwned, LinesOnce, KeyOnFile,
                          RecordedOnce, OnBooks, Standing, Here
<1>8. BlendIsTheirs'
  <2>1. \A o \in Orders : OnBooks(o) => ord[o].of # m
    BY <1>2 DEF Uses
  <2> QED
    BY <1>2, <1>4, <2>1 DEF BlendIsTheirs, OnBooks, OrdersOwned
<1>9. Seen'
  <2>1. BlendsSettle
    BY <1>3, <1>4 DEF BlendsSettle
  <2>2. CartsSettle
    BY <1>2 DEF CartsSettle
  <2> QED
    BY <1>5, <2>1, <2>2, SeenStays
<1> QED
  BY <1>6, <1>7, <1>8, <1>9

LEMMA DeleteOrderBar ==
    ASSUME BarInv, NEW d \in Desks, DeleteOrder(d)
    PROVE  BarInv'
<1> USE DEF BarInv
<1>1. PICK o \in Orders : o = desk[d].o
  BY Requests DEF Shapes, DeleteOrder
<1> DEFINE gone == [NoOrder EXCEPT !.is = "gone"]
<1>2. /\ cart' = [k \in Carts |-> [cart[k] EXCEPT !.lines = @ \ {o}]]
      /\ ord' = [ord EXCEPT ![o] = gone]
      /\ UNCHANGED <<customer, blend, intake>>
      /\ desk' = [desk EXCEPT ![d] = Idle]
  BY <1>1 DEF DeleteOrder, Done
<1>3. gone \in Order /\ gone.is = "gone"
  BY DEF NoOrder, Order
<1> HIDE DEF gone
<1>4. /\ ord'[o] = gone /\ (\A p \in Orders \ {o} : ord'[p] = ord[p]) /\ ord' \in [Orders -> Order]
      /\ ~OnBooks(o)'
  BY <1>2, <1>3 DEF Shapes, OnBooks
<1>5. ASSUME NEW k \in Carts
      PROVE  /\ cart'[k] \in Cart /\ cart'[k].is = cart[k].is /\ cart'[k].who = cart[k].who
             /\ cart'[k].lines = cart[k].lines \ {o}
  <2>1. cart[k] \in Cart
    BY DEF Shapes
  <2>2. cart'[k] = [cart[k] EXCEPT !.lines = cart[k].lines \ {o}]
    BY <1>2
  <2> QED
    BY <2>1, <2>2 DEF Cart
<1>6. cart' \in [Carts -> Cart]
  BY <1>2, <1>5
<1>7. desk' \in [Desks -> Desk] /\ \A e \in Desks : desk'[e] = desk[e] \/ desk'[e] = Idle
  BY <1>2, IdleIsRequest, OneDesk
<1>8. Shapes'
  BY <1>2, <1>4, <1>6, <1>7 DEF Shapes
<1>9. \A p \in Orders : OnBooks(p)' => p # o /\ OnBooks(p) /\ ord'[p] = ord[p]
  BY <1>4 DEF OnBooks
<1>10. BlendsOwned' /\ IntakesOwned'
  BY <1>2 DEF BlendsOwned, IntakesOwned, Here
<1>11. OrdersOwned'
  BY <1>2, <1>9 DEF OrdersOwned, Here
<1>12. CartsOwned'
  <2> SUFFICES ASSUME NEW k \in Carts, Standing(k)'
               PROVE  /\ cart[k].who \in Customers /\ Here(cart[k].who)
                      /\ \A p \in cart[k].lines \ {o} : OnBooks(p)' /\ ord'[p].who = cart[k].who
    BY <1>2, <1>5 DEF CartsOwned, Here
  <2>1. /\ cart[k].who \in Customers /\ Here(cart[k].who)
        /\ \A p \in cart[k].lines : p \in Orders /\ OnBooks(p) /\ ord[p].who = cart[k].who
    BY <1>5, Rows DEF CartsOwned, Standing
  <2> QED
    BY <1>4, <2>1 DEF OnBooks
<1>13. LinesOnce'
  <2> SUFFICES ASSUME NEW k \in Carts, NEW l \in Carts, Standing(k)', Standing(l)',
                      NEW p \in cart'[k].lines, p \in cart'[l].lines
               PROVE  k = l
    BY DEF LinesOnce
  <2> QED
    BY <1>5 DEF LinesOnce, Standing
<1>14. KeyOnFile' /\ RecordedOnce'
  BY <1>2, <1>9 DEF KeyOnFile, RecordedOnce
<1>15. BlendIsTheirs'
  BY <1>2, <1>9 DEF BlendIsTheirs
<1>16. Seen'
  <2>1. BlendsSettle
    BY <1>2 DEF BlendsSettle
  <2>2. CartsSettle
    BY <1>5 DEF CartsSettle
  <2> QED
    BY <1>7, <2>1, <2>2, SeenStays
<1> QED
  BY <1>8, <1>10, <1>11, <1>12, <1>13, <1>14, <1>15, <1>16

-----------------------------------------------------------------------------
LEMMA NextBar == BarInv /\ [Next]_vars => BarInv'
<1> SUFFICES ASSUME BarInv, [Next]_vars PROVE BarInv'
  OBVIOUS
<1>1. CASE UNCHANGED vars
  <2>1. desk' \in [Desks -> Desk]
    BY <1>1 DEF vars, BarInv, Shapes
  <2>2. Seen'
    BY <1>1 DEF vars, BarInv, Seen
  <2> QED
    BY <1>1, <2>1, <2>2, LookStep DEF vars
<1>2. ASSUME NEW d \in Desks, Refused(d) PROVE BarInv'
  BY <1>2, RefusedBar
<1>3. ASSUME NEW d \in Desks, DeleteCustomer(d) PROVE BarInv'
  BY <1>3, DeleteCustomerBar
<1>4. ASSUME NEW d \in Desks, DeleteBlend(d) PROVE BarInv'
  BY <1>4, DeleteBlendBar
<1>5. ASSUME NEW d \in Desks, DeleteOrder(d) PROVE BarInv'
  BY <1>5, DeleteOrderBar
<1>6. ASSUME NEW d \in Desks, NEW key \in Keys, NEW email \in Emails, NEW wants \in SUBSET Wanted,
             StartIntake(d, key, email, wants)
      PROVE  BarInv'
  BY <1>6, StartIntakeBar
<1>7. ASSUME NEW d \in Desks, NEW c \in Customers, NEW m \in Blends,
             NEW os \in [desk[d].wants -> Orders], RecordIntake(d, c, m, os)
      PROVE  BarInv'
  BY <1>7, RecordIntakeBar
<1>8. ASSUME NEW d \in Desks, NEW c \in Customers, StartDeleteCustomer(d, c) PROVE BarInv'
  BY <1>8, StartDeleteCustomerBar
<1>9. ASSUME NEW d \in Desks, NEW c \in Customers, NEW of \in Blends \union {House},
             StartReorder(d, c, of)
      PROVE  BarInv'
  BY <1>9, StartReorderBar
<1>10. ASSUME NEW d \in Desks, NEW m \in Blends, StartDeleteBlend(d, m) PROVE BarInv'
  BY <1>10, StartDeleteBlendBar
<1>11. ASSUME NEW d \in Desks, NEW o \in Orders, Reorder(d, o) PROVE BarInv'
  BY <1>11, ReorderBar
<1>12. ASSUME NEW d \in Desks, NEW o \in Orders, StartDeleteOrder(d, o) PROVE BarInv'
  BY <1>12, StartDeleteOrderBar
<1>13. ASSUME NEW k \in Carts, Pay(k) PROVE BarInv'
  BY <1>13, PayBar
<1>14. ASSUME NEW k \in Carts, Refund(k) PROVE BarInv'
  BY <1>14, RefundBar
<1>15. ASSUME NEW k \in Carts, Cancel(k) PROVE BarInv'
  BY <1>15, RefundBar
<1>16. ASSUME NEW k \in Carts, Name(k) PROVE BarInv'
  BY <1>16, RefundBar
<1>17. ASSUME NEW k \in Carts, NEW c \in Customers, NEW os \in SUBSET Orders, MakeCart(k, c, os)
       PROVE  BarInv'
  BY <1>17, MakeCartBar
<1>18. ASSUME NEW o \in Orders, NEW status \in {"lead", "paid", "fulfilled"}, SetStatus(o, status)
       PROVE  BarInv'
  BY <1>18, SetStatusBar
<1> QED
  BY <1>1, <1>2, <1>3, <1>4, <1>5, <1>6, <1>7, <1>8, <1>9, <1>10, <1>11, <1>12, <1>13, <1>14,
     <1>15, <1>16, <1>17, <1>18 DEF Next

\* An order is claimed by no cart, or by the one that claims it.
LEMMA ClaimedOnce ==
    ASSUME BarInv, NEW o \in Orders
    PROVE  Cardinality(Claims(o)) <= 1
<1>1. CASE Claims(o) = {}
  BY <1>1, FS_EmptySet
<1>2. ASSUME NEW k \in Claims(o) PROVE Cardinality(Claims(o)) = 1
  <2>1. Claims(o) = {k}
    BY <1>2 DEF Claims, BarInv, LinesOnce
  <2> QED
    BY <2>1, FS_Singleton
<1> QED
  BY <1>1, <1>2

\* What a step does to a cart that money has touched.
Kept(k) == k \in Money' /\ cart[k].lines \subseteq cart'[k].lines

\* No step but a deletion takes anything from such a cart.
LEMMA SalesKeep ==
    ASSUME BarInv, NEW k \in Money,
           \/ UNCHANGED cart
           \/ \E l \in Carts : \/ Pay(l) \/ Refund(l) \/ Cancel(l) \/ Name(l)
                               \/ \E c \in Customers, os \in SUBSET Orders : MakeCart(l, c, os)
    PROVE  Kept(k)
<1>1. k \in Carts /\ cart[k].is \in {"paid", "refunded"} /\ cart[k] \in Cart
  BY DEF Money, BarInv, Shapes
<1>2. CASE cart'[k] = cart[k]
  BY <1>1, <1>2 DEF Kept, Money
<1>3. ASSUME NEW l \in Carts, Pay(l) PROVE Kept(k)
  BY <1>1, <1>2, <1>3 DEF Pay, BarInv, Shapes
<1>4. ASSUME NEW l \in Carts, Refund(l) PROVE Kept(k)
  <2>1. CASE l = k
    <3>1. cart'[k] = [cart[k] EXCEPT !.is = "refunded"]
      BY <1>4, <2>1 DEF Refund, BarInv, Shapes
    <3>2. cart'[k].is = "refunded" /\ cart'[k].lines = cart[k].lines
      BY <1>1, <3>1 DEF Cart
    <3> QED
      BY <1>1, <3>2 DEF Kept, Money
  <2> QED
    BY <1>1, <1>2, <1>4, <2>1 DEF Refund, BarInv, Shapes
<1>5. ASSUME NEW l \in Carts, Cancel(l) PROVE Kept(k)
  BY <1>1, <1>2, <1>5 DEF Cancel, BarInv, Shapes
<1>6. ASSUME NEW l \in Carts, Name(l) PROVE Kept(k)
  <2>1. CASE l = k
    <3>1. cart'[k] = [cart[k] EXCEPT !.named = TRUE]
      BY <1>6, <2>1 DEF Name, BarInv, Shapes
    <3>2. cart'[k].is = cart[k].is /\ cart'[k].lines = cart[k].lines
      BY <1>1, <3>1 DEF Cart
    <3> QED
      BY <1>1, <3>2 DEF Kept, Money
  <2> QED
    BY <1>1, <1>2, <1>6, <2>1 DEF Name, BarInv, Shapes
<1>7. ASSUME NEW l \in Carts, NEW c \in Customers, NEW os \in SUBSET Orders, MakeCart(l, c, os)
      PROVE  Kept(k)
  BY <1>1, <1>2, <1>7 DEF MakeCart, BarInv, Shapes
<1> QED
  BY <1>2, <1>3, <1>4, <1>5, <1>6, <1>7

\* A deletion takes only what was paid for after its look.
LEMMA DeletionsKeep ==
    ASSUME BarInv, NEW k \in Money, NEW d \in Desks, DeleteCustomer(d) \/ DeleteOrder(d)
    PROVE  Kept(k) \/ PaidSince(k)
<1>1. k \in Carts /\ cart[k].is \in {"paid", "refunded"} /\ cart[k] \in Cart /\ desk[d] \in Desk
  BY DEF Money, BarInv, Shapes
<1>2. desk'[d] = Idle
  BY DEF DeleteCustomer, DeleteOrder, Done, BarInv, Shapes
<1>3. CASE DeleteCustomer(d)
  <2>1. CASE cart[k].who = desk[d].c
    <3>1. k \notin desk[d].paid /\ desk[d].pc = "delete customer"
      BY <1>3, <2>1 DEF BarInv, Seen, DeleteCustomer
    <3> QED
      BY <1>2, <3>1 DEF PaidSince
  <2>2. CASE cart[k].who # desk[d].c
    <3>1. cart'[k] = cart[k]
      BY <1>1, <1>3, <2>2 DEF DeleteCustomer
    <3> QED
      BY <1>1, <3>1 DEF Kept, Money
  <2> QED
    BY <2>1, <2>2
<1>4. CASE DeleteOrder(d)
  <2>1. CASE desk[d].o \in cart[k].lines
    <3>1. k \notin desk[d].paid /\ desk[d].pc = "delete order"
      BY <1>4, <2>1 DEF BarInv, Seen, DeleteOrder
    <3> QED
      BY <1>2, <3>1 DEF PaidSince
  <2>2. CASE desk[d].o \notin cart[k].lines
    <3>1. cart'[k] = [cart[k] EXCEPT !.lines = cart[k].lines \ {desk[d].o}]
      BY <1>1, <1>4 DEF DeleteOrder
    <3>2. cart'[k].is = cart[k].is /\ cart'[k].lines = cart[k].lines \ {desk[d].o}
      BY <1>1, <3>1 DEF Cart
    <3> QED
      BY <1>1, <2>2, <3>2 DEF Kept, Money
  <2> QED
    BY <2>1, <2>2
<1> QED
  BY <1>3, <1>4

LEMMA NextKeeps ==
    ASSUME BarInv, [Next]_vars, NEW k \in Money
    PROVE  Kept(k) \/ PaidSince(k)
<1>1. CASE UNCHANGED cart
  BY <1>1, SalesKeep
<1>2. ASSUME NEW d \in Desks, DeleteCustomer(d) \/ DeleteOrder(d) PROVE Kept(k) \/ PaidSince(k)
  BY <1>2, DeletionsKeep
<1>3. CASE \E l \in Carts : \/ Pay(l) \/ Refund(l) \/ Cancel(l) \/ Name(l)
                            \/ \E c \in Customers, os \in SUBSET Orders : MakeCart(l, c, os)
  BY <1>3, SalesKeep
<1>4. CASE UNCHANGED vars
  BY <1>1, <1>4 DEF vars
<1>5. ASSUME NEW d \in Desks, Refused(d) \/ DeleteBlend(d) PROVE Kept(k) \/ PaidSince(k)
  BY <1>1, <1>5 DEF Refused, DeleteBlend
<1>6. ASSUME NEW d \in Desks, NEW key \in Keys, NEW email \in Emails, NEW wants \in SUBSET Wanted,
             StartIntake(d, key, email, wants)
      PROVE  Kept(k) \/ PaidSince(k)
  BY <1>1, <1>6 DEF StartIntake, Starts
<1>7. ASSUME NEW d \in Desks, NEW c \in Customers, NEW m \in Blends,
             NEW os \in [desk[d].wants -> Orders], RecordIntake(d, c, m, os)
      PROVE  Kept(k) \/ PaidSince(k)
  BY <1>1, <1>7 DEF RecordIntake
<1>8. ASSUME NEW d \in Desks, NEW c \in Customers,
             StartDeleteCustomer(d, c) \/ \E of \in Blends \union {House} : StartReorder(d, c, of)
      PROVE  Kept(k) \/ PaidSince(k)
  BY <1>1, <1>8 DEF StartDeleteCustomer, StartReorder, Starts
<1>9. ASSUME NEW d \in Desks, NEW m \in Blends, StartDeleteBlend(d, m) PROVE Kept(k) \/ PaidSince(k)
  BY <1>1, <1>9 DEF StartDeleteBlend, Starts
<1>10. ASSUME NEW d \in Desks, NEW o \in Orders, Reorder(d, o) \/ StartDeleteOrder(d, o)
       PROVE  Kept(k) \/ PaidSince(k)
  BY <1>1, <1>10 DEF Reorder, StartDeleteOrder, Starts
<1>11. ASSUME NEW o \in Orders, NEW status \in {"lead", "paid", "fulfilled"}, SetStatus(o, status)
       PROVE  Kept(k) \/ PaidSince(k)
  BY <1>1, <1>11 DEF SetStatus
<1> QED
  BY <1>2, <1>3, <1>4, <1>5, <1>6, <1>7, <1>8, <1>9, <1>10, <1>11 DEF Next

\* Everything below rests on this invariant.
THEOREM BarInvariant == Spec => []BarInv
BY InitBar, NextBar, PTL DEF Spec

\* The types of the books, and what the foreign keys and carts::create keep: no
\* row names one that is gone, and no order is on the lines of two carts.
THEOREM BooksAreWhole == Spec => []TypeOK
<1>1. BarInv => TypeOK
  BY ClaimedOnce DEF BarInv, Shapes, BlendsOwned, OrdersOwned, CartsOwned, IntakesOwned, TypeOK
<1> QED
  BY <1>1, BarInvariant, PTL

\* However deletions overlap with orders placed again from the portal, the blend
\* of an order is on file and its customer's (delete_mix, reorder).
THEOREM BlendStaysTheirs == Spec => []BlendIsTheirs
<1>1. BarInv => BlendIsTheirs
  BY DEF BarInv
<1> QED
  BY <1>1, BarInvariant, PTL

\* However often an intake is sent, and though customers are deleted in between,
\* the orders under one key are of one request (intake.rs).
THEOREM DoubleTapRecordsOnce == Spec => []RecordedOnce
<1>1. BarInv => RecordedOnce
  BY DEF BarInv
<1> QED
  BY <1>1, BarInvariant, PTL

\* A deletion takes nothing that was paid for when it looked (deletions.rs: impact).
THEOREM DeletionsKeepSales == Spec => PaidIsKept
<1>1. BarInv /\ [Next]_vars =>
        [\A k \in Money : \/ k \in Money' /\ cart[k].lines \subseteq cart'[k].lines
                          \/ PaidSince(k)]_vars
  BY NextKeeps DEF Kept
<1> QED
  BY <1>1, BarInvariant, PTL DEF Spec, PaidIsKept

=============================================================================
