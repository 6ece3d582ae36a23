---------------------------------- MODULE Bar ----------------------------------
(***************************************************************************)
(* The books of the bar: customers, their blends and their orders.         *)
(* Staff take them in (src/api/src/routes/intake.rs), customers order      *)
(* again from the portal (routes/customer_portal.rs), carts sell the       *)
(* orders, and admins delete (routes/deletions.rs).                        *)
(*                                                                         *)
(* A request looks first and writes afterwards, in one transaction; other  *)
(* requests run between the two.  Row ids are never used again.  The       *)
(* foreign keys have no cascade: a transaction they refuse changes         *)
(* nothing.                                                                *)
(***************************************************************************)
EXTENDS Naturals, FiniteSets

CONSTANTS
    Customers, Blends, Orders, Carts,   \* bounds: the row ids that may ever be used
    Emails,
    Keys,       \* idempotency keys of the intake form
    Desks,      \* requests at a time
    House,      \* a house scent
    None

ASSUME NoneAssumption ==
    /\ None \notin Customers \union Blends \union Emails \union Keys \union Desks
    /\ House \notin Blends \union {None}

VARIABLES
    customer,   \* customer[c]: the row in customers
    blend,      \* blend[m]: the row in mixes
    ord,        \* ord[o]: the row in orders
    cart,       \* cart[k]: the row in carts, with the orders on its lines
    intake,     \* intake[k]: the customer the intake with that key is for
    desk        \* desk[d]: a request, and what it has seen

vars == <<customer, blend, ord, cart, intake, desk>>

Life == {"none", "here", "gone"}
Wanted == {"blend", "house"}
Customer == [is : Life, email : Emails \union {None}]
Blend == [is : Life, who : Customers \union {None}]
Order ==
    [is : {"none", "lead", "paid", "fulfilled", "gone"}, who : Customers \union {None},
     of : Blends \union {House, None}, key : Keys \union {None}, by : Desks \union {None}]
Cart ==
    [is : {"none", "open", "paid", "refunded", "canceled", "gone"},
     who : Customers \union {None}, lines : SUBSET Orders, named : BOOLEAN]
Desk ==
    [pc : {"idle"}]
    \union [pc : {"intake"}, key : Keys, email : Emails, wants : SUBSET Wanted]
    \union [pc : {"reorder"}, c : Customers, of : Blends \union {House}]
    \union [pc : {"delete customer"}, c : Customers, paid : SUBSET Carts]
    \union [pc : {"delete blend"}, m : Blends]
    \union [pc : {"delete order"}, o : Orders, paid : SUBSET Carts]

NoCustomer == [is |-> "none", email |-> None]
NoBlend == [is |-> "none", who |-> None]
NoOrder == [is |-> "none", who |-> None, of |-> None, key |-> None, by |-> None]
NoCart == [is |-> "none", who |-> None, lines |-> {}, named |-> FALSE]
Idle == [pc |-> "idle"]

Here(c) == customer[c].is = "here"
OnBooks(o) == ord[o].is \in {"lead", "paid", "fulfilled"}
Standing(k) == cart[k].is \notin {"none", "gone"}
Uses(m) == {o \in Orders : OnBooks(o) /\ ord[o].of = m}
Claims(o) == {k \in Carts : Standing(k) /\ o \in cart[k].lines}

\* Carts that money has touched.
Money == {k \in Carts : cart[k].is \in {"paid", "refunded"}}

\* Mutant of Sold: a cart that was refunded does not count.
SoldNotRefunded(k) == cart[k].is = "paid"

\* What the deletions look for.
Sold(k) == cart[k].is \in {"paid", "refunded"}

\* Types, and what the keys keep: no row names one that is gone, and an order is
\* on the lines of one cart at most, of its own customer.
TypeOK ==
    /\ customer \in [Customers -> Customer]
    /\ blend \in [Blends -> Blend]
    /\ ord \in [Orders -> Order]
    /\ cart \in [Carts -> Cart]
    /\ intake \in [Keys -> Customers \union {None}]
    /\ desk \in [Desks -> Desk]
    /\ \A m \in Blends : blend[m].is = "here" => Here(blend[m].who)
    /\ \A o \in Orders : OnBooks(o) => Here(ord[o].who) /\ Cardinality(Claims(o)) <= 1
    /\ \A k \in Carts : Standing(k) =>
         Here(cart[k].who) /\ \A o \in cart[k].lines : OnBooks(o) /\ ord[o].who = cart[k].who
    /\ \A key \in Keys : intake[key] # None => Here(intake[key])

Init ==
    /\ customer = [c \in Customers |-> NoCustomer]
    /\ blend = [m \in Blends |-> NoBlend]
    /\ ord = [o \in Orders |-> NoOrder]
    /\ cart = [k \in Carts |-> NoCart]
    /\ intake = [key \in Keys |-> None]
    /\ desk = [d \in Desks |-> Idle]

Starts(d, req) ==
    /\ desk[d] = Idle
    /\ desk' = [desk EXCEPT ![d] = req]
    /\ UNCHANGED <<customer, blend, ord, cart, intake>>
Done(d) == desk' = [desk EXCEPT ![d] = Idle]

\* The request fails, its connection is lost or the server restarts; what it
\* would have written is rolled back.
Refused(d) ==
    /\ desk[d] # Idle
    /\ Done(d)
    /\ UNCHANGED <<customer, blend, ord, cart, intake>>

-----------------------------------------------------------------------------
(* Intake.                                                                 *)

\* A key that is on the books is answered with what it recorded then.
StartIntake(d, key, email, wants) ==
    /\ wants # {}
    /\ intake[key] = None
    /\ Starts(d, [pc |-> "intake", key |-> key, email |-> email, wants |-> wants])

\* The customer with that email, or a new row.
Upserts(email, c) ==
    \/ Here(c) /\ customer[c].email = email
    \/ /\ customer[c].is = "none"
       /\ \A e \in Customers : Here(e) => customer[e].email # email

\* Mutant of KeyIsFree: nothing but the look at the start stops a double tap.
KeyNotChecked(key) == TRUE

\* intakes.idempotency_key is unique.
KeyIsFree(key) == intake[key] = None

\* The transaction: the customer, the intake, a blend m for a custom order, and
\* an order for each line; os gives each line its row.
RecordIntake(d, c, m, os) ==
    /\ desk[d].pc = "intake"
    /\ LET req == desk[d]
           new(w) == [is |-> "lead", who |-> c, of |-> IF w = "blend" THEN m ELSE House,
                      key |-> req.key, by |-> d]
       IN /\ KeyIsFree(req.key)
          /\ Upserts(req.email, c)
          /\ os \in [req.wants -> Orders]
          /\ \A w, x \in req.wants : ord[os[w]].is = "none" /\ (os[w] = os[x] => w = x)
          /\ "blend" \in req.wants => blend[m].is = "none"
          /\ customer' = [customer EXCEPT ![c] = [is |-> "here", email |-> req.email]]
          /\ blend' = IF "blend" \in req.wants
                      THEN [blend EXCEPT ![m] = [is |-> "here", who |-> c]] ELSE blend
          /\ ord' = [o \in Orders |-> IF \E w \in req.wants : os[w] = o
                                      THEN new(CHOOSE w \in req.wants : os[w] = o) ELSE ord[o]]
          /\ intake' = [intake EXCEPT ![req.key] = c]
          /\ Done(d)
          /\ UNCHANGED cart

-----------------------------------------------------------------------------
(* The portal.                                                             *)

\* reorder: a blend of theirs, or a house scent they have ordered.
MayReorder(c, of) ==
    IF of = House THEN \E o \in Orders : OnBooks(o) /\ ord[o].who = c /\ ord[o].of = House
    ELSE blend[of].is = "here" /\ blend[of].who = c

StartReorder(d, c, of) ==
    /\ Here(c)
    /\ MayReorder(c, of)
    /\ Starts(d, [pc |-> "reorder", c |-> c, of |-> of])

\* Mutant of StillThere: orders.mix_id has no key.
StillThereUnkeyed(req) == Here(req.c)

\* The keys of the new order.
StillThere(req) == Here(req.c) /\ (req.of # House => blend[req.of].is = "here")

Reorder(d, o) ==
    /\ desk[d].pc = "reorder"
    /\ StillThere(desk[d])
    /\ ord[o].is = "none"
    /\ ord' = [ord EXCEPT ![o] =
         [NoOrder EXCEPT !.is = "lead", !.who = desk[d].c, !.of = desk[d].of]]
    /\ Done(d)
    /\ UNCHANGED <<customer, blend, cart, intake>>

-----------------------------------------------------------------------------
(* Carts, as far as the deletions depend on them; Settlement has the rest. *)

\* An order of the customer that no cart claims.
MaySell(o, c) == OnBooks(o) /\ ord[o].who = c /\ Claims(o) = {}

\* carts::create.
MakeCart(k, c, os) ==
    /\ cart[k].is = "none"
    /\ Here(c)
    /\ \A o \in os : MaySell(o, c)
    /\ cart' = [cart EXCEPT ![k] = [NoCart EXCEPT !.is = "open", !.who = c, !.lines = os]]
    /\ UNCHANGED <<customer, blend, ord, intake, desk>>

\* apply_payment; a canceled cart may still be paid.
Pay(k) ==
    /\ cart[k].is \in {"open", "canceled"}
    /\ cart' = [cart EXCEPT ![k].is = "paid"]
    /\ ord' = [o \in Orders |->
         IF o \in cart[k].lines /\ ord[o].is = "lead" THEN [ord[o] EXCEPT !.is = "paid"] ELSE ord[o]]
    /\ UNCHANGED <<customer, blend, intake, desk>>

Refund(k) ==
    /\ cart[k].is = "paid"
    /\ cart' = [cart EXCEPT ![k].is = "refunded"]
    /\ UNCHANGED <<customer, blend, ord, intake, desk>>

\* cancel_cart takes the orders off its lines.
Cancel(k) ==
    /\ cart[k].is = "open"
    /\ cart' = [cart EXCEPT ![k].is = "canceled", ![k].lines = {}]
    /\ UNCHANGED <<customer, blend, ord, intake, desk>>

\* A webhook event, a coupon or a referral now names the cart.
Name(k) ==
    /\ Standing(k) /\ ~cart[k].named
    /\ cart' = [cart EXCEPT ![k].named = TRUE]
    /\ UNCHANGED <<customer, blend, ord, intake, desk>>

\* orders::update sets any status; fulfil only that of an order that was sold.
SetStatus(o, status) ==
    /\ OnBooks(o)
    /\ status \in {"lead", "paid", "fulfilled"} \ {ord[o].is}
    /\ ord' = [ord EXCEPT ![o].is = status]
    /\ UNCHANGED <<customer, blend, cart, intake, desk>>

-----------------------------------------------------------------------------
(* Deletions.                                                              *)

\* impact: refused while the customer has a cart that money has touched.
StartDeleteCustomer(d, c) ==
    /\ Here(c)
    /\ \A k \in Carts : Sold(k) => cart[k].who # c
    /\ Starts(d, [pc |-> "delete customer", c |-> c, paid |-> Money])

\* delete_customer takes everything of theirs; refused when something names a cart.
DeleteCustomer(d) ==
    /\ desk[d].pc = "delete customer"
    /\ LET c == desk[d].c
       IN /\ Here(c)
          /\ \A k \in Carts : Standing(k) /\ cart[k].who = c => ~cart[k].named
          /\ \A o \in Orders : OnBooks(o) /\ ord[o].who # c /\ ord[o].of # House => blend[ord[o].of].who # c
          /\ cart' = [k \in Carts |-> IF Standing(k) /\ cart[k].who = c
                                      THEN [NoCart EXCEPT !.is = "gone"] ELSE cart[k]]
          /\ ord' = [o \in Orders |-> IF OnBooks(o) /\ ord[o].who = c
                                      THEN [NoOrder EXCEPT !.is = "gone"] ELSE ord[o]]
          /\ blend' = [m \in Blends |-> IF blend[m].who = c
                                        THEN [NoBlend EXCEPT !.is = "gone"] ELSE blend[m]]
          /\ intake' = [key \in Keys |-> IF intake[key] = c THEN None ELSE intake[key]]
          /\ customer' = [customer EXCEPT ![c] = [NoCustomer EXCEPT !.is = "gone"]]
    /\ Done(d)

StartDeleteBlend(d, m) ==
    /\ blend[m].is = "here"
    /\ Uses(m) = {}
    /\ Starts(d, [pc |-> "delete blend", m |-> m])

\* delete_mix; an order placed meanwhile keeps the blend.
DeleteBlend(d) ==
    /\ desk[d].pc = "delete blend"
    /\ blend[desk[d].m].is = "here"
    /\ Uses(desk[d].m) = {}
    /\ blend' = [blend EXCEPT ![desk[d].m] = [NoBlend EXCEPT !.is = "gone"]]
    /\ Done(d)
    /\ UNCHANGED <<customer, ord, cart, intake>>

\* delete_order: refused unless it is a lead that no sold cart claims.
StartDeleteOrder(d, o) ==
    /\ ord[o].is = "lead"
    /\ \A k \in Claims(o) : ~Sold(k)
    /\ Starts(d, [pc |-> "delete order", o |-> o, paid |-> Money])

\* The transaction takes the order off its cart, whatever became of that cart.
DeleteOrder(d) ==
    /\ desk[d].pc = "delete order"
    /\ OnBooks(desk[d].o)
    /\ cart' = [k \in Carts |-> [cart[k] EXCEPT !.lines = @ \ {desk[d].o}]]
    /\ ord' = [ord EXCEPT ![desk[d].o] = [NoOrder EXCEPT !.is = "gone"]]
    /\ Done(d)
    /\ UNCHANGED <<customer, blend, intake>>

Next ==
    \/ \E d \in Desks :
         \/ Refused(d) \/ DeleteCustomer(d) \/ DeleteBlend(d) \/ DeleteOrder(d)
         \/ \E key \in Keys, email \in Emails, wants \in SUBSET Wanted :
              StartIntake(d, key, email, wants)
         \/ /\ desk[d].pc = "intake"
            /\ \E c \in Customers, m \in Blends, os \in [desk[d].wants -> Orders] :
                 RecordIntake(d, c, m, os)
         \/ \E c \in Customers :
              StartDeleteCustomer(d, c) \/ \E of \in Blends \union {House} : StartReorder(d, c, of)
         \/ \E m \in Blends : StartDeleteBlend(d, m)
         \/ \E o \in Orders : Reorder(d, o) \/ StartDeleteOrder(d, o)
    \/ \E k \in Carts :
         \/ Pay(k) \/ Refund(k) \/ Cancel(k) \/ Name(k)
         \/ \E c \in Customers, os \in SUBSET Orders : MakeCart(k, c, os)
    \/ \E o \in Orders, status \in {"lead", "paid", "fulfilled"} : SetStatus(o, status)

Spec == Init /\ [][Next]_vars

-----------------------------------------------------------------------------
(* Properties.                                                             *)

\* A custom order can be made up: its blend is on file, and is its customer's,
\* though blends are deleted while they are ordered again.
BlendIsTheirs ==
    \A o \in Orders : OnBooks(o) /\ ord[o].of # House =>
      blend[ord[o].of].is = "here" /\ blend[ord[o].of].who = ord[o].who

\* Whatever is tapped twice or sent again, the orders on the books for one key
\* were all recorded by one request (intake.rs: "what actually stops a double-tap
\* creating a second set of orders").
RecordedOnce ==
    \A o, p \in Orders : OnBooks(o) /\ OnBooks(p) /\ ord[o].key = ord[p].key /\ ord[o].key # None =>
      ord[o].by = ord[p].by

\* A deletion takes no cart, and no line of one, that money had touched when it
\* looked (deletions.rs: "nothing money has touched can be deleted").  One that
\* is paid between the look and the deletion is not safe.
PaidSince(k) == \E d \in Desks :
    desk[d].pc \in {"delete customer", "delete order"} /\ desk'[d] = Idle /\ k \notin desk[d].paid
PaidIsKept ==
    [][\A k \in Money :
         \/ k \in Money' /\ cart[k].lines \subseteq cart'[k].lines
         \/ PaidSince(k)]_vars
=============================================================================
