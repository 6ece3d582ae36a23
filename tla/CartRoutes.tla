----------------------------- MODULE CartRoutes -----------------------------
(***************************************************************************)
(* The routes that build a cart and send it to a payment link: staff in    *)
(* src/api/src/routes/carts.rs, the share page in routes/public.rs and the *)
(* online shop in routes/shop.rs; and marking an order ready in            *)
(* routes/orders.rs.                                                       *)
(***************************************************************************)
EXTENDS Billing

Origin == {"staff", "public_share", "public_shop"}

CartJob ==
    [pc : {"create_link"}, c : Carts, by : Origin]
    \union [pc : {"write_link"}, c : Carts]
    \union [pc : {"fulfil"}, o : Orders]

\* Mutants of InsertCart: the unique index is missing, or a conflict moves the
\* blend to the new cart.
InsertCartUnchecked(c, os) ==
    /\ cart[c].status = "none"
    /\ UpdateCart(c, [NoCart EXCEPT !.status = "open"])
    /\ lines' = [lines EXCEPT ![c] = os]
    /\ claims' = [claims EXCEPT ![c] = os]
InsertCartSteals(c, os) ==
    /\ cart[c].status = "none"
    /\ UpdateCart(c, [NoCart EXCEPT !.status = "open"])
    /\ lines' = [lines EXCEPT ![c] = os]
    /\ claims' = [d \in Carts |-> IF d = c THEN os ELSE claims[d] \ os]

\* Insert a cart row and its lines; the unique index on cart_items.order_id
\* refuses an order another cart still claims.
InsertCart(c, os) ==
    /\ cart[c].status = "none"
    /\ os \intersect Claimed = {}
    /\ UpdateCart(c, [NoCart EXCEPT !.status = "open"])
    /\ lines' = [lines EXCEPT ![c] = os]
    /\ claims' = [claims EXCEPT ![c] = os]

-----------------------------------------------------------------------------
\* carts::create, for orders that exist, whatever their status.  A conflict
\* on a line rolls the whole cart back.
Create(h, c, os) ==
    /\ IsIdle(h)
    /\ \A o \in os : ord[o] # "none"
    /\ InsertCart(c, os)
    /\ UNCHANGED <<square, ord, job>>

\* public::checkout and shop::checkout: one transaction inserts the orders
\* and the cart that sells them; then the link is created.
CreatePublic(h, c, os, by) ==
    /\ IsIdle(h)
    /\ by # "staff"
    /\ os # {}
    /\ os \subseteq Public
    /\ \A o \in os : ord[o] = "none"
    /\ InsertCart(c, os)
    /\ ord' = [o \in Orders |-> IF o \in os THEN "lead" ELSE ord[o]]
    /\ Goto(h, [pc |-> "create_link", c |-> c, by |-> by])
    /\ UNCHANGED square

\* carts::checkout reads the cart without a lock.  A cart already sent gets
\* its link back and changes nothing; any other is refused unless open.
Checkout(h, c) ==
    /\ IsIdle(h)
    /\ cart[c].status = "open"
    /\ Goto(h, [pc |-> "create_link", c |-> c, by |-> "staff"])
    /\ UNCHANGED <<square, database>>

CreateLink(h) ==
    /\ At(h, "create_link")
    /\ CreateCheckout(job[h].c)
    /\ Goto(h, [pc |-> "write_link", c |-> job[h].c])
    /\ UNCHANGED database

\* Square refused or did not answer: only the shop unwinds its cart.  The
\* link may exist all the same.
CreateLinkFails(h) ==
    /\ At(h, "create_link")
    /\ job[h].by = "public_shop"
    /\ \/ CreateCheckout(job[h].c)
       \/ UNCHANGED square
    /\ Goto(h, [pc |-> "cancel_read", c |-> job[h].c])
    /\ UNCHANGED database

\* update carts set status = 'pending_payment', ... where id = $1
WriteLink(h) ==
    /\ At(h, "write_link")
    /\ UpdateCart(job[h].c, [cart[job[h].c] EXCEPT !.status = "pending_payment",
                                !.method = "link", !.sq = "link", !.url = TRUE])
    /\ Finish(h)
    /\ UNCHANGED <<square, lines, claims, ord>>

-----------------------------------------------------------------------------
\* carts::refresh, for a cart that has been sent to Square.
Refresh(h, c) ==
    /\ IsIdle(h)
    /\ cart[c].sq # NoOrder
    /\ Goto(h, [pc |-> "fetch", c |-> c, k |-> cart[c].sq, ev |-> NoEvent])
    /\ UNCHANGED <<square, database>>

-----------------------------------------------------------------------------
\* orders::fulfil reads the status, then writes without looking again.
Fulfil(h, o) ==
    /\ IsIdle(h)
    /\ ord[o] \in {"paid", "fulfilled"}
    /\ Goto(h, [pc |-> "fulfil", o |-> o])
    /\ UNCHANGED <<square, database>>

WriteFulfilled(h) ==
    /\ At(h, "fulfil")
    /\ ord' = [ord EXCEPT ![job[h].o] = IF @ = "none" THEN @ ELSE "fulfilled"]
    /\ Finish(h)
    /\ UNCHANGED <<square, cart, lines, claims>>

CartStep(h) ==
    \/ CreateLink(h) \/ CreateLinkFails(h) \/ WriteLink(h)
    \/ WriteFulfilled(h)
=============================================================================
