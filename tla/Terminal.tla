------------------------------ MODULE Terminal ------------------------------
(***************************************************************************)
(* Charging a cart on a Square Terminal: charge, status (the poll), cancel *)
(* and sync_checkout in src/api/src/routes/terminal.rs.                    *)
(***************************************************************************)
EXTENDS CartRoutes

CONSTANT Paired     \* whether a Terminal is paired with the account

TerminalJob ==
    [pc : {"create_order"}, c : Carts, tc : 0..MaxTC]
    \union [pc : {"write_order"}, c : Carts, tc : 0..MaxTC]
    \union [pc : {"send"}, c : Carts, tc : 0..MaxTC]
    \union [pc : {"cancel_checkout"}, c : Carts, tc : Attempt]
    \union [pc : {"get_checkout"}, c : Carts, tc : Attempt, ev : EventOrNone]
    \union [pc : {"record"}, c : Carts, tc : Attempt, tstat : TerminalStatus \union {"none"},
            ev : EventOrNone, sync : BOOLEAN]

\* Neither on the device now nor sent as a payment link.
Chargeable(c) ==
    \/ cart[c].status = "open"
    \/ /\ cart[c].status = "pending_payment"
       /\ cart[c].method = "terminal"
       /\ ~is_active_terminal_status(cart[c].tstat)

-----------------------------------------------------------------------------
\* charge reads the cart without a lock; the previous checkout it saw decides
\* the idempotency key, and the order it saw is reused.
Charge(h, c) ==
    /\ IsIdle(h)
    /\ Paired
    /\ Chargeable(c)
    /\ Goto(h, [pc |-> IF cart[c].sq = NoOrder THEN "create_order" ELSE "send",
                c |-> c, tc |-> cart[c].tc])
    /\ UNCHANGED <<square, database>>

\* POST /v2/orders is idempotent and the order it makes has nothing else to
\* say, so Square's side of it has no variable.
CreateOrder(h) ==
    /\ At(h, "create_order")
    /\ Goto(h, [pc |-> "write_order", c |-> job[h].c, tc |-> job[h].tc])
    /\ UNCHANGED <<square, database>>

\* update carts set status = 'pending_payment', ... where id = $1
WriteOrder(h) ==
    /\ At(h, "write_order")
    /\ UpdateCart(job[h].c, [cart[job[h].c] EXCEPT !.status = "pending_payment",
                                !.method = "terminal", !.sq = "order"])
    /\ Goto(h, [pc |-> "send", c |-> job[h].c, tc |-> job[h].tc])
    /\ UNCHANGED <<square, lines, claims, ord>>

\* The key names the previous checkout, so the next number names this one.
SendCheckout(h) ==
    LET c == job[h].c
        n == job[h].tc + 1
    IN /\ At(h, "send")
       /\ n \in Attempt
       /\ CanSend(c, n)
       /\ CreateTerminalCheckout(c, n)
       /\ Goto(h, [pc |-> "record", c |-> c, tc |-> n, tstat |-> tco'[c][n],
                   ev |-> NoEvent, sync |-> FALSE])
       /\ UNCHANGED database

\* record_checkout, and for sync_checkout the payments the checkout lists.
RecordCheckout(h) ==
    LET c == job[h].c
        paid == job[h].sync /\ job[h].tstat = "COMPLETED"
    IN /\ At(h, "record")
       /\ UpdateCart(c, [cart[c] EXCEPT !.tc = job[h].tc, !.tstat = job[h].tstat])
       /\ IF paid
          THEN Goto(h, [pc |-> "fetch", c |-> c, k |-> "order", ev |-> job[h].ev])
          ELSE Done(h, job[h].ev, TRUE)
       /\ UNCHANGED <<square, lines, claims, ord>>

-----------------------------------------------------------------------------
\* status: the checkout screen polls a pending cart that has a checkout out.
\* sync_checkout then looks the checkout up in the carts and asks Square.
Status(h, c) ==
    /\ IsIdle(h)
    /\ cart[c].status = "pending_payment"
    /\ cart[c].tc # 0
    /\ Goto(h, [pc |-> "get_checkout", c |-> c, tc |-> cart[c].tc, ev |-> NoEvent])
    /\ UNCHANGED <<square, database>>

GetCheckout(h) ==
    /\ At(h, "get_checkout")
    /\ Goto(h, [pc |-> "record", c |-> job[h].c, tc |-> job[h].tc,
                tstat |-> tco[job[h].c][job[h].tc], ev |-> job[h].ev, sync |-> TRUE])
    /\ UNCHANGED <<square, database>>

-----------------------------------------------------------------------------
\* cancel: take the checkout off the Terminal, leaving the cart as it is.
CancelCheckout(h, c) ==
    /\ IsIdle(h)
    /\ cart[c].tc # 0
    /\ Goto(h, [pc |-> "cancel_checkout", c |-> c, tc |-> cart[c].tc])
    /\ UNCHANGED <<square, database>>

\* A refusal (400) means it is too late: pull the real state in, provided a
\* cart still names the checkout.
CancelCall(h) ==
    LET c == job[h].c
        n == job[h].tc
    IN /\ At(h, "cancel_checkout")
       /\ \/ /\ CanCancel(c, n)
             /\ \E s \in TerminalStatus :
                   /\ CancelTerminalCheckout(c, n, s)
                   /\ Goto(h, [pc |-> "record", c |-> c, tc |-> n, tstat |-> s,
                               ev |-> NoEvent, sync |-> FALSE])
          \/ /\ ~CanCancel(c, n)
             /\ Goto(h, IF cart[c].tc = n
                        THEN [pc |-> "get_checkout", c |-> c, tc |-> n, ev |-> NoEvent]
                        ELSE Idle)
             /\ UNCHANGED square
       /\ UNCHANGED database

TerminalStep(h) ==
    \/ CreateOrder(h) \/ WriteOrder(h) \/ SendCheckout(h) \/ RecordCheckout(h)
    \/ GetCheckout(h) \/ CancelCall(h)
=============================================================================
