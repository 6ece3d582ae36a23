-------------------------- MODULE SettlementProofs --------------------------
(***************************************************************************)
(* Settlement, proved for every instance: its types; the double-billing    *)
(* guard, with the refinement of BlendClaims; that nothing is settled or   *)
(* sold without money, and that a blend handed over stays handed over; and *)
(* that what an event was filed as stays true, as long as no two requests  *)
(* send one cart at a time.                                                *)
(***************************************************************************)
EXTENDS Settlement, TLAPS

(***************************************************************************)
(* I.  Type correctness, and the facts about jobs that the rest cites.     *)
(***************************************************************************)

\* What a job carries, by the step it is at.
LEMMA JobFields ==
    ASSUME NEW j \in Job
    PROVE  /\ j.pc \in {"cancel_read", "cancel_tx", "void", "create_link", "write_link",
                        "create_order", "write_order", "send", "cancel_device", "write_cancel",
                        "fetch", "apply", "cancel_checkout", "get_checkout", "record"}
              => j.c \in Carts
           /\ j.pc \in {"cancel_device", "cancel_checkout", "get_checkout", "record"} => j.tc \in Attempt
           /\ j.pc \in {"create_order", "write_order", "send"} => j.tc \in 0..MaxTC
           /\ j.pc \in {"cancel_device", "write_cancel", "cancel_tx"} => j.url \in BOOLEAN
           /\ j.pc = "write_cancel" => j.tstat \in TerminalStatus
           /\ j.pc = "record" => j.tstat \in TerminalStatus \union {"none"}
           /\ j.pc \in {"fetch", "apply"} => j.k \in OrderKind
           /\ j.pc \in {"fetch", "apply", "get_checkout", "record"} => j.ev \in EventOrNone
           /\ j.pc \in {"settle", "upsert"} => j.ev \in Event
           /\ j.pc = "sync" => j.ev \in TerminalEvent
           /\ j.pc = "apply" => j.pay \in RemotePayment
           /\ j.pc = "fulfil" => j.o \in Orders
           /\ j.pc = "create_link" => j.by \in Origin
           /\ j.pc = "settle" => j.matched \in BOOLEAN
  BY DEF Job, Idle, BillingJob, CartJob, TerminalJob, WebhookJob

LEMMA GotoType ==
    ASSUME NEW h \in Handlers, NEW j \in Job,
           job \in [Handlers -> Job], Goto(h, j)
    PROVE  job' \in [Handlers -> Job]
  BY DEF Goto

LEMMA DoneType ==
    ASSUME NEW h \in Handlers, NEW ev \in EventOrNone, NEW b \in BOOLEAN,
           job \in [Handlers -> Job], Done(h, ev, b)
    PROVE  job' \in [Handlers -> Job]
  <1>1. ev # NoEvent => ev \in Event
    BY DEF EventOrNone
  <1>2. Idle \in Job
    BY DEF Job
  <1>3. ev # NoEvent => [pc |-> "settle", ev |-> ev, matched |-> b] \in Job
    BY <1>1 DEF Job, BillingJob
  <1>. QED
    BY <1>2, <1>3, GotoType DEF Done
-----------------------------------------------------------------------------
LEMMA InitTypeOK == Init => TypeOK
  <1>. SUFFICES ASSUME Init PROVE TypeOK
    OBVIOUS
  <1>1. SquareTypeOK
    BY TotalAssumption DEF Init, SquareInit, SquareTypeOK, LinkState, RemotePayment
  <1>2. DatabaseTypeOK
    BY TotalAssumption, MaxTCAssumption
    DEF Init, BillingInit, DatabaseTypeOK, Cart, NoCart, CartStatus, OrderStatus, SquareOrderId
  <1>3. job \in [Handlers -> Job]
    BY DEF Init, BillingInit, Job
  <1>4. WebhooksTypeOK
    BY DEF Init, WebhooksInit, WebhooksTypeOK, EventStatus
  <1>. QED
    BY <1>1, <1>2, <1>3, <1>4 DEF TypeOK

LEMMA CartType ==
    ASSUME DatabaseTypeOK, NEW c \in Carts, NEW row \in Cart, UpdateCart(c, row)
    PROVE  cart' \in [Carts -> Cart]
  BY DEF DatabaseTypeOK, UpdateCart

\* The updates of a row that are not settlements.
LEMMA RowType ==
    ASSUME NEW row \in Cart
    PROVE  /\ \A status \in CartStatus : [row EXCEPT !.status = status] \in Cart
           /\ \A s \in TerminalStatus : [row EXCEPT !.tstat = s] \in Cart
           /\ \A n \in Attempt, s \in TerminalStatus \union {"none"} :
                 [row EXCEPT !.tc = n, !.tstat = s] \in Cart
           /\ [row EXCEPT !.status = "pending_payment", !.method = "link", !.sq = "link",
                          !.url = TRUE] \in Cart
           /\ [row EXCEPT !.status = "pending_payment", !.method = "terminal", !.sq = "order"]
                 \in Cart
  <1>1. Attempt \subseteq 0..MaxTC
    BY MaxTCAssumption DEF Attempt
  <1>2. "link" \in SquareOrderId /\ "order" \in SquareOrderId /\ "pending_payment" \in CartStatus
    BY DEF SquareOrderId, OrderKind, CartStatus
  <1>. QED
    BY <1>1, <1>2 DEF Cart

LEMMA OrdersType ==
    ASSUME DatabaseTypeOK, NEW c \in Carts, NEW from \in OrderStatus, NEW to \in OrderStatus,
           MoveOrders(c, from, to)
    PROVE  ord' \in [Orders -> OrderStatus]
  BY DEF DatabaseTypeOK, MoveOrders

\* apply_payment, whatever the payment says.
LEMMA ApplyType ==
    ASSUME DatabaseTypeOK, NEW c \in Carts, NEW k \in OrderKind, NEW p \in RemotePayment,
           apply_payment(c, k, p)
    PROVE  DatabaseTypeOK'
  <1>1. cart[c] \in Cart /\ k \in SquareOrderId /\ "lead" \in OrderStatus /\ "paid" \in OrderStatus
    BY DEF DatabaseTypeOK, SquareOrderId, OrderStatus
  <1>2. CASE SettlePaid(c, k)
    <2>0. Total \in 0..Total
      BY TotalAssumption
    <2>1. [cart[c] EXCEPT !.status = "paid", !.paid = Total, !.payment = k] \in Cart
      BY <1>1, <2>0 DEF Cart, CartStatus
    <2>2. cart' \in [Carts -> Cart]
      BY <1>2, <2>1, CartType DEF SettlePaid
    <2>3. ord' \in [Orders -> OrderStatus]
      BY <1>1, <1>2, OrdersType DEF SettlePaid
    <2>. QED
      BY <2>2, <2>3 DEF apply_payment, DatabaseTypeOK
  <1>3. CASE SettleRefunded(c, k, p)
    <2>1. Total - p.refunded \in 0..Total
      BY TotalAssumption DEF RemotePayment
    <2>2. [cart[c] EXCEPT !.status = "refunded", !.paid = Total - p.refunded, !.payment = k]
            \in Cart
      BY <1>1, <2>1 DEF Cart, CartStatus
    <2>3. cart' \in [Carts -> Cart]
      BY <1>3, <2>2, CartType DEF SettleRefunded
    <2>4. ord' \in [Orders -> OrderStatus]
      BY <1>1, <1>3, OrdersType DEF SettleRefunded
    <2>. QED
      BY <2>3, <2>4 DEF apply_payment, DatabaseTypeOK
  <1>4. CASE NotePayment(c, k)
    <2>1. [cart[c] EXCEPT !.payment = IF @ = NoOrder THEN k ELSE @] \in Cart
      BY <1>1 DEF Cart
    <2>. QED
      BY <1>4, <2>1, CartType DEF NotePayment, apply_payment, DatabaseTypeOK
  <1>. QED
    BY <1>2, <1>3, <1>4 DEF apply_payment, DatabaseTypeOK
-----------------------------------------------------------------------------
\* Square's own side: calls, customers, devices and the dashboard.
LEMMA SquareCallsType ==
    ASSUME SquareTypeOK, NEW c \in Carts
    PROVE  /\ CreateCheckout(c) => SquareTypeOK'
           /\ VoidCheckout(c) => SquareTypeOK'
           /\ \A n \in Attempt : CreateTerminalCheckout(c, n) => SquareTypeOK'
           /\ \A n \in Attempt, s \in TerminalStatus :
                 CancelTerminalCheckout(c, n, s) => SquareTypeOK'
  <1>1. CreateCheckout(c) => SquareTypeOK'
    BY DEF SquareTypeOK, CreateCheckout, LinkState
  <1>2. VoidCheckout(c) => SquareTypeOK'
    BY DEF SquareTypeOK, VoidCheckout, LinkState
  <1>3. ASSUME NEW n \in Attempt, CreateTerminalCheckout(c, n) PROVE SquareTypeOK'
    BY <1>3 DEF SquareTypeOK, CreateTerminalCheckout, TerminalStatus, ActiveStatus
  <1>4. ASSUME NEW n \in Attempt, NEW s \in TerminalStatus, CancelTerminalCheckout(c, n, s)
        PROVE  SquareTypeOK'
    BY <1>4 DEF SquareTypeOK, CancelTerminalCheckout
  <1>. QED
    BY <1>1, <1>2, <1>3, <1>4

LEMMA WorldType == TypeOK /\ World => TypeOK'
  <1>. SUFFICES ASSUME TypeOK, World PROVE TypeOK'
    OBVIOUS
  <1>. USE DEF TypeOK, SquareTypeOK
  <1>. PICK c \in Carts :
          \/ CustomerPays(c)
          \/ Capture(c)
          \/ \E n \in Attempt : TapCard(c, n) \/ DeviceCancels(c, n)
          \/ \E k \in OrderKind : RefundUnit(c, k)
    BY DEF World
  <1>1. ASSUME NEW k \in OrderKind, NEW p \in RemotePayment, PaymentIs(c, k, p)
        PROVE  pays' \in [Carts -> [OrderKind -> RemotePayment]]
    BY <1>1 DEF PaymentIs
  <1>2. ASSUME NEW k \in OrderKind
        PROVE  /\ [pays[c][k] EXCEPT !.status = "APPROVED"] \in RemotePayment
               /\ [pays[c][k] EXCEPT !.status = "COMPLETED"] \in RemotePayment
    BY DEF RemotePayment
  <1>3. "link" \in OrderKind /\ "order" \in OrderKind
    BY DEF OrderKind
  <1>4. ASSUME CustomerPays(c) PROVE SquareTypeOK'
    BY <1>1, <1>2, <1>3, <1>4 DEF CustomerPays, Authorize
  <1>5. ASSUME Capture(c) PROVE SquareTypeOK'
    BY <1>1, <1>2, <1>3, <1>5 DEF Capture
  <1>6. ASSUME NEW n \in Attempt, TapCard(c, n) PROVE SquareTypeOK'
    BY <1>1, <1>2, <1>3, <1>6 DEF TapCard, TerminalStatus
  <1>7. ASSUME NEW n \in Attempt, DeviceCancels(c, n) PROVE SquareTypeOK'
    BY <1>7 DEF DeviceCancels, TerminalStatus
  <1>8. ASSUME NEW k \in OrderKind, RefundUnit(c, k) PROVE SquareTypeOK'
    <2>1. pays[c][k].refunded + 1 \in 0..Total
      BY <1>8, TotalAssumption DEF RefundUnit, RemotePayment
    <2>2. ASSUME NEW p \in RemotePayment, NEW r \in 0..Total
          PROVE  [p EXCEPT !.refunded = r] \in RemotePayment
      BY DEF RemotePayment
    <2>3. pays[c][k] \in RemotePayment
      OBVIOUS
    <2>4. [pays[c][k] EXCEPT !.refunded = @ + 1] \in RemotePayment
      BY <2>1, <2>2, <2>3
    <2>. QED
      BY <1>1, <1>8, <2>4 DEF RefundUnit
  <1>9. SquareTypeOK'
    BY <1>4, <1>5, <1>6, <1>7, <1>8
  <1>10. DatabaseTypeOK' /\ WebhooksTypeOK' /\ (job \in [Handlers -> Job])'
    BY DEF World, database, webhooks, DatabaseTypeOK, WebhooksTypeOK
  <1>. QED
    BY <1>9, <1>10 DEF TypeOK
-----------------------------------------------------------------------------
\* Steps of billing.rs.
LEMMA ReadForCancelType ==
    ASSUME TypeOK, NEW h \in Handlers, NEW c \in Carts, ReadForCancel(h, c)
    PROVE  job' \in [Handlers -> Job]
  <1>. DEFINE url == Unpaid(c) /\ cart[c].url
  <1>1. url \in BOOLEAN /\ cart[c].tc \in 0..MaxTC
    BY DEF TypeOK, DatabaseTypeOK, Cart
  <1>2. cart[c].tc # 0 => cart[c].tc \in Attempt
    BY <1>1, MaxTCAssumption DEF Attempt
  <1>3. cart[c].tc # 0 =>
           [pc |-> "cancel_device", c |-> c, url |-> url, tc |-> cart[c].tc] \in Job
    BY <1>1, <1>2 DEF Job, BillingJob
  <1>4. [pc |-> "cancel_tx", c |-> c, url |-> url] \in Job
    BY <1>1 DEF Job, BillingJob
  <1>. QED
    BY <1>3, <1>4, GotoType DEF ReadForCancel, TypeOK

LEMMA CancelTypes ==
    ASSUME TypeOK, NEW h \in Handlers
    PROVE  /\ \A c \in Carts : StartCancel(h, c) /\ UNCHANGED webhooks => TypeOK'
           /\ \A c \in Carts : Expire(h, c) /\ UNCHANGED webhooks => TypeOK'
           /\ CancelRead(h) /\ UNCHANGED webhooks => TypeOK'
           /\ CancelDevice(h) /\ UNCHANGED webhooks => TypeOK'
           /\ WriteCancel(h) /\ UNCHANGED webhooks => TypeOK'
           /\ CancelTx(h) /\ UNCHANGED webhooks => TypeOK'
           /\ CancelRefused(h) /\ UNCHANGED webhooks => TypeOK'
           /\ VoidLink(h) /\ UNCHANGED webhooks => TypeOK'
           /\ Abandon(h) /\ UNCHANGED webhooks => TypeOK'
  <1>. DEFINE j == job[h]
  <1>0. j \in Job /\ Idle \in Job
    BY DEF TypeOK, Job
  <1>1. ASSUME UNCHANGED <<square, database, webhooks>>, job' \in [Handlers -> Job]
        PROVE  TypeOK'
    BY <1>1 DEF TypeOK, SquareTypeOK, DatabaseTypeOK, WebhooksTypeOK, square, database, webhooks
  <1>2. ASSUME NEW c \in Carts, StartCancel(h, c), UNCHANGED webhooks PROVE TypeOK'
    BY <1>1, <1>2, ReadForCancelType DEF StartCancel
  <1>3. ASSUME NEW c \in Carts, Expire(h, c), UNCHANGED webhooks PROVE TypeOK'
    <2>1. [pc |-> "cancel_read", c |-> c] \in Job
      BY DEF Job, BillingJob
    <2>. QED
      BY <1>1, <1>3, <2>1, GotoType DEF Expire, TypeOK
  <1>4. ASSUME CancelRead(h), UNCHANGED webhooks PROVE TypeOK'
    BY <1>0, <1>1, <1>4, JobFields, ReadForCancelType DEF CancelRead, At
  <1>5. ASSUME CancelDevice(h), UNCHANGED webhooks PROVE TypeOK'
    <2>1. j.c \in Carts /\ j.tc \in Attempt /\ j.url \in BOOLEAN
      BY <1>0, <1>5, JobFields DEF CancelDevice, At
    <2>2. ASSUME NEW s \in TerminalStatus
          PROVE  [pc |-> "write_cancel", c |-> j.c, url |-> j.url, tstat |-> s] \in Job
      BY <2>1 DEF Job, BillingJob
    <2>3. job' \in [Handlers -> Job]
      BY <1>0, <1>5, <2>2, GotoType DEF CancelDevice, Finish, TypeOK
    <2>4. SquareTypeOK'
      BY <1>5, <2>1, SquareCallsType DEF CancelDevice, TypeOK, SquareTypeOK, square
    <2>. QED
      BY <1>5, <2>3, <2>4
      DEF CancelDevice, TypeOK, DatabaseTypeOK, WebhooksTypeOK, database, webhooks
  <1>6. ASSUME WriteCancel(h), UNCHANGED webhooks PROVE TypeOK'
    <2>1. j.c \in Carts /\ j.url \in BOOLEAN /\ j.tstat \in TerminalStatus
      BY <1>0, <1>6, JobFields DEF WriteCancel, At
    <2>2. [cart[j.c] EXCEPT !.tstat = j.tstat] \in Cart
      BY <2>1, RowType DEF TypeOK, DatabaseTypeOK
    <2>3. [pc |-> "cancel_tx", c |-> j.c, url |-> j.url] \in Job
      BY <2>1 DEF Job, BillingJob
    <2>4. cart' \in [Carts -> Cart] /\ job' \in [Handlers -> Job]
      BY <1>6, <2>1, <2>2, <2>3, CartType, GotoType DEF WriteCancel, TypeOK
    <2>. QED
      BY <1>6, <2>4
      DEF WriteCancel, TypeOK, SquareTypeOK, DatabaseTypeOK, WebhooksTypeOK, square, webhooks
  <1>7. ASSUME CancelTx(h), UNCHANGED webhooks PROVE TypeOK'
    <2>1. j.c \in Carts
      BY <1>0, <1>7, JobFields DEF CancelTx, At
    <2>2. [cart[j.c] EXCEPT !.status = "canceled"] \in Cart
      BY <2>1, RowType DEF TypeOK, DatabaseTypeOK, CartStatus
    <2>3. [pc |-> "void", c |-> j.c] \in Job
      BY <2>1 DEF Job, BillingJob
    <2>4. cart' \in [Carts -> Cart] /\ job' \in [Handlers -> Job]
      BY <1>0, <1>7, <2>1, <2>2, <2>3, CartType, GotoType DEF CancelTx, TypeOK
    <2>5. claims' \in [Carts -> SUBSET Orders] /\ ord' \in [Orders -> OrderStatus]
      BY <1>7, <2>1 DEF CancelTx, ReleaseClaims, TypeOK, DatabaseTypeOK, OrderStatus
    <2>. QED
      BY <1>7, <2>4, <2>5
      DEF CancelTx, TypeOK, SquareTypeOK, DatabaseTypeOK, WebhooksTypeOK, square, webhooks
  <1>8. ASSUME CancelRefused(h), UNCHANGED webhooks PROVE TypeOK'
    BY <1>0, <1>1, <1>8, GotoType DEF CancelRefused, Finish, TypeOK
  <1>9. ASSUME VoidLink(h), UNCHANGED webhooks PROVE TypeOK'
    <2>1. j.c \in Carts
      BY <1>0, <1>9, JobFields DEF VoidLink, At
    <2>2. SquareTypeOK' /\ job' \in [Handlers -> Job]
      BY <1>0, <1>9, <2>1, SquareCallsType, GotoType DEF VoidLink, Finish, TypeOK
    <2>. QED
      BY <1>9, <2>2 DEF VoidLink, TypeOK, DatabaseTypeOK, WebhooksTypeOK, database, webhooks
  <1>10. ASSUME Abandon(h), UNCHANGED webhooks PROVE TypeOK'
    BY <1>0, <1>1, <1>10, GotoType DEF Abandon, Finish, TypeOK
  <1>. QED
    BY <1>2, <1>3, <1>4, <1>5, <1>6, <1>7, <1>8, <1>9, <1>10

LEMMA SettleTypes ==
    ASSUME TypeOK, NEW h \in Handlers
    PROVE  /\ FetchPayment(h) /\ UNCHANGED webhooks => TypeOK'
           /\ FetchNothing(h) /\ UNCHANGED webhooks => TypeOK'
           /\ ApplyFetched(h) /\ UNCHANGED webhooks => TypeOK'
  <1>. DEFINE j == job[h]
  <1>0. j \in Job /\ Idle \in Job
    BY DEF TypeOK, Job
  <1>1. ASSUME UNCHANGED <<square, database, webhooks>>, job' \in [Handlers -> Job]
        PROVE  TypeOK'
    BY <1>1 DEF TypeOK, SquareTypeOK, DatabaseTypeOK, WebhooksTypeOK, square, database, webhooks
  <1>2. ASSUME FetchPayment(h), UNCHANGED webhooks PROVE TypeOK'
    <2>1. j.c \in Carts /\ j.k \in OrderKind /\ j.ev \in EventOrNone
      BY <1>0, <1>2, JobFields DEF FetchPayment, At
    <2>2. pays[j.c][j.k] \in RemotePayment
      BY <2>1 DEF TypeOK, SquareTypeOK
    <2>3. [pc |-> "apply", c |-> j.c, k |-> j.k, pay |-> pays[j.c][j.k], ev |-> j.ev] \in Job
      BY <2>1, <2>2 DEF Job, BillingJob
    <2>. QED
      BY <1>1, <1>2, <2>3, GotoType DEF FetchPayment, TypeOK
  <1>3. ASSUME FetchNothing(h), UNCHANGED webhooks PROVE TypeOK'
    BY <1>0, <1>1, <1>3, GotoType DEF FetchNothing, Finish, TypeOK
  <1>4. ASSUME ApplyFetched(h), UNCHANGED webhooks PROVE TypeOK'
    <2>1. j.c \in Carts /\ j.k \in OrderKind /\ j.pay \in RemotePayment /\ j.ev \in EventOrNone
      BY <1>0, <1>4, JobFields DEF ApplyFetched, At
    <2>2. DatabaseTypeOK'
      BY <1>4, <2>1, ApplyType DEF ApplyFetched, TypeOK
    <2>3. job' \in [Handlers -> Job]
      <3>1. Matched(h) \in BOOLEAN
        BY DEF Matched
      <3>2. Done(h, j.ev, Matched(h))
        BY <1>4 DEF ApplyFetched
      <3>. QED
        BY <2>1, <3>1, <3>2, DoneType DEF TypeOK
    <2>. QED
      BY <1>4, <2>2, <2>3
      DEF ApplyFetched, TypeOK, SquareTypeOK, WebhooksTypeOK, square, webhooks
  <1>. QED
    BY <1>2, <1>3, <1>4
-----------------------------------------------------------------------------
\* Steps of the cart routes.
LEMMA CartTypes ==
    ASSUME TypeOK, NEW h \in Handlers, UNCHANGED webhooks
    PROVE  /\ \A c \in Carts, os \in SUBSET Orders : Create(h, c, os) => TypeOK'
           /\ \A c \in Carts, os \in SUBSET Public, by \in Origin :
                 CreatePublic(h, c, os, by) => TypeOK'
           /\ \A c \in Carts : Checkout(h, c) => TypeOK'
           /\ \A c \in Carts : Refresh(h, c) => TypeOK'
           /\ \A o \in Orders : Fulfil(h, o) => TypeOK'
           /\ CartStep(h) => TypeOK'
  <1>. DEFINE j == job[h]
  <1>0. j \in Job /\ Idle \in Job
    BY DEF TypeOK, Job
  <1>1. ASSUME UNCHANGED <<square, database, webhooks>>, job' \in [Handlers -> Job]
        PROVE  TypeOK'
    BY <1>1 DEF TypeOK, SquareTypeOK, DatabaseTypeOK, WebhooksTypeOK, square, database, webhooks
  <1>2. ASSUME NEW c \in Carts, NEW os \in SUBSET Orders, InsertCart(c, os)
        PROVE  /\ cart' \in [Carts -> Cart]
               /\ lines' \in [Carts -> SUBSET Orders]
               /\ claims' \in [Carts -> SUBSET Orders]
    <2>0. NoCart \in Cart
      BY TotalAssumption, MaxTCAssumption DEF NoCart, Cart, CartStatus, SquareOrderId
    <2>1. [NoCart EXCEPT !.status = "open"] \in Cart
      BY <2>0, RowType DEF CartStatus
    <2>. QED
      BY <1>2, <2>1, CartType DEF InsertCart, TypeOK, DatabaseTypeOK
  <1>3. ASSUME NEW c \in Carts, NEW os \in SUBSET Orders, Create(h, c, os) PROVE TypeOK'
    BY <1>2, <1>3
    DEF Create, TypeOK, SquareTypeOK, DatabaseTypeOK, WebhooksTypeOK, square, webhooks
  <1>4. ASSUME NEW c \in Carts, NEW os \in SUBSET Public, NEW by \in Origin,
               CreatePublic(h, c, os, by)
        PROVE  TypeOK'
    <2>1. os \in SUBSET Orders
      BY PublicAssumption
    <2>2. [pc |-> "create_link", c |-> c, by |-> by] \in Job
      BY DEF Job, CartJob
    <2>3. job' \in [Handlers -> Job]
      BY <1>4, <2>2, GotoType DEF CreatePublic, TypeOK
    <2>4. ord' \in [Orders -> OrderStatus]
      BY <1>4 DEF CreatePublic, TypeOK, DatabaseTypeOK, OrderStatus
    <2>5. InsertCart(c, os) /\ UNCHANGED square
      BY <1>4 DEF CreatePublic
    <2>. QED
      BY <1>2, <2>1, <2>3, <2>4, <2>5
      DEF TypeOK, SquareTypeOK, DatabaseTypeOK, WebhooksTypeOK, square, webhooks
  <1>5. ASSUME NEW c \in Carts, Checkout(h, c) PROVE TypeOK'
    <2>1. [pc |-> "create_link", c |-> c, by |-> "staff"] \in Job
      BY DEF Job, CartJob, Origin
    <2>. QED
      BY <1>1, <1>5, <2>1, GotoType DEF Checkout, TypeOK
  <1>6. ASSUME NEW c \in Carts, Refresh(h, c) PROVE TypeOK'
    <2>1. cart[c].sq \in OrderKind
      BY <1>6 DEF Refresh, TypeOK, DatabaseTypeOK, Cart, SquareOrderId
    <2>2. [pc |-> "fetch", c |-> c, k |-> cart[c].sq, ev |-> NoEvent] \in Job
      BY <2>1 DEF Job, BillingJob, EventOrNone
    <2>. QED
      BY <1>1, <1>6, <2>2, GotoType DEF Refresh, TypeOK
  <1>7. ASSUME NEW o \in Orders, Fulfil(h, o) PROVE TypeOK'
    <2>1. [pc |-> "fulfil", o |-> o] \in Job
      BY DEF Job, CartJob
    <2>. QED
      BY <1>1, <1>7, <2>1, GotoType DEF Fulfil, TypeOK
  <1>8. ASSUME CreateLink(h) PROVE TypeOK'
    <2>1. j.c \in Carts
      BY <1>0, <1>8, JobFields DEF CreateLink, At
    <2>2. [pc |-> "write_link", c |-> j.c] \in Job
      BY <2>1 DEF Job, CartJob
    <2>3. SquareTypeOK' /\ job' \in [Handlers -> Job]
      BY <1>8, <2>1, <2>2, SquareCallsType, GotoType DEF CreateLink, TypeOK
    <2>. QED
      BY <1>8, <2>3 DEF CreateLink, TypeOK, DatabaseTypeOK, WebhooksTypeOK, database, webhooks
  <1>9. ASSUME CreateLinkFails(h) PROVE TypeOK'
    <2>1. j.c \in Carts
      BY <1>0, <1>9, JobFields DEF CreateLinkFails, At
    <2>2. [pc |-> "cancel_read", c |-> j.c] \in Job
      BY <2>1 DEF Job, BillingJob
    <2>3. job' \in [Handlers -> Job]
      BY <1>9, <2>2, GotoType DEF CreateLinkFails, TypeOK
    <2>4. SquareTypeOK'
      BY <1>9, <2>1, SquareCallsType DEF CreateLinkFails, TypeOK, SquareTypeOK, square
    <2>. QED
      BY <1>9, <2>3, <2>4
      DEF CreateLinkFails, TypeOK, DatabaseTypeOK, WebhooksTypeOK, database, webhooks
  <1>10. ASSUME WriteLink(h) PROVE TypeOK'
    <2>1. j.c \in Carts
      BY <1>0, <1>10, JobFields DEF WriteLink, At
    <2>2. cart' \in [Carts -> Cart]
      BY <1>10, <2>1, RowType, CartType DEF WriteLink, TypeOK, DatabaseTypeOK
    <2>3. job' \in [Handlers -> Job]
      BY <1>0, <1>10, GotoType DEF WriteLink, Finish, TypeOK
    <2>. QED
      BY <1>10, <2>2, <2>3
      DEF WriteLink, TypeOK, SquareTypeOK, DatabaseTypeOK, WebhooksTypeOK, square, webhooks
  <1>11. ASSUME WriteFulfilled(h) PROVE TypeOK'
    <2>1. job' \in [Handlers -> Job]
      BY <1>0, <1>11, GotoType DEF WriteFulfilled, Finish, TypeOK
    <2>2. ord' \in [Orders -> OrderStatus]
      BY <1>11 DEF WriteFulfilled, TypeOK, DatabaseTypeOK, OrderStatus
    <2>. QED
      BY <1>11, <2>1, <2>2
      DEF WriteFulfilled, TypeOK, SquareTypeOK, DatabaseTypeOK, WebhooksTypeOK, square, webhooks
  <1>. QED
    BY <1>3, <1>4, <1>5, <1>6, <1>7, <1>8, <1>9, <1>10, <1>11 DEF CartStep

-----------------------------------------------------------------------------
\* Steps of the Terminal routes.
LEMMA TerminalTypes ==
    ASSUME TypeOK, NEW h \in Handlers, UNCHANGED webhooks
    PROVE  /\ \A c \in Carts : Charge(h, c) => TypeOK'
           /\ \A c \in Carts : Status(h, c) => TypeOK'
           /\ \A c \in Carts : CancelCheckout(h, c) => TypeOK'
           /\ TerminalStep(h) => TypeOK'
  <1>. DEFINE j == job[h]
  <1>0. j \in Job /\ Idle \in Job
    BY DEF TypeOK, Job
  <1>1. ASSUME UNCHANGED <<square, database, webhooks>>, job' \in [Handlers -> Job]
        PROVE  TypeOK'
    BY <1>1 DEF TypeOK, SquareTypeOK, DatabaseTypeOK, WebhooksTypeOK, square, database, webhooks
  <1>2. ASSUME NEW c \in Carts
        PROVE  cart[c].tc \in 0..MaxTC /\ (cart[c].tc # 0 => cart[c].tc \in Attempt)
    <2>1. cart[c].tc \in 0..MaxTC
      BY DEF TypeOK, DatabaseTypeOK, Cart
    <2>. QED
      BY <2>1, MaxTCAssumption DEF Attempt
  <1>3. ASSUME NEW c \in Carts, Charge(h, c) PROVE TypeOK'
    <2>1. ASSUME NEW pc \in {"create_order", "send"}
          PROVE  [pc |-> pc, c |-> c, tc |-> cart[c].tc] \in Job
      BY <1>2 DEF Job, TerminalJob
    <2>. QED
      BY <1>1, <1>3, <2>1, GotoType DEF Charge, TypeOK
  <1>4. ASSUME NEW c \in Carts, Status(h, c) PROVE TypeOK'
    <2>1. [pc |-> "get_checkout", c |-> c, tc |-> cart[c].tc, ev |-> NoEvent] \in Job
      BY <1>2, <1>4 DEF Status, Job, TerminalJob, EventOrNone
    <2>. QED
      BY <1>1, <1>4, <2>1, GotoType DEF Status, TypeOK
  <1>5. ASSUME NEW c \in Carts, CancelCheckout(h, c) PROVE TypeOK'
    <2>1. [pc |-> "cancel_checkout", c |-> c, tc |-> cart[c].tc] \in Job
      BY <1>2, <1>5 DEF CancelCheckout, Job, TerminalJob
    <2>. QED
      BY <1>1, <1>5, <2>1, GotoType DEF CancelCheckout, TypeOK
  <1>6. ASSUME CreateOrder(h) PROVE TypeOK'
    <2>1. j.c \in Carts /\ j.tc \in 0..MaxTC
      BY <1>0, <1>6, JobFields DEF CreateOrder, At
    <2>2. [pc |-> "write_order", c |-> j.c, tc |-> j.tc] \in Job
      BY <2>1 DEF Job, TerminalJob
    <2>. QED
      BY <1>1, <1>6, <2>2, GotoType DEF CreateOrder, TypeOK
  <1>7. ASSUME WriteOrder(h) PROVE TypeOK'
    <2>1. j.c \in Carts /\ j.tc \in 0..MaxTC
      BY <1>0, <1>7, JobFields DEF WriteOrder, At
    <2>2. [pc |-> "send", c |-> j.c, tc |-> j.tc] \in Job
      BY <2>1 DEF Job, TerminalJob
    <2>3. cart' \in [Carts -> Cart]
      BY <1>7, <2>1, RowType, CartType DEF WriteOrder, TypeOK, DatabaseTypeOK
    <2>4. job' \in [Handlers -> Job]
      BY <1>7, <2>2, GotoType DEF WriteOrder, TypeOK
    <2>. QED
      BY <1>7, <2>3, <2>4
      DEF WriteOrder, TypeOK, SquareTypeOK, DatabaseTypeOK, WebhooksTypeOK, square, webhooks
  <1>8. ASSUME SendCheckout(h) PROVE TypeOK'
    <2>. DEFINE n == j.tc + 1
    <2>1. j.c \in Carts /\ n \in Attempt
      BY <1>0, <1>8, JobFields DEF SendCheckout, At
    <2>2. SquareTypeOK' /\ CreateTerminalCheckout(j.c, n)
      BY <1>8, <2>1, SquareCallsType DEF SendCheckout, TypeOK
    <2>3. tco'[j.c][n] \in TerminalStatus
      BY <2>1, <2>2 DEF CreateTerminalCheckout, TypeOK, SquareTypeOK, TerminalStatus, ActiveStatus
    <2>4. [pc |-> "record", c |-> j.c, tc |-> n, tstat |-> tco'[j.c][n],
           ev |-> NoEvent, sync |-> FALSE] \in Job
      BY <2>1, <2>3 DEF Job, TerminalJob, EventOrNone
    <2>5. job' \in [Handlers -> Job]
      BY <1>8, <2>4, GotoType DEF SendCheckout, TypeOK
    <2>. QED
      BY <1>8, <2>2, <2>5
      DEF SendCheckout, TypeOK, DatabaseTypeOK, WebhooksTypeOK, database, webhooks
  <1>9. ASSUME RecordCheckout(h) PROVE TypeOK'
    <2>1. j.c \in Carts /\ j.tc \in Attempt /\ j.ev \in EventOrNone
         /\ j.tstat \in TerminalStatus \union {"none"}
      BY <1>0, <1>9, JobFields DEF RecordCheckout, At
    <2>2. [pc |-> "fetch", c |-> j.c, k |-> "order", ev |-> j.ev] \in Job
      BY <2>1 DEF Job, BillingJob, OrderKind
    <2>3. job' \in [Handlers -> Job]
      BY <1>9, <2>1, <2>2, GotoType, DoneType DEF RecordCheckout, TypeOK
    <2>4. cart' \in [Carts -> Cart]
      BY <1>9, <2>1, RowType, CartType DEF RecordCheckout, TypeOK, DatabaseTypeOK
    <2>. QED
      BY <1>9, <2>3, <2>4
      DEF RecordCheckout, TypeOK, SquareTypeOK, DatabaseTypeOK, WebhooksTypeOK, square, webhooks
  <1>10. ASSUME GetCheckout(h) PROVE TypeOK'
    <2>1. j.c \in Carts /\ j.tc \in Attempt /\ j.ev \in EventOrNone
      BY <1>0, <1>10, JobFields DEF GetCheckout, At
    <2>2. tco[j.c][j.tc] \in TerminalStatus \union {"none"}
      BY <2>1 DEF TypeOK, SquareTypeOK
    <2>3. [pc |-> "record", c |-> j.c, tc |-> j.tc, tstat |-> tco[j.c][j.tc],
           ev |-> j.ev, sync |-> TRUE] \in Job
      BY <2>1, <2>2 DEF Job, TerminalJob
    <2>. QED
      BY <1>1, <1>10, <2>3, GotoType DEF GetCheckout, TypeOK
  <1>11. ASSUME CancelCall(h) PROVE TypeOK'
    <2>1. j.c \in Carts /\ j.tc \in Attempt
      BY <1>0, <1>11, JobFields DEF CancelCall, At
    <2>2. ASSUME NEW s \in TerminalStatus
          PROVE  [pc |-> "record", c |-> j.c, tc |-> j.tc, tstat |-> s,
                  ev |-> NoEvent, sync |-> FALSE] \in Job
      BY <2>1 DEF Job, TerminalJob, EventOrNone
    <2>3. [pc |-> "get_checkout", c |-> j.c, tc |-> j.tc, ev |-> NoEvent] \in Job
      BY <2>1 DEF Job, TerminalJob, EventOrNone
    <2>4. job' \in [Handlers -> Job]
      BY <1>0, <1>11, <2>2, <2>3, GotoType DEF CancelCall, TypeOK
    <2>5. SquareTypeOK'
      BY <1>11, <2>1, SquareCallsType DEF CancelCall, TypeOK, SquareTypeOK, square
    <2>. QED
      BY <1>11, <2>4, <2>5 DEF CancelCall, TypeOK, DatabaseTypeOK, WebhooksTypeOK, database, webhooks
  <1>. QED
    BY <1>3, <1>4, <1>5, <1>6, <1>7, <1>8, <1>9, <1>10, <1>11 DEF TerminalStep
-----------------------------------------------------------------------------
\* Steps of the webhook endpoint.
LEMMA WebhookTypes ==
    ASSUME TypeOK, NEW h \in Handlers
    PROVE  /\ \A e \in Event : Receive(h, e) => TypeOK'
           /\ Upsert(h) => TypeOK'
           /\ Sync(h) => TypeOK'
           /\ SquareFails(h) => TypeOK'
           /\ Settle(h) => TypeOK'
  <1>. DEFINE j == job[h]
  <1>0. j \in Job /\ Idle \in Job
    BY DEF TypeOK, Job
  <1>1. ASSUME UNCHANGED <<square, database>>, job' \in [Handlers -> Job], WebhooksTypeOK'
        PROVE  TypeOK'
    BY <1>1 DEF TypeOK, SquareTypeOK, DatabaseTypeOK, square, database
  <1>2. ASSUME NEW e \in Event, Receive(h, e) PROVE TypeOK'
    <2>1. [pc |-> "upsert", ev |-> e] \in Job
      BY DEF Job, WebhookJob
    <2>2. job' \in [Handlers -> Job]
      BY <1>2, <2>1, GotoType DEF Receive, TypeOK
    <2>3. WebhooksTypeOK'
      BY <1>2 DEF Receive, Ack, TypeOK, WebhooksTypeOK
    <2>. QED
      BY <1>1, <1>2, <2>2, <2>3 DEF Receive
  <1>3. ASSUME Upsert(h) PROVE TypeOK'
    <2>1. j.ev \in Event
      BY <1>0, <1>3, JobFields DEF Upsert, At
    <2>2. j.ev.type = "terminal.checkout.updated" => [pc |-> "sync", ev |-> j.ev] \in Job
      BY <2>1 DEF Job, WebhookJob, Event, PaymentEvent
    <2>3. j.ev.type # "terminal.checkout.updated" => j.ev.c \in Carts /\ j.ev.k \in OrderKind
      BY <2>1 DEF Event, PaymentEvent, TerminalEvent
    <2>4. j.ev.type # "terminal.checkout.updated" =>
             [pc |-> "fetch", c |-> j.ev.c, k |-> j.ev.k, ev |-> j.ev] \in Job
      BY <2>1, <2>3 DEF Job, BillingJob, EventOrNone
    <2>5. job' \in [Handlers -> Job]
      BY <1>3, <2>2, <2>4, GotoType DEF Upsert, TypeOK
    <2>6. WebhooksTypeOK'
      BY <1>3, <2>1 DEF Upsert, TypeOK, WebhooksTypeOK, EventStatus
    <2>. QED
      BY <1>1, <1>3, <2>5, <2>6 DEF Upsert
  <1>4. ASSUME Sync(h) PROVE TypeOK'
    <2>1. j.ev \in TerminalEvent /\ j.ev \in EventOrNone
      BY <1>0, <1>4, JobFields DEF Sync, At, EventOrNone, Event
    <2>2. [pc |-> "get_checkout", c |-> j.ev.c, tc |-> j.ev.n, ev |-> j.ev] \in Job
      BY <2>1 DEF Job, TerminalJob, TerminalEvent
    <2>3. job' \in [Handlers -> Job]
      BY <1>4, <2>1, <2>2, GotoType, DoneType DEF Sync, TypeOK
    <2>. QED
      BY <1>1, <1>4, <2>3 DEF Sync, TypeOK, WebhooksTypeOK, webhooks
  <1>5. ASSUME SquareFails(h) PROVE TypeOK'
    <2>1. j.ev \in Event
      BY <1>0, <1>5, JobFields DEF SquareFails, EventOrNone
    <2>2. job' \in [Handlers -> Job]
      BY <1>0, <1>5, GotoType DEF SquareFails, Finish, TypeOK
    <2>3. WebhooksTypeOK'
      BY <1>5, <2>1 DEF SquareFails, Ack, TypeOK, WebhooksTypeOK, EventStatus
    <2>. QED
      BY <1>1, <1>5, <2>2, <2>3 DEF SquareFails
  <1>6. ASSUME Settle(h) PROVE TypeOK'
    <2>1. j.ev \in Event
      BY <1>0, <1>6, JobFields DEF Settle, At
    <2>2. job' \in [Handlers -> Job]
      BY <1>0, <1>6, GotoType DEF Settle, Finish, TypeOK
    <2>3. WebhooksTypeOK'
      BY <1>6, <2>1 DEF Settle, Ack, TypeOK, WebhooksTypeOK, EventStatus
    <2>. QED
      BY <1>1, <1>6, <2>2, <2>3 DEF Settle
  <1>. QED
    BY <1>2, <1>3, <1>4, <1>5, <1>6

-----------------------------------------------------------------------------
LEMMA NextTypeOK == TypeOK /\ [Next]_vars => TypeOK'
  <1>1. TypeOK /\ UNCHANGED vars => TypeOK'
    BY DEF vars, TypeOK, SquareTypeOK, DatabaseTypeOK, WebhooksTypeOK
  <1>2. ASSUME TypeOK, NEW h \in Handlers, Request(h) PROVE TypeOK'
    <2>1. UNCHANGED webhooks
      BY <1>2 DEF Request
    <2>2. ASSUME StaffRequest(h) PROVE TypeOK'
      BY <1>2, <2>1, <2>2, CancelTypes, CartTypes, TerminalTypes DEF StaffRequest
    <2>3. ASSUME StaffFulfils(h) PROVE TypeOK'
      BY <1>2, <2>1, <2>3, CartTypes DEF StaffFulfils
    <2>4. ASSUME ShopperRequest(h) PROVE TypeOK'
      BY <1>2, <2>1, <2>4, CartTypes DEF ShopperRequest
    <2>. QED
      BY <1>2, <2>2, <2>3, <2>4 DEF Request
  <1>3. ASSUME TypeOK, NEW h \in Handlers, Step(h) PROVE TypeOK'
    <2>1. ASSUME BillingStep(h), UNCHANGED webhooks PROVE TypeOK'
      BY <1>3, <2>1, SettleTypes, CancelTypes DEF BillingStep
    <2>2. ASSUME CartStep(h) \/ TerminalStep(h), UNCHANGED webhooks PROVE TypeOK'
      BY <1>3, <2>2, CartTypes, TerminalTypes
    <2>. QED
      BY <1>3, <2>1, <2>2, WebhookTypes DEF Step
  <1>4. ASSUME TypeOK, NEW h \in Handlers, Failure(h) PROVE TypeOK'
    BY <1>4, CancelTypes, WebhookTypes DEF Failure
  <1>5. ASSUME TypeOK, NEW h \in Handlers, Deliver(h) PROVE TypeOK'
    BY <1>5, WebhookTypes DEF Deliver
  <1>. QED
    BY <1>1, <1>2, <1>3, <1>4, <1>5, WorldType DEF Next, Progress

\* Every variable keeps its type, for any number of carts, orders, handlers
\* and Terminal attempts; a job always carries what its next step reads.
THEOREM TypeCorrect == Spec => []TypeOK
  <1>. QED
    BY InitTypeOK, NextTypeOK, PTL DEF Spec

(***************************************************************************)
(* II.  The double-billing guard: claims are exclusive, they are released  *)
(* together, and the cart routes implement the abstract protocol           *)
(* BlendClaims.                                                            *)
(*                                                                         *)
(* The inductive invariant adds to these that a cart id nobody has used    *)
(* holds nothing, and that every job working on a cart found it used.      *)
(***************************************************************************)

\* Jobs that have read the cart's row before (those of a webhook may name an
\* order of a cart they have yet to look for).
CartPc == {"cancel_read", "cancel_device", "write_cancel", "cancel_tx", "void",
           "create_link", "write_link", "create_order", "write_order", "send",
           "cancel_checkout", "get_checkout", "record"}

Exists(c) == cart[c].status # "none"

UnusedIsEmpty ==
    \A c \in Carts : ~Exists(c) => cart[c] = NoCart /\ lines[c] = {} /\ claims[c] = {}

JobCartExists ==
    \A h \in Handlers : job[h].pc \in CartPc => Exists(job[h].c)

ClaimsInv == UnusedIsEmpty /\ JobCartExists /\ ClaimsExclusive /\ ReleasedTogether

-----------------------------------------------------------------------------
\* What a step of handler h does that creates and cancels no cart: lines and
\* claims stay, no cart starts or ceases to exist or becomes canceled, and the
\* job h goes on to is about a cart that exists.
Keeps(h) ==
    /\ UNCHANGED <<lines, claims>>
    /\ \A c \in Carts : ~Exists(c) => cart'[c] = cart[c]
    /\ \A c \in Carts : Exists(c) => cart'[c].status # "none"
    /\ \A c \in Carts : cart'[c].status = "canceled" => cart[c].status = "canceled"
    /\ \A g \in Handlers \ {h} : job'[g] = job[g]
    /\ job'[h].pc \in CartPc => Exists(job'[h].c)

LEMMA UpdateKeeps ==
    ASSUME TypeOK, NEW c \in Carts, NEW row \in Cart, UpdateCart(c, row),
           Exists(c), row.status # "none",
           row.status # "canceled" \/ cart[c].status = "canceled"
    PROVE  /\ \A d \in Carts : ~Exists(d) => cart'[d] = cart[d]
           /\ \A d \in Carts : Exists(d) => cart'[d].status # "none"
           /\ \A d \in Carts : cart'[d].status = "canceled" => cart[d].status = "canceled"
  BY DEF TypeOK, DatabaseTypeOK, UpdateCart, Exists

\* The cart is left alone and h goes on to job j.
LEMMA GotoKeeps ==
    ASSUME TypeOK, NEW h \in Handlers, NEW j, Goto(h, j), UNCHANGED database,
           j.pc \in CartPc => Exists(j.c)
    PROVE  Keeps(h)
  BY DEF TypeOK, Goto, Keeps, Exists, database

LEMMA ApplyKeeps ==
    ASSUME TypeOK, NEW c \in Carts, NEW k \in OrderKind, NEW p \in RemotePayment,
           UnusedIsEmpty, apply_payment(c, k, p)
    PROVE  /\ UNCHANGED <<lines, claims>>
           /\ \A d \in Carts : ~Exists(d) => cart'[d] = cart[d]
           /\ \A d \in Carts : Exists(d) => cart'[d].status # "none"
           /\ \A d \in Carts : cart'[d].status = "canceled" => cart[d].status = "canceled"
  <1>1. cart[c].sq = k => Exists(c)
    BY NullAssumption DEF UnusedIsEmpty, NoCart
  <1>2. Outcome(c, k, p) # "Unmatched" => cart[c].sq = k
    BY DEF Outcome
  <1>3. CASE UNCHANGED cart
    BY <1>3 DEF apply_payment, Exists
  <1>4. CASE cart[c].sq = k /\ (SettlePaid(c, k) \/ SettleRefunded(c, k, p) \/ NotePayment(c, k))
    <2>1. DatabaseTypeOK'
      BY ApplyType DEF TypeOK
    <2>2. cart[c] \in Cart
      BY DEF TypeOK, DatabaseTypeOK
    <2>3. cart'[c].status \in {"paid", "refunded", cart[c].status}
      <3>1. \A row : UpdateCart(c, row) => cart'[c] = row
        BY DEF UpdateCart, TypeOK, DatabaseTypeOK
      <3>2. CASE SettlePaid(c, k)
        BY <2>2, <3>1, <3>2 DEF SettlePaid, Cart
      <3>3. CASE SettleRefunded(c, k, p)
        BY <2>2, <3>1, <3>3 DEF SettleRefunded, Cart
      <3>4. CASE NotePayment(c, k)
        BY <2>2, <3>1, <3>4 DEF NotePayment, Cart
      <3>. QED
        BY <1>4, <3>2, <3>3, <3>4
    <2>4. \A d \in Carts \ {c} : cart'[d] = cart[d]
      BY <1>4 DEF SettlePaid, SettleRefunded, NotePayment, UpdateCart, TypeOK, DatabaseTypeOK
    <2>. QED
      BY <1>1, <1>4, <2>3, <2>4 DEF apply_payment, Exists
  <1>. QED
    BY <1>2, <1>3, <1>4 DEF apply_payment, Outcome

-----------------------------------------------------------------------------
LEMMA BillingKeeps ==
    ASSUME TypeOK, UnusedIsEmpty, JobCartExists, NEW h \in Handlers, BillingStep(h), ~CancelTx(h)
    PROVE  Keeps(h)
  <1>. DEFINE j == job[h]
  <1>0. j \in Job /\ h \in Handlers
    BY DEF TypeOK
  <1>1. CASE FetchPayment(h)
    BY <1>1, GotoKeeps DEF FetchPayment, CartPc
  <1>2. CASE FetchNothing(h) \/ CancelRefused(h)
    BY <1>2, GotoKeeps DEF FetchNothing, CancelRefused, Finish, Idle, CartPc
  <1>3. CASE ApplyFetched(h)
    <2>1. j.c \in Carts /\ j.k \in OrderKind /\ j.pay \in RemotePayment
      BY <1>0, <1>3, JobFields DEF ApplyFetched, At
    <2>2. apply_payment(j.c, j.k, j.pay)
      BY <1>3 DEF ApplyFetched
    <2>3. job'[h].pc \notin CartPc /\ \A g \in Handlers \ {h} : job'[g] = job[g]
      BY <1>3 DEF ApplyFetched, Done, Goto, Idle, CartPc, TypeOK
    <2>. QED
      BY <2>1, <2>2, <2>3, ApplyKeeps DEF Keeps
  <1>4. CASE CancelRead(h)
    BY <1>0, <1>4, GotoKeeps DEF CancelRead, ReadForCancel, JobCartExists, At, CartPc
  <1>5. CASE CancelDevice(h)
    BY <1>0, <1>5, GotoKeeps DEF CancelDevice, Finish, Idle, JobCartExists, At, CartPc
  <1>6. CASE WriteCancel(h)
    <2>1. j.c \in Carts /\ j.tstat \in TerminalStatus /\ cart[j.c] \in Cart
      BY <1>0, <1>6, JobFields DEF WriteCancel, At, TypeOK, DatabaseTypeOK
    <2>. DEFINE row == [cart[j.c] EXCEPT !.tstat = j.tstat]
    <2>2. row \in Cart /\ row.status = cart[j.c].status
      <3>1. row \in Cart
        BY <2>1 DEF Cart
      <3>2. row.status = cart[j.c].status
        BY <2>1 DEF Cart
      <3>. QED
        BY <3>1, <3>2
    <2>3. Exists(j.c)
      BY <1>0, <1>6 DEF WriteCancel, At, JobCartExists, CartPc
    <2>4. UpdateCart(j.c, row)
      BY <1>6 DEF WriteCancel
    <2>5. /\ \A d \in Carts : ~Exists(d) => cart'[d] = cart[d]
          /\ \A d \in Carts : Exists(d) => cart'[d].status # "none"
          /\ \A d \in Carts : cart'[d].status = "canceled" => cart[d].status = "canceled"
      <3>. HIDE DEF row
      <3>. QED
        BY <2>1, <2>2, <2>3, <2>4, UpdateKeeps DEF Exists
    <2>. QED
      BY <1>6, <2>3, <2>5 DEF WriteCancel, Goto, Keeps, TypeOK
  <1>7. CASE VoidLink(h)
    BY <1>7, GotoKeeps DEF VoidLink, Finish, Idle, CartPc
  <1>8. CASE \E c \in Carts : Expire(h, c)
    BY <1>8, GotoKeeps DEF Expire, Stale, Exists
  <1>. QED
    BY <1>1, <1>2, <1>3, <1>4, <1>5, <1>6, <1>7, <1>8 DEF BillingStep

LEMMA CartKeeps ==
    ASSUME TypeOK, UnusedIsEmpty, JobCartExists, NEW h \in Handlers, CartStep(h)
    PROVE  Keeps(h)
  <1>. DEFINE j == job[h]
  <1>0. j \in Job
    BY DEF TypeOK
  <1>1. CASE CreateLink(h) \/ CreateLinkFails(h)
    BY <1>1, GotoKeeps DEF CreateLink, CreateLinkFails, JobCartExists, At, CartPc
  <1>2. CASE WriteLink(h)
    <2>1. j.c \in Carts /\ Exists(j.c) /\ cart[j.c] \in Cart
      BY <1>0, <1>2, JobFields DEF WriteLink, At, JobCartExists, CartPc, TypeOK, DatabaseTypeOK
    <2>. DEFINE row == [cart[j.c] EXCEPT !.status = "pending_payment", !.method = "link",
                                         !.sq = "link", !.url = TRUE]
    <2>2. row \in Cart /\ row.status = "pending_payment" /\ UpdateCart(j.c, row)
      <3>1. row \in Cart
        BY <2>1 DEF Cart, CartStatus, SquareOrderId, OrderKind
      <3>2. row.status = "pending_payment"
        BY <2>1 DEF Cart
      <3>. QED
        BY <1>2, <3>1, <3>2 DEF WriteLink
    <2>3. /\ \A d \in Carts : ~Exists(d) => cart'[d] = cart[d]
          /\ \A d \in Carts : Exists(d) => cart'[d].status # "none"
          /\ \A d \in Carts : cart'[d].status = "canceled" => cart[d].status = "canceled"
      <3>. HIDE DEF row
      <3>. QED
        BY <2>1, <2>2, UpdateKeeps
    <2>. QED
      BY <1>2, <2>3 DEF WriteLink, Finish, Goto, Idle, Keeps, CartPc, TypeOK
  <1>3. CASE WriteFulfilled(h)
    BY <1>3 DEF WriteFulfilled, Finish, Goto, Idle, Keeps, Exists, CartPc, TypeOK
  <1>. QED
    BY <1>1, <1>2, <1>3 DEF CartStep

LEMMA TerminalKeeps ==
    ASSUME TypeOK, UnusedIsEmpty, JobCartExists, NEW h \in Handlers, TerminalStep(h)
    PROVE  Keeps(h)
  <1>. DEFINE j == job[h]
  <1>0. j \in Job
    BY DEF TypeOK
  <1>1. CASE CreateOrder(h) \/ SendCheckout(h) \/ GetCheckout(h)
    BY <1>1, GotoKeeps DEF CreateOrder, SendCheckout, GetCheckout, JobCartExists, At, CartPc
  <1>2. CASE CancelCall(h)
    BY <1>2, GotoKeeps DEF CancelCall, JobCartExists, At, CartPc, Idle
  <1>3. CASE WriteOrder(h)
    <2>1. j.c \in Carts /\ Exists(j.c) /\ cart[j.c] \in Cart
      BY <1>0, <1>3, JobFields DEF WriteOrder, At, JobCartExists, CartPc, TypeOK, DatabaseTypeOK
    <2>. DEFINE row == [cart[j.c] EXCEPT !.status = "pending_payment", !.method = "terminal",
                                         !.sq = "order"]
    <2>2. row \in Cart /\ row.status = "pending_payment" /\ UpdateCart(j.c, row)
      <3>1. row \in Cart
        BY <2>1 DEF Cart, CartStatus, SquareOrderId, OrderKind
      <3>2. row.status = "pending_payment"
        BY <2>1 DEF Cart
      <3>. QED
        BY <1>3, <3>1, <3>2 DEF WriteOrder
    <2>3. /\ \A d \in Carts : ~Exists(d) => cart'[d] = cart[d]
          /\ \A d \in Carts : Exists(d) => cart'[d].status # "none"
          /\ \A d \in Carts : cart'[d].status = "canceled" => cart[d].status = "canceled"
      <3>. HIDE DEF row
      <3>. QED
        BY <2>1, <2>2, UpdateKeeps
    <2>. QED
      BY <1>3, <2>1, <2>3 DEF WriteOrder, Goto, Keeps, TypeOK
  <1>4. CASE RecordCheckout(h)
    <2>1. j.c \in Carts /\ Exists(j.c) /\ cart[j.c] \in Cart
      BY <1>0, <1>4, JobFields
      DEF RecordCheckout, At, JobCartExists, CartPc, TypeOK, DatabaseTypeOK
    <2>2. j.tc \in Attempt /\ j.tstat \in TerminalStatus \union {"none"}
      BY <1>0, <1>4, JobFields DEF RecordCheckout, At
    <2>. DEFINE row == [cart[j.c] EXCEPT !.tc = j.tc, !.tstat = j.tstat]
    <2>3. row \in Cart /\ row.status = cart[j.c].status /\ UpdateCart(j.c, row)
      <3>1. row \in Cart
        BY <2>1, <2>2, RowType
      <3>2. row.status = cart[j.c].status
        BY <2>1 DEF Cart
      <3>. QED
        BY <1>4, <3>1, <3>2 DEF RecordCheckout
    <2>4. /\ \A d \in Carts : ~Exists(d) => cart'[d] = cart[d]
          /\ \A d \in Carts : Exists(d) => cart'[d].status # "none"
          /\ \A d \in Carts : cart'[d].status = "canceled" => cart[d].status = "canceled"
      <3>. HIDE DEF row
      <3>. QED
        BY <2>1, <2>3, UpdateKeeps DEF Exists
    <2>5. job'[h].pc \notin CartPc /\ \A g \in Handlers \ {h} : job'[g] = job[g]
      BY <1>4 DEF RecordCheckout, Done, Goto, Idle, CartPc, TypeOK
    <2>. QED
      BY <1>4, <2>4, <2>5 DEF RecordCheckout, Keeps
  <1>. QED
    BY <1>1, <1>2, <1>3, <1>4 DEF TerminalStep

LEMMA WebhookKeeps ==
    ASSUME TypeOK, UnusedIsEmpty, JobCartExists, NEW h \in Handlers
    PROVE  /\ \A e \in Event : Receive(h, e) => Keeps(h)
           /\ Upsert(h) \/ Sync(h) \/ SquareFails(h) \/ Settle(h) => Keeps(h)
  <1>. DEFINE j == job[h]
  <1>0. j \in Job
    BY DEF TypeOK
  <1>1. ASSUME NEW e \in Event, Receive(h, e) PROVE Keeps(h)
    <2>1. CASE Settled(e)
      BY <1>1, <2>1 DEF Receive, Keeps, JobCartExists, Exists, database
    <2>2. CASE ~Settled(e)
      BY <1>1, <2>2, GotoKeeps DEF Receive, CartPc
    <2>. QED
      BY <2>1, <2>2
  <1>2. CASE Upsert(h)
    BY <1>2, GotoKeeps DEF Upsert, CartPc
  <1>3. CASE Sync(h)
    <2>1. j.ev.c \in Carts /\ j.ev.n # 0
      BY <1>0, <1>3, JobFields DEF Sync, At, TerminalEvent, Attempt
    <2>2. cart[j.ev.c].tc = j.ev.n => Exists(j.ev.c)
      BY <2>1 DEF UnusedIsEmpty, NoCart
    <2>. QED
      BY <1>3, <2>2, GotoKeeps DEF Sync, Done, Idle, CartPc
  <1>4. CASE SquareFails(h)
    BY <1>4, GotoKeeps DEF SquareFails, Finish, Idle, CartPc
  <1>5. CASE Settle(h)
    BY <1>5, GotoKeeps DEF Settle, Finish, Idle, CartPc
  <1>. QED
    BY <1>1, <1>2, <1>3, <1>4, <1>5

LEMMA RequestKeeps ==
    ASSUME TypeOK, UnusedIsEmpty, JobCartExists, NEW h \in Handlers
    PROVE  /\ \A c \in Carts :
                 (Checkout(h, c) \/ Refresh(h, c) \/ StartCancel(h, c)
                    \/ Charge(h, c) \/ Status(h, c) \/ CancelCheckout(h, c)) => Keeps(h)
           /\ \A o \in Orders : Fulfil(h, o) => Keeps(h)
           /\ Abandon(h) => Keeps(h)
  <1>1. ASSUME NEW c \in Carts, Checkout(h, c) PROVE Keeps(h)
    BY <1>1, GotoKeeps DEF Checkout, Exists
  <1>2. ASSUME NEW c \in Carts, Refresh(h, c) PROVE Keeps(h)
    BY <1>2, GotoKeeps DEF Refresh, CartPc
  <1>3. ASSUME NEW c \in Carts, StartCancel(h, c) PROVE Keeps(h)
    BY <1>3, GotoKeeps DEF StartCancel, ReadForCancel, Exists
  <1>4. ASSUME NEW c \in Carts, Charge(h, c) PROVE Keeps(h)
    BY <1>4, GotoKeeps DEF Charge, Chargeable, Exists
  <1>5. ASSUME NEW c \in Carts, Status(h, c) PROVE Keeps(h)
    BY <1>5, GotoKeeps DEF Status, Exists
  <1>6. ASSUME NEW c \in Carts, CancelCheckout(h, c) PROVE Keeps(h)
    BY <1>6, GotoKeeps DEF CancelCheckout, UnusedIsEmpty, NoCart
  <1>7. ASSUME NEW o \in Orders, Fulfil(h, o) PROVE Keeps(h)
    BY <1>7, GotoKeeps DEF Fulfil, CartPc
  <1>8. ASSUME Abandon(h) PROVE Keeps(h)
    BY <1>8, GotoKeeps DEF Abandon, Finish, Idle, CartPc
  <1>. QED
    BY <1>1, <1>2, <1>3, <1>4, <1>5, <1>6, <1>7, <1>8

-----------------------------------------------------------------------------
\* Every step creates one cart, cancels one, or keeps them all.
Creates(h, c, os) ==
    /\ InsertCart(c, os)
    /\ \A g \in Handlers \ {h} : job'[g] = job[g]
    /\ job'[h] = job[h] \/ (job'[h].pc = "create_link" /\ job'[h].c = c)

Cancels(h, c) ==
    /\ Unpaid(c)
    /\ UNCHANGED lines
    /\ cart' = [cart EXCEPT ![c] = [cart[c] EXCEPT !.status = "canceled"]]
    /\ cart'[c].status = "canceled"
    /\ claims' = [claims EXCEPT ![c] = {}]
    /\ \A g \in Handlers \ {h} : job'[g] = job[g]
    /\ job'[h].pc \in CartPc => job'[h].c = c

KeepsAll == UNCHANGED <<cart, lines, claims, job>>

LEMMA CancelTxCancels ==
    ASSUME TypeOK, NEW h \in Handlers, CancelTx(h)
    PROVE  \E c \in Carts : Cancels(h, c)
  <1>1. job[h].c \in Carts
    BY JobFields DEF TypeOK, CancelTx, At
  <1>. QED
    BY <1>1 DEF CancelTx, ReleaseClaims, Cancels, TypeOK, DatabaseTypeOK, UpdateCart, Cart, Goto, Idle, CartPc

LEMMA StepKinds ==
    ASSUME TypeOK, UnusedIsEmpty, JobCartExists, [Next]_vars
    PROVE  \/ KeepsAll
           \/ \E h \in Handlers : Keeps(h)
           \/ \E h \in Handlers, c \in Carts, os \in SUBSET Orders : Creates(h, c, os)
           \/ \E h \in Handlers, c \in Carts : Cancels(h, c)
  <1>1. CASE UNCHANGED vars \/ World
    BY <1>1 DEF vars, World, database, KeepsAll
  <1>2. ASSUME NEW h \in Handlers, NEW c \in Carts, NEW os \in SUBSET Orders,
               Create(h, c, os)
        PROVE  Creates(h, c, os)
    BY <1>2 DEF Create, Creates
  <1>3. ASSUME NEW h \in Handlers, NEW c \in Carts, NEW os \in SUBSET Public,
               NEW by \in Origin, CreatePublic(h, c, os, by)
        PROVE  os \in SUBSET Orders /\ Creates(h, c, os)
    BY <1>3, PublicAssumption DEF CreatePublic, Creates, Goto, TypeOK
  <1>4. ASSUME NEW h \in Handlers, Request(h)
        PROVE  \/ Keeps(h)
               \/ \E c \in Carts, os \in SUBSET Orders : Creates(h, c, os)
    <2>1. CASE StaffRequest(h)
      <3>. PICK c \in Carts : \/ \E os \in SUBSET Orders : Create(h, c, os)
                             \/ Checkout(h, c) \/ Refresh(h, c) \/ StartCancel(h, c)
                             \/ Charge(h, c) \/ Status(h, c) \/ CancelCheckout(h, c)
        BY <2>1 DEF StaffRequest
      <3>1. ASSUME NEW os \in SUBSET Orders, Create(h, c, os)
            PROVE  \E d \in Carts, ps \in SUBSET Orders : Creates(h, d, ps)
        BY <1>2, <3>1
      <3>. QED
        BY <3>1, RequestKeeps
    <2>2. CASE StaffFulfils(h)
      BY <2>2, RequestKeeps DEF StaffFulfils
    <2>3. CASE ShopperRequest(h)
      <3>1. PICK c \in Carts, os \in SUBSET Public, by \in Origin : CreatePublic(h, c, os, by)
        BY <2>3 DEF ShopperRequest
      <3>2. os \in SUBSET Orders /\ Creates(h, c, os)
        BY <1>3, <3>1
      <3>. QED
        BY <3>2
    <2>. QED
      BY <1>4, <2>1, <2>2, <2>3 DEF Request
  <1>5. ASSUME NEW h \in Handlers, Deliver(h) \/ Step(h) \/ Failure(h)
        PROVE  Keeps(h) \/ \E c \in Carts : Cancels(h, c)
    BY <1>5, CancelTxCancels, BillingKeeps, CartKeeps, TerminalKeeps, WebhookKeeps, RequestKeeps
    DEF Deliver, Step, Failure
  <1>. QED
    BY <1>1, <1>4, <1>5 DEF Next, Progress

-----------------------------------------------------------------------------
LEMMA InitClaims == Init => ClaimsInv
  BY DEF Init, BillingInit, ClaimsInv, UnusedIsEmpty, JobCartExists, Exists, NoCart, Idle,
     CartPc, ClaimsExclusive, ReleasedTogether

LEMMA NextClaims == TypeOK /\ ClaimsInv /\ [Next]_vars => ClaimsInv'
  <1>. SUFFICES ASSUME TypeOK, ClaimsInv, [Next]_vars PROVE ClaimsInv'
    OBVIOUS
  <1>. USE DEF ClaimsInv
  <1>1. CASE KeepsAll
    BY <1>1 DEF KeepsAll, UnusedIsEmpty, JobCartExists, Exists, ClaimsExclusive, ReleasedTogether
  <1>2. ASSUME NEW h \in Handlers, Keeps(h) PROVE ClaimsInv'
    <2>1. UnusedIsEmpty'
      BY <1>2 DEF Keeps, UnusedIsEmpty, Exists
    <2>2. JobCartExists'
      BY <1>2, JobFields, NextTypeOK DEF Keeps, JobCartExists, Exists, TypeOK, CartPc
    <2>3. ClaimsExclusive' /\ ReleasedTogether'
      BY <1>2 DEF Keeps, ClaimsExclusive, ReleasedTogether
    <2>. QED
      BY <2>1, <2>2, <2>3
  <1>3. ASSUME NEW h \in Handlers, NEW c \in Carts, NEW os \in SUBSET Orders, Creates(h, c, os)
        PROVE  ClaimsInv'
    <2>1. /\ cart' = [cart EXCEPT ![c] = [NoCart EXCEPT !.status = "open"]]
          /\ lines' = [lines EXCEPT ![c] = os]
          /\ claims' = [claims EXCEPT ![c] = os]
          /\ ~Exists(c)
          /\ os \intersect Claimed = {}
      BY <1>3 DEF Creates, InsertCart, UpdateCart, Exists
    <2>2. cart'[c].status = "open"
      BY <2>1 DEF TypeOK, DatabaseTypeOK, NoCart
    <2>3. UnusedIsEmpty'
      BY <2>1, <2>2 DEF UnusedIsEmpty, Exists, TypeOK, DatabaseTypeOK
    <2>4. JobCartExists'
      <3>. SUFFICES ASSUME NEW g \in Handlers, job'[g].pc \in CartPc
                    PROVE  cart'[job'[g].c].status # "none"
        BY DEF JobCartExists, Exists
      <3>1. job'[g].c \in Carts
        BY JobFields, NextTypeOK DEF TypeOK, CartPc
      <3>2. job'[g] = job[g] \/ job'[g].c = c
        BY <1>3 DEF Creates
      <3>. QED
        BY <2>1, <2>2, <3>1, <3>2 DEF JobCartExists, Exists, TypeOK, DatabaseTypeOK
    <2>5. ClaimsExclusive'
      BY <2>1 DEF ClaimsExclusive, Claimed, TypeOK, DatabaseTypeOK
    <2>6. ReleasedTogether'
      BY <2>1, <2>2 DEF ReleasedTogether, TypeOK, DatabaseTypeOK
    <2>. QED
      BY <2>3, <2>4, <2>5, <2>6
  <1>4. ASSUME NEW h \in Handlers, NEW c \in Carts, Cancels(h, c) PROVE ClaimsInv'
    <2>1. UnusedIsEmpty'
      BY <1>4 DEF Cancels, Unpaid, UnusedIsEmpty, Exists, TypeOK, DatabaseTypeOK
    <2>2. JobCartExists'
      <3>. SUFFICES ASSUME NEW g \in Handlers, job'[g].pc \in CartPc
                    PROVE  cart'[job'[g].c].status # "none"
        BY DEF JobCartExists, Exists
      <3>1. job'[g].c \in Carts
        BY JobFields, NextTypeOK DEF TypeOK, CartPc
      <3>2. job'[g] = job[g] \/ job'[g].c = c
        BY <1>4 DEF Cancels
      <3>. QED
        BY <1>4, <3>1, <3>2 DEF Cancels, JobCartExists, Exists, TypeOK, DatabaseTypeOK
    <2>3. ClaimsExclusive' /\ ReleasedTogether'
      BY <1>4 DEF Cancels, ClaimsExclusive, ReleasedTogether, TypeOK, DatabaseTypeOK
    <2>. QED
      BY <2>1, <2>2, <2>3
  <1>. QED
    BY <1>1, <1>2, <1>3, <1>4, StepKinds

THEOREM ClaimsInvariant == Spec => [](TypeOK /\ ClaimsInv)
  BY InitTypeOK, NextTypeOK, InitClaims, NextClaims, PTL DEF Spec

\* No blend is ever claimed by two carts, however many carts, handlers and
\* blends there are and however their steps interleave.
THEOREM ClaimsAreExclusive == Spec => []ClaimsExclusive
  BY ClaimsInvariant, PTL DEF ClaimsInv

\* A cancel releases all a cart's blends at once, and a canceled cart holds none.
THEOREM ClaimsAreReleasedTogether == Spec => []ReleasedTogether
  BY ClaimsInvariant, PTL DEF ClaimsInv

-----------------------------------------------------------------------------
(* The refinement: creating a cart is Take, canceling one is Release, and  *)
(* nothing else moves a blend.                                             *)

LEMMA HolderFacts ==
    ASSUME NEW held, NEW o,
           \A c, d \in Carts : c # d => held[c] \intersect held[d] = {}
    PROVE  /\ \A c \in Carts : o \in held[c] => Holder(held, o) = c
           /\ (\A c \in Carts : o \notin held[c]) => Holder(held, o) = NoOrder
  BY DEF Holder

LEMMA InitRefines == Init => Guard!BlendClaimsInit
  BY HolderFacts
  DEF Init, BillingInit, NoCart, Guard!BlendClaimsInit, Owner, UsedCarts

LEMMA StepRefines ==
    ASSUME TypeOK, ClaimsInv, ClaimsInv', [Next]_vars
    PROVE  [Guard!BlendClaimsNext]_<<Owner, UsedCarts>>
  <1>. DEFINE apart(held) == \A c, d \in Carts : c # d => held[c] \intersect held[d] = {}
  <1>1. apart(claims) /\ apart(claims')
    BY DEF ClaimsInv, ClaimsExclusive
  <1>2. CASE KeepsAll
    BY <1>2 DEF KeepsAll, Owner, UsedCarts
  <1>3. ASSUME NEW h \in Handlers, Keeps(h) PROVE UNCHANGED <<Owner, UsedCarts>>
    BY <1>3 DEF Keeps, Owner, UsedCarts, Exists
  <1>4. ASSUME NEW h \in Handlers, NEW c \in Carts, NEW os \in SUBSET Orders, Creates(h, c, os)
        PROVE  Guard!Take(c, os)
    <2>1. /\ cart' = [cart EXCEPT ![c] = [NoCart EXCEPT !.status = "open"]]
          /\ claims' = [claims EXCEPT ![c] = os]
          /\ ~Exists(c)
          /\ claims[c] = {}
          /\ os \intersect Claimed = {}
      BY <1>4 DEF Creates, InsertCart, UpdateCart, Exists, ClaimsInv, UnusedIsEmpty
    <2>2. c \notin UsedCarts /\ UsedCarts' = UsedCarts \union {c}
      BY <2>1 DEF UsedCarts, Exists, NoCart, TypeOK, DatabaseTypeOK
    <2>3. \A o \in os : Owner[o] = NoOrder
      BY <1>1, <2>1, HolderFacts DEF Owner, Claimed
    <2>4. ASSUME NEW o \in Orders
          PROVE  Holder(claims', o) = IF o \in os THEN c ELSE Holder(claims, o)
      <3>1. CASE o \in os
        <4>1. o \in claims'[c]
          BY <2>1, <3>1 DEF TypeOK, DatabaseTypeOK
        <4>. QED
          BY <1>1, <3>1, <4>1, HolderFacts
      <3>2. CASE o \notin os
        <4>1. \A d \in Carts : o \in claims'[d] <=> o \in claims[d]
          BY <2>1, <3>2 DEF TypeOK, DatabaseTypeOK
        <4>. QED
          BY <1>1, <3>2, <4>1, HolderFacts
      <3>. QED
        BY <3>1, <3>2
    <2>5. Owner' = [o \in Orders |-> IF o \in os THEN c ELSE Owner[o]]
      BY <2>4 DEF Owner
    <2>. QED
      BY <2>2, <2>3, <2>5 DEF Guard!Take
  <1>5. ASSUME NEW h \in Handlers, NEW c \in Carts, Cancels(h, c)
        PROVE  Guard!Release(c)
    <2>1. /\ cart' = [cart EXCEPT ![c] = [cart[c] EXCEPT !.status = "canceled"]]
          /\ claims' = [claims EXCEPT ![c] = {}]
          /\ cart[c].status # "none" /\ cart'[c].status # "none"
      BY <1>5 DEF Cancels, Unpaid
    <2>2. c \in UsedCarts /\ UsedCarts' = UsedCarts
      BY <2>1 DEF UsedCarts, TypeOK, DatabaseTypeOK
    <2>3. ASSUME NEW o \in Orders
          PROVE  Holder(claims', o) = IF Holder(claims, o) = c THEN NoOrder ELSE Holder(claims, o)
      <3>1. CASE o \in claims[c]
        <4>1. \A d \in Carts : o \notin claims'[d]
          BY <1>1, <2>1, <3>1 DEF TypeOK, DatabaseTypeOK
        <4>. QED
          BY <1>1, <3>1, <4>1, HolderFacts
      <3>2. CASE o \notin claims[c]
        <4>1. \A d \in Carts : o \in claims'[d] <=> o \in claims[d]
          BY <2>1, <3>2 DEF TypeOK, DatabaseTypeOK
        <4>2. Holder(claims', o) = Holder(claims, o)
          BY <1>1, <4>1, HolderFacts
        <4>3. Holder(claims, o) = c => Holder(claims, o) = NoOrder
          BY <1>1, <3>2, HolderFacts
        <4>. QED
          BY <4>2, <4>3
      <3>. QED
        BY <3>1, <3>2
    <2>4. Owner' = [o \in Orders |-> IF Owner[o] = c THEN NoOrder ELSE Owner[o]]
      BY <2>3 DEF Owner
    <2>. QED
      BY <2>2, <2>4 DEF Guard!Release
  <1>. QED
    BY <1>2, <1>3, <1>4, <1>5, StepKinds DEF ClaimsInv, Guard!BlendClaimsNext

\* The routes implement BlendClaims: a cart takes its blends in one step, from
\* nobody, once, and lets go of all of them in one step.
THEOREM CartsImplementBlendClaims == Spec => ImplementsBlendClaims
  <1>1. TypeOK /\ ClaimsInv /\ (ClaimsInv)' /\ [Next]_vars
           => [Guard!BlendClaimsNext]_<<Owner, UsedCarts>>
    BY StepRefines
  <1>. QED
    BY <1>1, InitRefines, ClaimsInvariant, PTL
    DEF Spec, ImplementsBlendClaims, Guard!BlendClaimsSpec

(***************************************************************************)
(* III.  No cart is settled and no blend sold without money, and a blend   *)
(* handed over stays handed over.                                          *)
(*                                                                         *)
(* The payment a handler applies was read earlier and may be stale; what   *)
(* makes the proofs go through is that it can only lag: money Square once  *)
(* collected, and a refund it once made, stay on the payment (Snapshots).  *)
(***************************************************************************)

SettledStatus == {"paid", "refunded"}
SoldStatus == {"paid", "fulfilled"}

\* Payment q says all that p says.
Backed(p, q) ==
    /\ is_completed(p) => is_completed(q)
    /\ is_refunded(p) => is_refunded(q)

RefundedWasPaid ==
    \A c \in Carts, k \in OrderKind : is_refunded(pays[c][k]) => is_completed(pays[c][k])

Snapshots ==
    \A h \in Handlers :
       job[h].pc = "apply" => Backed(job[h].pay, pays[job[h].c][job[h].k])

Funded(o) == \E c \in Carts, k \in OrderKind : o \in lines[c] /\ is_completed(pays[c][k])

FulfilJobs == \A h \in Handlers : job[h].pc = "fulfil" => Funded(job[h].o)

SettledHasOrder == \A c \in Carts : cart[c].status \in SettledStatus => cart[c].sq \in OrderKind

MoneyInv ==
    /\ RefundedWasPaid /\ Snapshots /\ FulfilJobs
    /\ SettledHasOrder /\ SettledHasMoney /\ SoldHasMoney

-----------------------------------------------------------------------------
\* A step that settles no cart, sells no blend and undoes neither: a new apply
\* job carries Square's word, a new fulfil job found its order sold.
NewJob(g) ==
    job'[g].pc \in {"apply", "fulfil"} =>
       \/ job'[g] = job[g]
       \/ job'[g].pc = "apply" /\ job'[g].pay = pays[job'[g].c][job'[g].k]
       \/ job'[g].pc = "fulfil" /\ ord[job'[g].o] \in SoldStatus

KeepsCart(c) ==
    cart'[c].status \in SettledStatus =>
       /\ cart'[c].status = cart[c].status
       /\ cart'[c].payment = cart[c].payment
       /\ cart'[c].sq = cart[c].sq

KeepsOrders ==
    \A o \in Orders :
       /\ ord'[o] \in SoldStatus => ord[o] \in SoldStatus
       /\ ord[o] = "fulfilled" => ord'[o] = "fulfilled"

Quiet ==
    /\ UNCHANGED pays
    /\ \A c \in Carts : KeepsCart(c)
    /\ KeepsOrders
    /\ \A g \in Handlers : NewJob(g)

LEMMA QuietJob ==
    ASSUME TypeOK, NEW h \in Handlers, NEW j, Goto(h, j),
           j.pc \notin {"apply", "fulfil"}
    PROVE  \A g \in Handlers : NewJob(g)
  BY DEF TypeOK, Goto, NewJob

LEMMA QuietCart ==
    ASSUME TypeOK, NEW c \in Carts, NEW row \in Cart, UpdateCart(c, row),
           row.status \in SettledStatus =>
              /\ row.status = cart[c].status
              /\ row.payment = cart[c].payment
              /\ row.sq = cart[c].sq
    PROVE  \A d \in Carts : KeepsCart(d)
  BY DEF TypeOK, DatabaseTypeOK, UpdateCart, KeepsCart

LEMMA QuietGoto ==
    ASSUME TypeOK, NEW h \in Handlers, NEW j, Goto(h, j), UNCHANGED <<pays, cart, ord>>,
           j.pc \notin {"apply", "fulfil"}
    PROVE  Quiet
  BY QuietJob DEF Quiet, KeepsCart, KeepsOrders

-----------------------------------------------------------------------------
LEMMA BillingQuiet ==
    ASSUME TypeOK, NEW h \in Handlers, BillingStep(h), ~ApplyFetched(h)
    PROVE  Quiet
  <1>. DEFINE j == job[h]
  <1>0. j \in Job
    BY DEF TypeOK
  <1>1. CASE FetchPayment(h)
    <2>1. \A g \in Handlers : NewJob(g)
      BY <1>1 DEF FetchPayment, Goto, NewJob, TypeOK
    <2>. QED
      BY <1>1, <2>1 DEF FetchPayment, Quiet, KeepsCart, KeepsOrders, square, database
  <1>2. CASE FetchNothing(h) \/ CancelRefused(h) \/ VoidLink(h)
    BY <1>2, QuietGoto
    DEF FetchNothing, CancelRefused, VoidLink, VoidCheckout, Finish, Idle, square, database
  <1>3. CASE CancelRead(h)
    BY <1>3, QuietGoto DEF CancelRead, ReadForCancel, square, database
  <1>4. CASE CancelDevice(h)
    BY <1>4, QuietGoto
    DEF CancelDevice, CancelTerminalCheckout, Finish, Idle, square, database
  <1>5. CASE WriteCancel(h)
    <2>1. j.c \in Carts /\ j.tstat \in TerminalStatus /\ cart[j.c] \in Cart
      BY <1>0, <1>5, JobFields DEF WriteCancel, At, TypeOK, DatabaseTypeOK
    <2>. DEFINE row == [cart[j.c] EXCEPT !.tstat = j.tstat]
    <2>2. row \in Cart
      BY <2>1, RowType
    <2>3. row.status = cart[j.c].status /\ row.payment = cart[j.c].payment /\ row.sq = cart[j.c].sq
      BY <2>1 DEF Cart
    <2>4. UpdateCart(j.c, row)
      BY <1>5 DEF WriteCancel
    <2>5. \A d \in Carts : KeepsCart(d)
      <3>. HIDE DEF row
      <3>. QED
        BY <2>1, <2>2, <2>3, <2>4, QuietCart
    <2>6. \A g \in Handlers : NewJob(g)
      BY <1>5, QuietJob DEF WriteCancel
    <2>. QED
      BY <1>5, <2>5, <2>6 DEF WriteCancel, Quiet, KeepsOrders, square
  <1>6. CASE CancelTx(h)
    <2>1. j.c \in Carts /\ cart[j.c] \in Cart
      BY <1>0, <1>6, JobFields DEF CancelTx, At, TypeOK, DatabaseTypeOK
    <2>. DEFINE row == [cart[j.c] EXCEPT !.status = "canceled"]
    <2>2. row \in Cart /\ row.status = "canceled"
      <3>1. row \in Cart
        BY <2>1, RowType DEF CartStatus
      <3>. QED
        BY <2>1, <3>1 DEF Cart
    <2>3. UpdateCart(j.c, row)
      BY <1>6 DEF CancelTx
    <2>4. \A d \in Carts : KeepsCart(d)
      <3>. HIDE DEF row
      <3>. QED
        BY <2>1, <2>2, <2>3, QuietCart DEF SettledStatus
    <2>5. \A g \in Handlers : NewJob(g)
      BY <1>6, QuietJob DEF CancelTx, Idle
    <2>6. KeepsOrders
      BY <1>6 DEF CancelTx, KeepsOrders, SoldStatus
    <2>. QED
      BY <1>6, <2>4, <2>5, <2>6 DEF CancelTx, Quiet, square
  <1>7. CASE \E c \in Carts : Expire(h, c)
    BY <1>7, QuietGoto DEF Expire, square, database
  <1>. QED
    BY <1>1, <1>2, <1>3, <1>4, <1>5, <1>6, <1>7 DEF BillingStep

LEMMA CartQuiet ==
    ASSUME TypeOK, NEW h \in Handlers, CartStep(h), ~WriteFulfilled(h)
    PROVE  Quiet
  <1>. DEFINE j == job[h]
  <1>0. j \in Job
    BY DEF TypeOK
  <1>1. CASE CreateLink(h) \/ CreateLinkFails(h)
    BY <1>1, QuietGoto DEF CreateLink, CreateLinkFails, CreateCheckout, square, database
  <1>2. CASE WriteLink(h)
    <2>1. j.c \in Carts /\ cart[j.c] \in Cart
      BY <1>0, <1>2, JobFields DEF WriteLink, At, TypeOK, DatabaseTypeOK
    <2>. DEFINE row == [cart[j.c] EXCEPT !.status = "pending_payment", !.method = "link",
                                         !.sq = "link", !.url = TRUE]
    <2>2. row \in Cart /\ row.status = "pending_payment" /\ UpdateCart(j.c, row)
      <3>1. row \in Cart
        BY <2>1 DEF Cart, CartStatus, SquareOrderId, OrderKind
      <3>2. row.status = "pending_payment"
        BY <2>1 DEF Cart
      <3>. QED
        BY <1>2, <3>1, <3>2 DEF WriteLink
    <2>3. \A d \in Carts : KeepsCart(d)
      <3>. HIDE DEF row
      <3>. QED
        BY <2>1, <2>2, QuietCart DEF SettledStatus
    <2>4. \A g \in Handlers : NewJob(g)
      BY <1>2, QuietJob DEF WriteLink, Finish, Idle
    <2>. QED
      BY <1>2, <2>3, <2>4 DEF WriteLink, Quiet, KeepsOrders, square
  <1>. QED
    BY <1>1, <1>2 DEF CartStep

LEMMA TerminalQuiet ==
    ASSUME TypeOK, NEW h \in Handlers, TerminalStep(h)
    PROVE  Quiet
  <1>. DEFINE j == job[h]
  <1>0. j \in Job
    BY DEF TypeOK
  <1>1. CASE CreateOrder(h) \/ GetCheckout(h)
    BY <1>1, QuietGoto DEF CreateOrder, GetCheckout, square, database
  <1>2. CASE SendCheckout(h)
    BY <1>2, QuietGoto DEF SendCheckout, CreateTerminalCheckout, database
  <1>3. CASE CancelCall(h)
    BY <1>3, QuietGoto DEF CancelCall, CancelTerminalCheckout, Idle, square, database
  <1>4. CASE WriteOrder(h)
    <2>1. j.c \in Carts /\ cart[j.c] \in Cart
      BY <1>0, <1>4, JobFields DEF WriteOrder, At, TypeOK, DatabaseTypeOK
    <2>. DEFINE row == [cart[j.c] EXCEPT !.status = "pending_payment", !.method = "terminal",
                                         !.sq = "order"]
    <2>2. row \in Cart /\ row.status = "pending_payment" /\ UpdateCart(j.c, row)
      <3>1. row \in Cart
        BY <2>1 DEF Cart, CartStatus, SquareOrderId, OrderKind
      <3>2. row.status = "pending_payment"
        BY <2>1 DEF Cart
      <3>. QED
        BY <1>4, <3>1, <3>2 DEF WriteOrder
    <2>3. \A d \in Carts : KeepsCart(d)
      <3>. HIDE DEF row
      <3>. QED
        BY <2>1, <2>2, QuietCart DEF SettledStatus
    <2>4. \A g \in Handlers : NewJob(g)
      BY <1>4, QuietJob DEF WriteOrder
    <2>. QED
      BY <1>4, <2>3, <2>4 DEF WriteOrder, Quiet, KeepsOrders, square
  <1>5. CASE RecordCheckout(h)
    <2>1. j.c \in Carts /\ cart[j.c] \in Cart
      BY <1>0, <1>5, JobFields DEF RecordCheckout, At, TypeOK, DatabaseTypeOK
    <2>2. j.tc \in Attempt /\ j.tstat \in TerminalStatus \union {"none"}
      BY <1>0, <1>5, JobFields DEF RecordCheckout, At
    <2>. DEFINE row == [cart[j.c] EXCEPT !.tc = j.tc, !.tstat = j.tstat]
    <2>3. row \in Cart
      BY <2>1, <2>2, RowType
    <2>4. row.status = cart[j.c].status /\ row.payment = cart[j.c].payment /\ row.sq = cart[j.c].sq
      BY <2>1 DEF Cart
    <2>5. UpdateCart(j.c, row)
      BY <1>5 DEF RecordCheckout
    <2>6. \A d \in Carts : KeepsCart(d)
      <3>. HIDE DEF row
      <3>. QED
        BY <2>1, <2>3, <2>4, <2>5, QuietCart
    <2>7. \A g \in Handlers : NewJob(g)
      BY <1>5, QuietJob DEF RecordCheckout, Done, Idle
    <2>. QED
      BY <1>5, <2>6, <2>7 DEF RecordCheckout, Quiet, KeepsOrders, square
  <1>. QED
    BY <1>1, <1>2, <1>3, <1>4, <1>5 DEF TerminalStep

LEMMA WebhookQuiet ==
    ASSUME TypeOK, NEW h \in Handlers
    PROVE  /\ \A e \in Event : Receive(h, e) => Quiet
           /\ Upsert(h) \/ Sync(h) \/ SquareFails(h) \/ Settle(h) => Quiet
  <1>1. ASSUME NEW e \in Event, Receive(h, e) PROVE Quiet
    <2>1. CASE Settled(e)
      BY <1>1, <2>1 DEF Receive, Quiet, NewJob, KeepsCart, KeepsOrders, square, database
    <2>2. CASE ~Settled(e)
      BY <1>1, <2>2, QuietGoto DEF Receive, square, database
    <2>. QED
      BY <2>1, <2>2
  <1>2. CASE Upsert(h)
    BY <1>2, QuietGoto DEF Upsert, square, database
  <1>3. CASE Sync(h)
    BY <1>3, QuietGoto DEF Sync, Done, Idle, square, database
  <1>4. CASE SquareFails(h) \/ Settle(h)
    BY <1>4, QuietGoto DEF SquareFails, Settle, Finish, Idle, square, database
  <1>. QED
    BY <1>1, <1>2, <1>3, <1>4

LEMMA CreateQuiet ==
    ASSUME TypeOK, NEW h \in Handlers, NEW c \in Carts, NEW os \in SUBSET Orders
    PROVE  /\ Create(h, c, os) => Quiet
           /\ \A by \in Origin : CreatePublic(h, c, os, by) => Quiet
  <1>1. ASSUME InsertCart(c, os) PROVE \A d \in Carts : KeepsCart(d)
    BY <1>1 DEF InsertCart, UpdateCart, NoCart, KeepsCart, SettledStatus, TypeOK, DatabaseTypeOK
  <1>2. ASSUME Create(h, c, os) PROVE Quiet
    BY <1>1, <1>2 DEF Create, Quiet, KeepsOrders, NewJob, square
  <1>3. ASSUME NEW by \in Origin, CreatePublic(h, c, os, by) PROVE Quiet
    <2>1. KeepsOrders
      BY <1>3 DEF CreatePublic, KeepsOrders, SoldStatus
    <2>2. \A g \in Handlers : NewJob(g)
      BY <1>3, QuietJob DEF CreatePublic
    <2>. QED
      BY <1>1, <1>3, <2>1, <2>2 DEF CreatePublic, Quiet, square
  <1>. QED
    BY <1>2, <1>3

LEMMA RequestQuiet ==
    ASSUME TypeOK, NEW h \in Handlers
    PROVE  (Request(h) => Quiet) /\ (Abandon(h) => Quiet)
  <1>1. ASSUME NEW c \in Carts,
               Checkout(h, c) \/ Refresh(h, c) \/ StartCancel(h, c)
                 \/ Charge(h, c) \/ Status(h, c) \/ CancelCheckout(h, c)
        PROVE  Quiet
    <2>1. CASE Checkout(h, c) \/ Refresh(h, c) \/ StartCancel(h, c)
      BY <2>1, QuietGoto DEF Checkout, Refresh, StartCancel, ReadForCancel, square, database
    <2>2. CASE Charge(h, c) \/ Status(h, c) \/ CancelCheckout(h, c)
      BY <2>2, QuietGoto DEF Charge, Status, CancelCheckout, square, database
    <2>. QED
      BY <1>1, <2>1, <2>2
  <1>2. ASSUME NEW o \in Orders, Fulfil(h, o) PROVE Quiet
    <2>1. \A g \in Handlers : NewJob(g)
      BY <1>2 DEF Fulfil, Goto, NewJob, SoldStatus, TypeOK
    <2>. QED
      BY <1>2, <2>1 DEF Fulfil, Quiet, KeepsCart, KeepsOrders, square, database
  <1>3. ASSUME StaffRequest(h) PROVE Quiet
    <2>. PICK c \in Carts : \/ \E os \in SUBSET Orders : Create(h, c, os)
                           \/ Checkout(h, c) \/ Refresh(h, c) \/ StartCancel(h, c)
                           \/ Charge(h, c) \/ Status(h, c) \/ CancelCheckout(h, c)
      BY <1>3 DEF StaffRequest
    <2>1. ASSUME NEW os \in SUBSET Orders, Create(h, c, os) PROVE Quiet
      BY <2>1, CreateQuiet
    <2>. QED
      BY <1>1, <2>1
  <1>4. ASSUME ShopperRequest(h) PROVE Quiet
    <2>1. PICK c \in Carts, os \in SUBSET Public, by \in Origin : CreatePublic(h, c, os, by)
      BY <1>4 DEF ShopperRequest
    <2>2. os \in SUBSET Orders
      BY PublicAssumption
    <2>. QED
      BY <2>1, <2>2, CreateQuiet
  <1>5. ASSUME Request(h) PROVE Quiet
    BY <1>2, <1>3, <1>4, <1>5 DEF Request, StaffFulfils
  <1>6. ASSUME Abandon(h) PROVE Quiet
    BY <1>6, QuietGoto DEF Abandon, Finish, Idle, square, database
  <1>. QED
    BY <1>5, <1>6

-----------------------------------------------------------------------------
LEMMA MoneyKinds ==
    ASSUME TypeOK, [Next]_vars
    PROVE  \/ Quiet
           \/ World
           \/ \E h \in Handlers : ApplyFetched(h) \/ WriteFulfilled(h)
  <1>1. CASE UNCHANGED vars
    BY <1>1 DEF vars, Quiet, KeepsCart, KeepsOrders, NewJob
  <1>2. ASSUME NEW h \in Handlers, Deliver(h) \/ Step(h) \/ Failure(h) \/ Request(h)
        PROVE  Quiet \/ ApplyFetched(h) \/ WriteFulfilled(h)
    BY <1>2, BillingQuiet, CartQuiet, TerminalQuiet, WebhookQuiet, RequestQuiet
    DEF Deliver, Step, Failure
  <1>. QED
    BY <1>1, <1>2 DEF Next, Progress

\* Square forgets neither money collected nor a refund.
LEMMA PaysGrow ==
    ASSUME TypeOK, RefundedWasPaid, World
    PROVE  /\ \A c \in Carts, k \in OrderKind : Backed(pays[c][k], pays'[c][k])
           /\ RefundedWasPaid'
           /\ UNCHANGED <<cart, lines, claims, ord, job>>
  <1>. PICK c \in Carts :
          \/ CustomerPays(c)
          \/ Capture(c)
          \/ \E n \in Attempt : TapCard(c, n) \/ DeviceCancels(c, n)
          \/ \E k \in OrderKind : RefundUnit(c, k)
    BY DEF World
  <1>1. ASSUME NEW k \in OrderKind, NEW p \in RemotePayment, PaymentIs(c, k, p),
               Backed(pays[c][k], p), is_refunded(p) => is_completed(p)
        PROVE  /\ \A d \in Carts, i \in OrderKind : Backed(pays[d][i], pays'[d][i])
               /\ RefundedWasPaid'
    BY <1>1 DEF PaymentIs, Backed, RefundedWasPaid, TypeOK, SquareTypeOK
  <1>2. "link" \in OrderKind /\ "order" \in OrderKind
    BY DEF OrderKind
  <1>3. ASSUME NEW k \in OrderKind PROVE pays[c][k] \in RemotePayment
    BY DEF TypeOK, SquareTypeOK
  <1>4. UNCHANGED <<cart, lines, claims, ord, job>>
    BY DEF World, database
  <1>5. CASE CustomerPays(c)
    <2>. DEFINE p == [pays[c]["link"] EXCEPT !.status = "APPROVED"]
    <2>1. p \in RemotePayment /\ p.refunded = pays[c]["link"].refunded /\ ~is_completed(pays[c]["link"])
      BY <1>2, <1>3, <1>5 DEF CustomerPays, Authorize, RemotePayment, is_completed
    <2>2. ~is_refunded(pays[c]["link"])
      BY <1>2, <2>1 DEF RefundedWasPaid
    <2>3. Backed(pays[c]["link"], p) /\ ~is_refunded(p) /\ PaymentIs(c, "link", p)
      BY <1>5, <2>1, <2>2 DEF CustomerPays, Authorize, Backed, is_refunded
    <2>. HIDE DEF p
    <2>. QED
      BY <1>1, <1>2, <1>4, <2>1, <2>3
  <1>6. CASE Capture(c)
    <2>. DEFINE p == [pays[c]["link"] EXCEPT !.status = "COMPLETED"]
    <2>1. p \in RemotePayment /\ p.refunded = pays[c]["link"].refunded /\ is_completed(p)
      BY <1>2, <1>3 DEF RemotePayment, is_completed
    <2>2. Backed(pays[c]["link"], p) /\ PaymentIs(c, "link", p)
      BY <1>6, <2>1 DEF Capture, Backed, is_refunded
    <2>. HIDE DEF p
    <2>. QED
      BY <1>1, <1>2, <1>4, <2>1, <2>2
  <1>7. ASSUME NEW n \in Attempt, TapCard(c, n)
        PROVE  /\ \A d \in Carts, i \in OrderKind : Backed(pays[d][i], pays'[d][i])
               /\ RefundedWasPaid'
    <2>. DEFINE p == [pays[c]["order"] EXCEPT !.status = "COMPLETED"]
    <2>1. p \in RemotePayment /\ p.refunded = pays[c]["order"].refunded /\ is_completed(p)
      BY <1>2, <1>3 DEF RemotePayment, is_completed
    <2>2. Backed(pays[c]["order"], p) /\ PaymentIs(c, "order", p)
      BY <1>7, <2>1 DEF TapCard, Backed, is_refunded
    <2>. HIDE DEF p
    <2>. QED
      BY <1>1, <1>2, <2>1, <2>2
  <1>8. ASSUME NEW n \in Attempt, DeviceCancels(c, n)
        PROVE  /\ \A d \in Carts, i \in OrderKind : Backed(pays[d][i], pays'[d][i])
               /\ RefundedWasPaid'
    BY <1>8 DEF DeviceCancels, Backed, RefundedWasPaid
  <1>9. ASSUME NEW k \in OrderKind, RefundUnit(c, k)
        PROVE  /\ \A d \in Carts, i \in OrderKind : Backed(pays[d][i], pays'[d][i])
               /\ RefundedWasPaid'
    <2>. DEFINE p == [pays[c][k] EXCEPT !.refunded = @ + 1]
    <2>1. p.status = pays[c][k].status /\ p.refunded = pays[c][k].refunded + 1
      BY <1>3 DEF RemotePayment
    <2>2. pays[c][k].refunded \in 0..Total /\ pays[c][k].refunded + 1 \in 0..Total
      BY <1>3, <1>9, TotalAssumption DEF RefundUnit, RemotePayment
    <2>3. p \in RemotePayment
      <3>1. \A q \in RemotePayment, r \in 0..Total : [q EXCEPT !.refunded = r] \in RemotePayment
        BY DEF RemotePayment
      <3>. QED
        BY <1>3, <2>2, <3>1
    <2>4. is_refunded(p) /\ is_completed(p)
      BY <1>9, <2>1, <2>2, TotalAssumption DEF is_refunded, is_completed, RefundUnit
    <2>5. PaymentIs(c, k, p)
      BY <1>9 DEF RefundUnit
    <2>. HIDE DEF p
    <2>. QED
      BY <1>1, <2>3, <2>4, <2>5 DEF Backed
  <1>. QED
    BY <1>5, <1>6, <1>7, <1>8, <1>9, <1>4

-----------------------------------------------------------------------------
\* What a payment read earlier may still do.
LEMMA ApplyMoney ==
    ASSUME TypeOK, ClaimsInv, MoneyInv, NEW h \in Handlers, ApplyFetched(h)
    PROVE  /\ SettledHasOrder' /\ SettledHasMoney' /\ SoldHasMoney'
           /\ \A o \in Orders : ord[o] = "fulfilled" => ord'[o] = "fulfilled"
  <1>. DEFINE c == job[h].c
              k == job[h].k
              p == job[h].pay
  <1>1. c \in Carts /\ k \in OrderKind /\ p \in RemotePayment /\ k # NoOrder
    BY JobFields, NullAssumption DEF TypeOK, ApplyFetched, At
  <1>2. UNCHANGED <<pays, lines>>
    BY DEF ApplyFetched, apply_payment, square
  <1>3. Backed(p, pays[c][k]) /\ cart[c] \in Cart /\ claims[c] \subseteq lines[c]
    BY <1>1 DEF MoneyInv, Snapshots, ApplyFetched, At, TypeOK, DatabaseTypeOK, ClaimsInv,
       ReleasedTogether
  <1>4. Outcome(c, k, p) \in {"Paid", "Refunded", "Pending", "NoChange"} => cart[c].sq = k
    BY DEF Outcome
  <1>5. /\ Outcome(c, k, p) = "Paid" => is_completed(p)
        /\ Outcome(c, k, p) = "Refunded" => is_refunded(p)
    BY DEF Outcome
  <1>6. ASSUME NEW to \in {"lead", "paid"}, NEW from \in {"lead", "paid"},
               MoveOrders(c, from, to), to = "lead" \/ is_completed(pays[c][k])
        PROVE  SoldHasMoney' /\ \A o \in Orders : ord[o] = "fulfilled" => ord'[o] = "fulfilled"
    <2>1. ASSUME NEW o \in Orders, ord'[o] \in SoldStatus
          PROVE  Funded(o)
      <3>1. CASE ord'[o] = ord[o]
        BY <2>1, <3>1 DEF MoneyInv, SoldHasMoney, Funded, SoldStatus
      <3>2. CASE ord'[o] # ord[o]
        BY <1>1, <1>3, <1>6, <2>1, <3>2 DEF MoveOrders, Funded, SoldStatus
      <3>. QED
        BY <3>1, <3>2
    <2>2. \A o \in Orders : ord[o] = "fulfilled" => ord'[o] = "fulfilled"
      BY <1>6 DEF MoveOrders
    <2>. QED
      BY <1>2, <2>1, <2>2 DEF SoldHasMoney, Funded, SoldStatus
  <1>7. CASE Outcome(c, k, p) = "Paid" /\ SettlePaid(c, k)
    <2>1. is_completed(pays[c][k])
      BY <1>3, <1>5, <1>7 DEF Backed
    <2>2. /\ cart'[c].status = "paid" /\ cart'[c].payment = k /\ cart'[c].sq = k
          /\ \A d \in Carts \ {c} : cart'[d] = cart[d]
      BY <1>1, <1>3, <1>4, <1>7 DEF SettlePaid, UpdateCart, Cart, TypeOK, DatabaseTypeOK
    <2>3. SettledHasOrder' /\ SettledHasMoney'
      BY <1>1, <1>2, <2>1, <2>2 DEF MoneyInv, SettledHasOrder, SettledHasMoney
    <2>. QED
      BY <1>6, <1>7, <2>1, <2>3 DEF SettlePaid
  <1>8. CASE Outcome(c, k, p) = "Refunded" /\ SettleRefunded(c, k, p)
    <2>1. is_refunded(pays[c][k]) /\ is_completed(pays[c][k])
      BY <1>1, <1>3, <1>5, <1>8 DEF Backed, MoneyInv, RefundedWasPaid
    <2>2. /\ cart'[c].status = "refunded" /\ cart'[c].payment = k /\ cart'[c].sq = k
          /\ \A d \in Carts \ {c} : cart'[d] = cart[d]
      BY <1>1, <1>3, <1>4, <1>8 DEF SettleRefunded, UpdateCart, Cart, TypeOK, DatabaseTypeOK
    <2>3. SettledHasOrder' /\ SettledHasMoney'
      BY <1>1, <1>2, <2>1, <2>2 DEF MoneyInv, SettledHasOrder, SettledHasMoney
    <2>. QED
      BY <1>6, <1>8, <2>3 DEF SettleRefunded
  <1>9. CASE Outcome(c, k, p) \in {"Pending", "NoChange"} /\ NotePayment(c, k)
    <2>1. /\ cart'[c].status = cart[c].status /\ cart'[c].sq = k /\ cart[c].sq = k
          /\ cart[c].payment # NoOrder => cart'[c].payment = cart[c].payment
          /\ \A d \in Carts \ {c} : cart'[d] = cart[d]
      BY <1>1, <1>3, <1>4, <1>9 DEF NotePayment, UpdateCart, Cart, TypeOK, DatabaseTypeOK
    <2>2. SettledHasOrder' /\ SettledHasMoney'
      BY <1>1, <1>2, <2>1 DEF MoneyInv, SettledHasOrder, SettledHasMoney
    <2>. QED
      BY <1>2, <1>9, <2>2 DEF NotePayment, MoneyInv, SoldHasMoney
  <1>10. CASE UNCHANGED <<cart, ord>>
    BY <1>2, <1>10 DEF MoneyInv, SettledHasOrder, SettledHasMoney, SoldHasMoney
  <1>. QED
    BY <1>7, <1>8, <1>9, <1>10 DEF ApplyFetched, apply_payment

-----------------------------------------------------------------------------
LEMMA InitMoney == Init => MoneyInv
  BY DEF Init, SquareInit, BillingInit, MoneyInv, RefundedWasPaid, is_refunded, Snapshots,
     FulfilJobs, SettledHasOrder, SettledHasMoney, SoldHasMoney, SettledStatus, NoCart, Idle

\* Funding lasts: lines only ever grow, and money stays collected.
LEMMA FundedLasts ==
    ASSUME TypeOK, ClaimsInv, [Next]_vars,
           \A c \in Carts, k \in OrderKind : Backed(pays[c][k], pays'[c][k]),
           NEW o, Funded(o)
    PROVE  Funded(o)'
  <1>1. \A c \in Carts : lines[c] \subseteq lines'[c]
    BY StepKinds DEF ClaimsInv, KeepsAll, Keeps, Cancels, Creates, InsertCart, UnusedIsEmpty,
       Exists, TypeOK, DatabaseTypeOK
  <1>. QED
    BY <1>1 DEF Funded, Backed

LEMMA NextMoney == TypeOK /\ ClaimsInv /\ MoneyInv /\ [Next]_vars => MoneyInv'
  <1>. SUFFICES ASSUME TypeOK, ClaimsInv, MoneyInv, [Next]_vars PROVE MoneyInv'
    OBVIOUS
  <1>1. TypeOK'
    BY NextTypeOK
  <1>2. CASE Quiet
    <2>1. \A c \in Carts, k \in OrderKind : Backed(pays[c][k], pays'[c][k])
      BY <1>2 DEF Quiet, Backed
    <2>2. RefundedWasPaid'
      BY <1>2 DEF Quiet, MoneyInv, RefundedWasPaid
    <2>3. Snapshots'
      BY <1>2 DEF Quiet, NewJob, MoneyInv, Snapshots, Backed
    <2>4. FulfilJobs'
      <3>. SUFFICES ASSUME NEW h \in Handlers, job'[h].pc = "fulfil",
                           NEW o, o = job'[h].o
                    PROVE  Funded(o)'
        BY DEF FulfilJobs, Funded
      <3>1. o \in Orders
        BY <1>1, JobFields DEF TypeOK
      <3>2. Funded(o)
        BY <1>2, <3>1 DEF Quiet, NewJob, MoneyInv, FulfilJobs, SoldHasMoney, Funded, SoldStatus
      <3>. QED
        BY <2>1, <3>2, FundedLasts
    <2>5. SettledHasOrder' /\ SettledHasMoney'
      BY <1>2 DEF Quiet, KeepsCart, MoneyInv, SettledHasOrder, SettledHasMoney, SettledStatus
    <2>6. SoldHasMoney'
      <3>. SUFFICES ASSUME NEW o \in Orders, ord'[o] \in SoldStatus
                    PROVE  Funded(o)'
        BY DEF SoldHasMoney, SoldStatus, Funded
      <3>1. Funded(o)
        BY <1>2 DEF Quiet, KeepsOrders, MoneyInv, SoldHasMoney, SoldStatus, Funded
      <3>. QED
        BY <2>1, <3>1, FundedLasts
    <2>. QED
      BY <2>2, <2>3, <2>4, <2>5, <2>6 DEF MoneyInv
  <1>3. CASE World
    <2>1. /\ \A c \in Carts, k \in OrderKind : Backed(pays[c][k], pays'[c][k])
          /\ RefundedWasPaid'
          /\ UNCHANGED <<cart, lines, claims, ord, job>>
      BY <1>3, PaysGrow DEF MoneyInv
    <2>2. Snapshots'
      BY <2>1, JobFields DEF MoneyInv, Snapshots, Backed, TypeOK
    <2>3. FulfilJobs'
      BY <2>1 DEF MoneyInv, FulfilJobs, Funded, Backed
    <2>4. SettledHasOrder' /\ SettledHasMoney'
      <3>. SUFFICES ASSUME NEW c \in Carts, cart[c].status \in SettledStatus
                    PROVE  /\ cart[c].payment = cart[c].sq
                           /\ is_completed(pays'[c][cart[c].sq])
                           /\ cart[c].status = "refunded" => is_refunded(pays'[c][cart[c].sq])
        BY <2>1 DEF SettledHasOrder, MoneyInv, SettledHasMoney, SettledStatus
      <3>1. cart[c].sq \in OrderKind
        BY DEF MoneyInv, SettledHasOrder
      <3>. QED
        BY <2>1, <3>1 DEF MoneyInv, SettledHasMoney, SettledStatus, Backed
    <2>5. SoldHasMoney'
      BY <2>1 DEF MoneyInv, SoldHasMoney, Backed
    <2>. QED
      BY <2>1, <2>2, <2>3, <2>4, <2>5 DEF MoneyInv
  <1>4. ASSUME NEW h \in Handlers, ApplyFetched(h) PROVE MoneyInv'
    <2>1. UNCHANGED <<pays, lines>>
      BY <1>4 DEF ApplyFetched, apply_payment, square
    <2>2. \A g \in Handlers : job'[g].pc \in {"apply", "fulfil"} => job'[g] = job[g]
      BY <1>4 DEF ApplyFetched, Done, Goto, Idle, TypeOK
    <2>3. RefundedWasPaid' /\ Snapshots' /\ FulfilJobs'
      BY <2>1, <2>2 DEF MoneyInv, RefundedWasPaid, Snapshots, FulfilJobs, Funded
    <2>. QED
      BY <1>4, <2>3, ApplyMoney DEF MoneyInv
  <1>5. ASSUME NEW h \in Handlers, WriteFulfilled(h) PROVE MoneyInv'
    <2>1. UNCHANGED <<pays, lines, cart>>
      BY <1>5 DEF WriteFulfilled, square
    <2>2. \A g \in Handlers : job'[g].pc \in {"apply", "fulfil"} => job'[g] = job[g]
      BY <1>5 DEF WriteFulfilled, Finish, Goto, Idle, TypeOK
    <2>3. RefundedWasPaid' /\ Snapshots' /\ FulfilJobs' /\ SettledHasOrder' /\ SettledHasMoney'
      BY <2>1, <2>2
      DEF MoneyInv, RefundedWasPaid, Snapshots, FulfilJobs, Funded, SettledHasOrder, SettledHasMoney
    <2>4. Funded(job[h].o)
      BY <1>5 DEF WriteFulfilled, At, MoneyInv, FulfilJobs
    <2>5. \A o \in Orders : ord'[o] # ord[o] => o = job[h].o
      BY <1>5 DEF WriteFulfilled, TypeOK, DatabaseTypeOK
    <2>6. SoldHasMoney'
      BY <2>1, <2>4, <2>5 DEF MoneyInv, SoldHasMoney, Funded
    <2>. QED
      BY <2>3, <2>6 DEF MoneyInv
  <1>. QED
    BY <1>2, <1>3, <1>4, <1>5, MoneyKinds

THEOREM MoneyInvariant == Spec => [](TypeOK /\ ClaimsInv /\ MoneyInv)
  BY InitTypeOK, NextTypeOK, InitClaims, NextClaims, InitMoney, NextMoney, PTL DEF Spec

\* A cart says paid or refunded only if Square collected or returned money on
\* the order it carries, however stale the payment that settled it was.
THEOREM SettledCartsHaveMoney == Spec => []SettledHasMoney
  BY MoneyInvariant, PTL DEF MoneyInv

\* No order of events sells or hands over a blend that no cart built from it
\* was ever paid for.
THEOREM SoldBlendsHaveMoney == Spec => []SoldHasMoney
  BY MoneyInvariant, PTL DEF MoneyInv

\* A blend handed over is never taken back by a payment, a refund or a cancel.
THEOREM FulfilledBlendsStay == Spec => FulfilledIsFinal
  <1>1. TypeOK /\ ClaimsInv /\ MoneyInv /\ [Next]_vars
           => [\A o \in Orders : ord[o] = "fulfilled" => ord'[o] = "fulfilled"]_vars
    <2>. SUFFICES ASSUME TypeOK, ClaimsInv, MoneyInv, [Next]_vars
                  PROVE  \A o \in Orders : ord[o] = "fulfilled" => ord'[o] = "fulfilled"
      OBVIOUS
    <2>1. CASE Quiet
      BY <2>1 DEF Quiet, KeepsOrders
    <2>2. CASE World
      BY <2>2 DEF World, database
    <2>3. ASSUME NEW h \in Handlers, ApplyFetched(h) \/ WriteFulfilled(h)
          PROVE  \A o \in Orders : ord[o] = "fulfilled" => ord'[o] = "fulfilled"
      BY <2>3, ApplyMoney DEF WriteFulfilled, TypeOK, DatabaseTypeOK
    <2>. QED
      BY <2>1, <2>2, <2>3, MoneyKinds
  <1>. QED
    BY <1>1, MoneyInvariant, PTL DEF Spec, FulfilledIsFinal

(***************************************************************************)
(* IV.  A paid cart sold its blends.                                       *)
(*                                                                         *)
(* A settlement moves the claimed orders that are leads, so what could go  *)
(* wrong is an order that is claimed and gone, or that comes back as a     *)
(* lead by a step on another cart: claims being exclusive rules both out.  *)
(***************************************************************************)

ClaimedExist == \A c \in Carts : \A o \in claims[c] : ord[o] # "none"

SaleInv == ClaimedExist /\ PaidCartSoldItsBlends

\* Every other step leaves claims and orders alone and pays no cart.
Unsold ==
    /\ UNCHANGED <<claims, ord>>
    /\ \A c \in Carts : cart'[c].status = "paid" => cart[c].status = "paid"

\* The steps that do not.
Sale(h) ==
    \/ \E c \in Carts, os \in SUBSET Orders : Create(h, c, os)
    \/ \E c \in Carts, os \in SUBSET Public, by \in Origin : CreatePublic(h, c, os, by)
    \/ CancelTx(h)
    \/ ApplyFetched(h)
    \/ WriteFulfilled(h)

LEMMA SaleKinds ==
    ASSUME TypeOK, [Next]_vars
    PROVE  Unsold \/ \E h \in Handlers : Sale(h)
  <1>1. Quiet => \A c \in Carts : cart'[c].status = "paid" => cart[c].status = "paid"
    BY DEF Quiet, KeepsCart, SettledStatus
  <1>2. CASE World
    BY <1>2 DEF World, database, Unsold
  <1>3. CASE UNCHANGED vars
    BY <1>3 DEF vars, Unsold
  <1>4. ASSUME NEW h \in Handlers, Request(h)
        PROVE  UNCHANGED <<claims, ord>> \/ Sale(h)
    BY <1>4 DEF Request, StaffRequest, StaffFulfils, ShopperRequest, Sale, Checkout, Refresh,
                StartCancel, Charge, Status, CancelCheckout, Fulfil, database
  <1>5. ASSUME NEW h \in Handlers, Step(h)
        PROVE  UNCHANGED <<claims, ord>> \/ Sale(h)
    <2>1. CASE BillingStep(h)
      BY <2>1 DEF BillingStep, Sale, FetchPayment, FetchNothing, CancelRead, CancelDevice,
                  WriteCancel, CancelRefused, VoidLink, Expire, database
    <2>2. CASE CartStep(h) \/ TerminalStep(h)
      BY <2>2 DEF CartStep, TerminalStep, Sale, CreateLink, CreateLinkFails, WriteLink,
                  CreateOrder, WriteOrder, SendCheckout, RecordCheckout, GetCheckout,
                  CancelCall, database
    <2>3. CASE Upsert(h) \/ Sync(h) \/ Settle(h)
      BY <2>3 DEF Upsert, Sync, Settle, database
    <2> QED
      BY <1>5, <2>1, <2>2, <2>3 DEF Step
  <1>6. ASSUME NEW h \in Handlers, Deliver(h) \/ Failure(h)
        PROVE  UNCHANGED <<claims, ord>>
    BY <1>6 DEF Deliver, Failure, Receive, Abandon, SquareFails, database
  <1>7. ASSUME NEW h \in Handlers, ApplyFetched(h) \/ WriteFulfilled(h)
        PROVE  Sale(h)
    BY <1>7 DEF Sale
  <1>8. World \/ UNCHANGED vars \/ UNCHANGED <<claims, ord>> \/ \E h \in Handlers : Sale(h)
    BY <1>4, <1>5, <1>6 DEF Next, Progress
  <1> QED
    BY <1>1, <1>2, <1>3, <1>7, <1>8, MoneyKinds DEF Unsold

LEMMA InitSale == Init => SaleInv
  BY DEF Init, BillingInit, SaleInv, ClaimedExist, PaidCartSoldItsBlends, NoCart

\* A new cart claims orders that exist, or that its own transaction inserts.
LEMMA CreateSale ==
    ASSUME TypeOK, ClaimsInv, SaleInv, NEW h \in Handlers, NEW c \in Carts,
           NEW os \in SUBSET Orders, InsertCart(c, os),
           \/ UNCHANGED ord /\ \A o \in os : ord[o] # "none"
           \/ /\ \A o \in os : ord[o] = "none"
              /\ ord' = [o \in Orders |-> IF o \in os THEN "lead" ELSE ord[o]]
    PROVE  SaleInv'
  <1>1. /\ claims' = [claims EXCEPT ![c] = os]
        /\ cart' = [cart EXCEPT ![c] = [NoCart EXCEPT !.status = "open"]]
        /\ os \intersect Claimed = {}
    BY DEF InsertCart, UpdateCart
  <1>2. \A o \in os : ord'[o] # "none"
    BY DEF TypeOK, DatabaseTypeOK
  <1>3. \A d \in Carts, o \in Orders : o \in claims[d] => ord'[o] = ord[o]
    BY DEF ClaimedExist, SaleInv
  <1>4. cart'[c].status = "open" /\ claims'[c] = os
    BY <1>1 DEF NoCart, TypeOK, DatabaseTypeOK
  <1>5. \A d \in Carts \ {c} : cart'[d] = cart[d] /\ claims'[d] = claims[d]
    BY <1>1 DEF TypeOK, DatabaseTypeOK
  <1>6. \A d \in Carts : claims[d] \subseteq Orders
    BY DEF TypeOK, DatabaseTypeOK
  <1>7. ClaimedExist'
    BY <1>2, <1>3, <1>4, <1>5, <1>6 DEF SaleInv, ClaimedExist
  <1>8. PaidCartSoldItsBlends'
    BY <1>3, <1>4, <1>5, <1>6 DEF SaleInv, PaidCartSoldItsBlends
  <1> QED
    BY <1>7, <1>8 DEF SaleInv

\* What the transaction deletes no cart claims any more.
LEMMA CancelSale ==
    ASSUME TypeOK, ClaimsInv, SaleInv, NEW h \in Handlers, CancelTx(h)
    PROVE  SaleInv'
  <1> DEFINE c == job[h].c
  <1>1. c \in Carts
    BY JobFields DEF TypeOK, CancelTx, At
  <1>2. /\ claims'[c] = {} /\ cart'[c].status # "paid"
        /\ \A d \in Carts \ {c} : claims'[d] = claims[d] /\ cart'[d] = cart[d]
    BY <1>1 DEF CancelTx, ReleaseClaims, UpdateCart, TypeOK, DatabaseTypeOK, Cart
  <1>3. \A d \in Carts \ {c} : \A o \in claims[d] : o \notin claims[c] /\ o \in Orders
    BY <1>1 DEF ClaimsInv, ClaimsExclusive, TypeOK, DatabaseTypeOK
  <1>4. \A d \in Carts \ {c} : \A o \in claims[d] : ord'[o] = ord[o]
    BY <1>3 DEF CancelTx
  <1> QED
    BY <1>2, <1>4 DEF SaleInv, ClaimedExist, PaidCartSoldItsBlends

\* A settlement moves every claimed order; a refund those of its own cart.
LEMMA ApplySale ==
    ASSUME TypeOK, ClaimsInv, SaleInv, NEW h \in Handlers, ApplyFetched(h)
    PROVE  SaleInv'
  <1> DEFINE c == job[h].c
             k == job[h].k
             p == job[h].pay
  <1>1. c \in Carts /\ k \in OrderKind /\ p \in RemotePayment
    BY JobFields DEF TypeOK, ApplyFetched, At
  <1>2. UNCHANGED claims /\ apply_payment(c, k, p)
    BY DEF ApplyFetched, apply_payment
  <1>3. \A d \in Carts : \A o \in claims[d] : o \in Orders /\ ord[o] \in {"lead", "paid", "fulfilled"}
    BY DEF SaleInv, ClaimedExist, TypeOK, DatabaseTypeOK, OrderStatus
  <1>4. \A d \in Carts \ {c} : \A o \in claims[d] : o \notin claims[c]
    BY <1>1 DEF ClaimsInv, ClaimsExclusive
  <1>5. ASSUME NEW from, NEW to \in {"lead", "paid"}, MoveOrders(c, from, to)
        PROVE  /\ ClaimedExist'
               /\ \A d \in Carts \ {c} : \A o \in claims[d] : ord'[o] = ord[o]
    BY <1>2, <1>3, <1>4, <1>5 DEF MoveOrders, SaleInv, ClaimedExist
  <1>6. \A row : UpdateCart(c, row) =>
           /\ cart'[c] = row
           /\ \A d \in Carts \ {c} : cart'[d] = cart[d]
    BY <1>1 DEF UpdateCart, TypeOK, DatabaseTypeOK
  <1>7. cart[c] \in Cart
    BY <1>1 DEF TypeOK, DatabaseTypeOK
  <1>8. CASE SettlePaid(c, k)
    <2>1. ClaimedExist' /\ \A d \in Carts \ {c} : \A o \in claims[d] : ord'[o] = ord[o]
      BY <1>5, <1>8 DEF SettlePaid
    <2>2. \A o \in claims[c] : ord'[o] \in {"paid", "fulfilled"}
      BY <1>1, <1>3, <1>8 DEF SettlePaid, MoveOrders
    <2>3. \A d \in Carts \ {c} : cart'[d] = cart[d]
      BY <1>6, <1>8 DEF SettlePaid
    <2> QED
      BY <1>2, <2>1, <2>2, <2>3 DEF SaleInv, PaidCartSoldItsBlends
  <1>9. CASE SettleRefunded(c, k, p)
    <2>1. ClaimedExist' /\ \A d \in Carts \ {c} : \A o \in claims[d] : ord'[o] = ord[o]
      BY <1>5, <1>9 DEF SettleRefunded
    <2>2. cart'[c].status = "refunded" /\ \A d \in Carts \ {c} : cart'[d] = cart[d]
      BY <1>1, <1>7, <1>9 DEF SettleRefunded, UpdateCart, Cart, TypeOK, DatabaseTypeOK
    <2> QED
      BY <1>2, <2>1, <2>2 DEF SaleInv, PaidCartSoldItsBlends
  <1>10. CASE NotePayment(c, k)
    <2>1. cart'[c].status = cart[c].status /\ \A d \in Carts \ {c} : cart'[d] = cart[d]
      BY <1>6, <1>7, <1>10 DEF NotePayment, Cart
    <2>2. UNCHANGED ord
      BY <1>10 DEF NotePayment
    <2> QED
      BY <1>2, <2>1, <2>2 DEF SaleInv, ClaimedExist, PaidCartSoldItsBlends
  <1>11. CASE UNCHANGED <<cart, ord>>
    BY <1>2, <1>11 DEF SaleInv, ClaimedExist, PaidCartSoldItsBlends
  <1> QED
    BY <1>2, <1>8, <1>9, <1>10, <1>11 DEF apply_payment

LEMMA NextSale == TypeOK /\ ClaimsInv /\ SaleInv /\ [Next]_vars => SaleInv'
  <1> SUFFICES ASSUME TypeOK, ClaimsInv, SaleInv, [Next]_vars PROVE SaleInv'
    OBVIOUS
  <1>1. CASE Unsold
    BY <1>1 DEF Unsold, SaleInv, ClaimedExist, PaidCartSoldItsBlends
  <1>2. ASSUME NEW h \in Handlers, NEW c \in Carts, NEW os \in SUBSET Orders, Create(h, c, os)
        PROVE  SaleInv'
    BY <1>2, CreateSale DEF Create
  <1>3. ASSUME NEW h \in Handlers, NEW c \in Carts, NEW os \in SUBSET Public, NEW by \in Origin,
               CreatePublic(h, c, os, by)
        PROVE  SaleInv'
    BY <1>3, PublicAssumption, CreateSale DEF CreatePublic
  <1>4. ASSUME NEW h \in Handlers, WriteFulfilled(h) PROVE SaleInv'
    <2>1. UNCHANGED <<cart, claims>>
      BY <1>4 DEF WriteFulfilled
    <2>2. \A o \in Orders : ord'[o] = ord[o] \/ (ord[o] # "none" /\ ord'[o] = "fulfilled")
      BY <1>4 DEF WriteFulfilled, TypeOK, DatabaseTypeOK
    <2>3. \A d \in Carts : claims[d] \subseteq Orders
      BY DEF TypeOK, DatabaseTypeOK
    <2> QED
      BY <2>1, <2>2, <2>3 DEF SaleInv, ClaimedExist, PaidCartSoldItsBlends
  <1> QED
    BY <1>1, <1>2, <1>3, <1>4, CancelSale, ApplySale, SaleKinds DEF Sale

\* Whatever other carts are created, canceled, refunded or settled meanwhile, a
\* cart that says paid has none of its blends left as a lead.
THEOREM PaidCartsSoldTheirBlends == Spec => []PaidCartSoldItsBlends
  <1>1. TypeOK /\ ClaimsInv /\ SaleInv /\ [Next]_vars => SaleInv'
    BY NextSale
  <1> QED
    BY <1>1, InitSale, ClaimsInvariant, PTL DEF Spec, SaleInv
(***************************************************************************)
(* V.  What an event was filed as stays true.                              *)
(*                                                                         *)
(* checkout and charge read the cart without a lock and write              *)
(* square_order_id and status whatever the row says by then, so two of     *)
(* them on one cart can undo a settlement.  While no two are under way on  *)
(* one cart (OneSendAtATime), the cart gets its Square order once and      *)
(* before anyone can pay it; and what Square collected it collected on     *)
(* that order.                                                             *)
(***************************************************************************)

\* A request that has found its cart unsent, and will write what Square
\* answers.
SendPc == {"create_link", "write_link", "create_order", "write_order"}
Sends(h, c) == job[h].pc \in SendPc /\ job[h].c = c

\* The hypothesis: no two requests send one cart at the same time.
OneSendAtATime ==
    \A c \in Carts : \A g, h \in Handlers : Sends(g, c) /\ Sends(h, c) => g = h

Unsent == \A c \in Carts : cart[c].status \in {"none", "open"} => cart[c].sq = NoOrder

\* A cart can be paid only by the order it carries.
OneMethod ==
    \A c \in Carts :
       /\ cart[c].url => cart[c].sq = "link"
       /\ cart[c].method = "terminal" => cart[c].sq = "order"
       /\ \A k \in OrderKind : pays[c][k].status # "none" => cart[c].sq = k
       /\ \A n \in Attempt : tco[c][n] # "none" => cart[c].sq = "order"

Kept(e) == cart[e.c].sq = e.k /\ cart[e.c].status \in SettledStatus

\* What a handler has read still holds: its cart is unsent, or carries its
\* order; the payment of its event is collected, and once applied, kept.
SendJob(j) ==
    /\ j.pc \in SendPc => cart[j.c].sq = NoOrder
    /\ j.pc = "send" => cart[j.c].sq = "order"
EventJob(j) ==
    /\ j.pc = "upsert" => is_completed(pays[j.ev.c][j.ev.k])
    /\ j.pc \notin {"get_checkout", "record"}
    /\ j.pc \in {"fetch", "apply"} =>
          j.c = j.ev.c /\ j.k = j.ev.k /\ is_completed(pays[j.c][j.k])
    /\ j.pc = "apply" => is_completed(j.pay)
    /\ j.pc = "settle" => j.matched /\ Kept(j.ev)
EventPc == {"upsert", "get_checkout", "record", "fetch", "apply", "settle"}
JobHolds(j) == SendJob(j) /\ (j.pc \in EventPc /\ j.ev \in PaymentEvent => EventJob(j))
JobsHold == \A h \in Handlers : JobHolds(job[h])

Filed ==
    \A e \in PaymentEvent : log[e] # "unmatched" /\ (log[e] = "processed" => Kept(e))

FilingInv == Unsent /\ OneMethod /\ JobsHold /\ Filed

-----------------------------------------------------------------------------
\* A step that sends no cart and undoes no settlement.
SameSend(c) ==
    /\ cart'[c].sq = cart[c].sq
    /\ cart'[c].url => cart[c].url
    /\ cart'[c].method = "terminal" => cart[c].method = "terminal"
    /\ cart[c].status \in SettledStatus => cart'[c].status \in SettledStatus
    /\ cart'[c].status \in {"none", "open"} => cart[c].status \in {"none", "open"}

Steady ==
    /\ \A c \in Carts : SameSend(c)
    /\ \A c \in Carts, k \in OrderKind :
          /\ pays'[c][k].status # "none" => pays[c][k].status # "none" \/ cart[c].sq = k
          /\ is_completed(pays[c][k]) => is_completed(pays'[c][k])
    /\ \A c \in Carts, n \in Attempt :
          tco'[c][n] # "none" => tco[c][n] # "none" \/ cart[c].sq = "order"

LEMMA EventKinds ==
    /\ \A e \in PaymentEvent : e.c \in Carts /\ e.k \in OrderKind /\ e \in Event
    /\ \A e \in TerminalEvent : e.c \in Carts /\ e.n \in Attempt /\ e \in Event
    /\ \A e \in PaymentEvent : e.type # "terminal.checkout.updated"
    /\ \A e \in TerminalEvent : e \notin PaymentEvent
    /\ NoEvent \notin PaymentEvent
  BY NoEventAssumption DEF PaymentEvent, TerminalEvent, Event

LEMMA UntouchedIsSteady == ASSUME UNCHANGED <<cart, pays, tco>> PROVE Steady
  BY DEF Steady, SameSend

LEMMA KeptLasts ==
    ASSUME Steady, NEW e \in PaymentEvent, Kept(e)
    PROVE  Kept(e)'
  BY EventKinds DEF Kept, Steady, SameSend

\* What a handler has read, other handlers leave so.
LEMMA JobLasts ==
    ASSUME Steady, NEW j \in Job, JobHolds(j)
    PROVE  JobHolds(j)'
  <1>1. SendJob(j)'
    BY JobFields DEF JobHolds, SendJob, SendPc, Steady, SameSend
  <1>2. ASSUME j.pc \in EventPc, j.ev \in PaymentEvent PROVE EventJob(j)'
    <2>1. EventJob(j)
      BY <1>2 DEF JobHolds
    <2>2. \A c \in Carts, k \in OrderKind : is_completed(pays[c][k]) => is_completed(pays'[c][k])
      BY DEF Steady
    <2>3. j.pc = "settle" => Kept(j.ev)'
      BY <1>2, <2>1, KeptLasts DEF EventJob
    <2> QED
      BY <1>2, <2>1, <2>2, <2>3, EventKinds DEF EventJob
  <1> QED
    BY <1>1, <1>2 DEF JobHolds

LEMMA CartsLast ==
    ASSUME Unsent, OneMethod, Steady
    PROVE  Unsent' /\ OneMethod'
  <1>1. Unsent'
    BY DEF Unsent, Steady, SameSend
  <1>2. OneMethod'
    BY DEF OneMethod, Steady, SameSend
  <1> QED
    BY <1>1, <1>2

LEMMA FiledLasts ==
    ASSUME Filed, Steady,
           \A e \in PaymentEvent : \/ log'[e] \in {log[e], "received", "failed"}
                                   \/ log'[e] = "processed" /\ Kept(e)
    PROVE  Filed'
  <1>1. ASSUME NEW e \in PaymentEvent PROVE log'[e] # "unmatched" /\ (log'[e] = "processed" => Kept(e)')
    BY <1>1, KeptLasts DEF Filed
  <1> QED
    BY <1>1 DEF Filed

\* One handler goes on to job j.
LEMMA HandlerStep ==
    ASSUME TypeOK, TypeOK', JobsHold, Steady, NEW h \in Handlers, NEW j, Goto(h, j), JobHolds(j)'
    PROVE  JobsHold'
  <1>1. \A g \in Handlers : job'[g] = IF g = h THEN j ELSE job[g]
    BY DEF TypeOK, Goto
  <1>2. ASSUME NEW g \in Handlers PROVE JobHolds(job[g])'
    <2>1. PICK i : i = job'[g]
      OBVIOUS
    <2>2. JobHolds(i)'
      <3>1. CASE g = h
        BY <1>1, <2>1, <3>1
      <3>2. CASE g # h
        <4>1. i = job[g] /\ i \in Job /\ JobHolds(job[g])
          BY <1>1, <2>1, <3>2 DEF TypeOK, JobsHold
        <4>2. JobHolds(i)
          BY <4>1
        <4> QED
          BY <4>1, <4>2, JobLasts
      <3> QED
        BY <3>1, <3>2
    <2> QED
      BY <2>1, <2>2 DEF JobHolds, SendJob, EventJob, Kept
  <1> QED
    BY <1>2 DEF JobsHold

LEMMA HandlersStay ==
    ASSUME TypeOK, JobsHold, Steady, UNCHANGED job
    PROVE  JobsHold'
  <1>1. ASSUME NEW g \in Handlers PROVE JobHolds(job[g])'
    <2>1. PICK i : i = job[g]
      OBVIOUS
    <2>2. i \in Job /\ JobHolds(i)
      BY <2>1 DEF TypeOK, JobsHold
    <2>3. JobHolds(i)'
      BY <2>2, JobLasts
    <2> QED
      BY <2>1, <2>3 DEF JobHolds, SendJob, EventJob, Kept
  <1> QED
    BY <1>1 DEF JobsHold

\* A job at any other step has nothing to hold to.
LEMMA NothingToHold ==
    ASSUME NEW j, j.pc \notin SendPc \union {"send"} \union EventPc
    PROVE  JobHolds(j)'
  BY DEF JobHolds, SendJob

\* A job that no payment event started, at a step that sends nothing.
LEMMA NoPaymentEvent ==
    ASSUME NEW j, j.pc \notin SendPc \union {"send"}, j.ev \notin PaymentEvent
    PROVE  JobHolds(j)'
  BY DEF JobHolds, SendJob

\* The whole of a steady step, but for the job that goes on.
LEMMA SteadyStep ==
    ASSUME TypeOK, TypeOK', FilingInv, Steady, UNCHANGED log,
           NEW h \in Handlers, NEW j, Goto(h, j), JobHolds(j)'
    PROVE  FilingInv'
  <1>1. Filed'
    BY FiledLasts DEF FilingInv
  <1> QED
    BY <1>1, CartsLast, HandlerStep DEF FilingInv

LEMMA QuietlyGoes ==
    ASSUME TypeOK, TypeOK', FilingInv, UNCHANGED <<cart, pays, tco, log>>,
           NEW h \in Handlers, NEW j, Goto(h, j),
           j.pc \notin SendPc \union {"send"} \union EventPc
    PROVE  FilingInv'
  BY UntouchedIsSteady, NothingToHold, SteadyStep
-----------------------------------------------------------------------------
\* The updates of a row that neither send the cart nor unsettle it.
LEMMA RowSteady ==
    ASSUME TypeOK, NEW c \in Carts, NEW row, UpdateCart(c, row), UNCHANGED <<pays, tco>>,
           row.sq = cart[c].sq, row.url = cart[c].url, row.method = cart[c].method,
           cart[c].status \in SettledStatus => row.status \in SettledStatus,
           row.status \in {"none", "open"} => cart[c].status \in {"none", "open"}
    PROVE  Steady
  <1>1. \A d \in Carts : cart'[d] = IF d = c THEN row ELSE cart[d]
    BY DEF UpdateCart, TypeOK, DatabaseTypeOK
  <1> QED
    BY <1>1 DEF Steady, SameSend

\* The fields of a row an update leaves alone.
LEMMA RowFields ==
    ASSUME NEW row \in Cart
    PROVE  /\ \A s : LET r == [row EXCEPT !.status = s]
                     IN r.sq = row.sq /\ r.url = row.url /\ r.method = row.method /\ r.status = s
           /\ \A s : LET r == [row EXCEPT !.tstat = s]
                     IN r.sq = row.sq /\ r.url = row.url /\ r.method = row.method /\ r.status = row.status
           /\ \A n, s : LET r == [row EXCEPT !.tc = n, !.tstat = s]
                     IN r.sq = row.sq /\ r.url = row.url /\ r.method = row.method /\ r.status = row.status
           /\ \A k : LET r == [row EXCEPT !.payment = k]
                     IN r.sq = row.sq /\ r.url = row.url /\ r.method = row.method /\ r.status = row.status
           /\ \A s, n, k : LET r == [row EXCEPT !.status = s, !.paid = n, !.payment = k]
                     IN r.sq = row.sq /\ r.url = row.url /\ r.method = row.method /\ r.status = s
  BY DEF Cart

\* apply_payment settles the cart that carries a collected payment.
LEMMA ApplySettles ==
    ASSUME TypeOK, NEW c \in Carts, NEW k \in OrderKind, NEW p \in RemotePayment,
           apply_payment(c, k, p), UNCHANGED <<pays, tco>>
    PROVE  /\ Steady
           /\ cart[c].sq = k /\ is_completed(p) => cart'[c].sq = k /\ cart'[c].status \in SettledStatus
  <1>1. cart[c] \in Cart
    BY DEF TypeOK, DatabaseTypeOK
  <1>2. \A row : UpdateCart(c, row) => cart'[c] = row
    BY DEF UpdateCart, TypeOK, DatabaseTypeOK
  <1>3. CASE Outcome(c, k, p) = "Unmatched"
    <2>1. cart' = cart
      BY <1>3 DEF apply_payment
    <2>2. cart[c].sq # k
      BY <1>3 DEF Outcome
    <2> QED
      BY <2>1, <2>2, UntouchedIsSteady
  <1>4. CASE Outcome(c, k, p) = "Paid"
    <2>1. PICK row : row = [cart[c] EXCEPT !.status = "paid", !.paid = Total, !.payment = k]
      OBVIOUS
    <2>2. UpdateCart(c, row)
      BY <1>4, <2>1 DEF apply_payment, SettlePaid
    <2>3. row.sq = cart[c].sq /\ row.url = cart[c].url /\ row.method = cart[c].method /\ row.status = "paid"
      BY <1>1, <2>1, RowFields
    <2>4. Steady
      BY <2>2, <2>3, RowSteady DEF SettledStatus
    <2> QED
      BY <1>2, <2>2, <2>3, <2>4 DEF SettledStatus
  <1>5. CASE Outcome(c, k, p) = "Refunded"
    <2>1. PICK row : row = [cart[c] EXCEPT !.status = "refunded", !.paid = Total - p.refunded, !.payment = k]
      OBVIOUS
    <2>2. UpdateCart(c, row)
      BY <1>5, <2>1 DEF apply_payment, SettleRefunded
    <2>3. row.sq = cart[c].sq /\ row.url = cart[c].url /\ row.method = cart[c].method /\ row.status = "refunded"
      BY <1>1, <2>1, RowFields
    <2>4. Steady
      BY <2>2, <2>3, RowSteady DEF SettledStatus
    <2> QED
      BY <1>2, <2>2, <2>3, <2>4 DEF SettledStatus
  <1>6. CASE Outcome(c, k, p) \in {"Pending", "NoChange"}
    <2>1. PICK row : row = [cart[c] EXCEPT !.payment = IF @ = NoOrder THEN k ELSE @]
      OBVIOUS
    <2>2. UpdateCart(c, row)
      BY <1>6, <2>1 DEF apply_payment, NotePayment
    <2>3. row.sq = cart[c].sq /\ row.url = cart[c].url /\ row.method = cart[c].method
            /\ row.status = cart[c].status
      BY <1>1, <2>1 DEF Cart
    <2>4. Steady
      BY <2>2, <2>3, RowSteady
    <2>5. cart[c].sq = k /\ is_completed(p) => cart[c].status \in SettledStatus
      BY <1>6 DEF Outcome, SettledStatus
    <2> QED
      BY <1>2, <2>2, <2>3, <2>4, <2>5
  <1> QED
    BY <1>3, <1>4, <1>5, <1>6 DEF apply_payment

\* The event that started an apply finds the cart: collected money is on the
\* order the cart carries.
LEMMA ApplyFiles ==
    ASSUME TypeOK, TypeOK', FilingInv, NEW h \in Handlers, ApplyFetched(h), UNCHANGED webhooks
    PROVE  FilingInv'
  <1>1. PICK j \in Job : j = job[h]
    BY DEF TypeOK
  <1>2. j.pc = "apply" /\ j.c \in Carts /\ j.k \in OrderKind /\ j.pay \in RemotePayment
          /\ j.ev \in EventOrNone
    BY <1>1, JobFields DEF ApplyFetched, At
  <1>3. apply_payment(j.c, j.k, j.pay) /\ UNCHANGED <<pays, tco, log>>
    BY <1>1 DEF ApplyFetched, square, webhooks
  <1>4. /\ Steady
        /\ cart[j.c].sq = j.k /\ is_completed(j.pay) => cart'[j.c].sq = j.k /\ cart'[j.c].status \in SettledStatus
    BY <1>2, <1>3, ApplySettles
  <1>5. PICK m : m = Matched(h)
    OBVIOUS
  <1>6. JobHolds(j)
    BY <1>1 DEF FilingInv, JobsHold
  <1>7. CASE j.ev = NoEvent
    <2>1. Goto(h, Idle)
      BY <1>1, <1>7 DEF ApplyFetched, Done
    <2>2. JobHolds(Idle)'
      BY NothingToHold DEF Idle, SendPc, EventPc
    <2>3. PICK i : i = Idle
      OBVIOUS
    <2> QED
      BY <1>3, <1>4, <2>1, <2>2, <2>3, SteadyStep
  <1>8. CASE j.ev # NoEvent
    <2>1. PICK i : i = [pc |-> "settle", ev |-> j.ev, matched |-> m]
      OBVIOUS
    <2>2. Goto(h, i)
      BY <1>1, <1>5, <1>8, <2>1 DEF ApplyFetched, Done
    <2>3. i.pc = "settle" /\ i.ev = j.ev /\ i.matched = m
      BY <2>1
    <2>4. ASSUME j.ev \in PaymentEvent PROVE m /\ Kept(j.ev)'
      <3>1. /\ j.c = j.ev.c /\ j.k = j.ev.k
            /\ is_completed(pays[j.c][j.k]) /\ is_completed(j.pay)
        BY <1>2, <1>6, <2>4 DEF JobHolds, EventJob, EventPc
      <3>2. cart[j.c].sq = j.k
        BY <1>2, <3>1 DEF FilingInv, OneMethod, is_completed
      <3>3. m
        BY <1>1, <1>5, <3>2 DEF Matched
      <3>4. Kept(j.ev)'
        BY <1>4, <3>1, <3>2 DEF Kept
      <3> QED
        BY <3>3, <3>4
    <2>5. JobHolds(i)'
      BY <2>3, <2>4 DEF JobHolds, SendJob, EventJob, SendPc
    <2> QED
      BY <1>3, <1>4, <2>2, <2>5, SteadyStep
  <1> QED
    BY <1>7, <1>8

\* A checkout taken off its device was sent before.
LEMMA DeviceSteady ==
    ASSUME TypeOK, NEW c \in Carts, NEW n \in Attempt, NEW s,
           CanCancel(c, n), CancelTerminalCheckout(c, n, s), UNCHANGED cart
    PROVE  Steady
  <1>1. \A d \in Carts, m \in Attempt : tco'[d][m] # "none" => tco[d][m] # "none"
    BY DEF CanCancel, CancelTerminalCheckout, TypeOK, SquareTypeOK
  <1> QED
    BY <1>1 DEF Steady, SameSend, CancelTerminalCheckout

-----------------------------------------------------------------------------
LEMMA CancelFiles ==
    ASSUME TypeOK, TypeOK', FilingInv, NEW h \in Handlers, NEW c \in Carts, ReadForCancel(h, c),
           UNCHANGED <<cart, pays, tco, log>>
    PROVE  FilingInv'
  <1>1. \E j : Goto(h, j) /\ j.pc \in {"cancel_device", "cancel_tx"}
    BY DEF ReadForCancel
  <1>2. PICK j : Goto(h, j) /\ j.pc \in {"cancel_device", "cancel_tx"}
    BY <1>1
  <1> QED
    BY <1>2, QuietlyGoes DEF SendPc, EventPc

LEMMA BillingFiles ==
    ASSUME TypeOK, TypeOK', FilingInv, NEW h \in Handlers, BillingStep(h), UNCHANGED webhooks
    PROVE  FilingInv'
  <1>1. PICK j \in Job : j = job[h]
    BY DEF TypeOK
  <1>2. JobHolds(j)
    BY <1>1 DEF FilingInv, JobsHold
  <1>3. UNCHANGED log
    BY DEF webhooks
  <1>4. Idle.pc = "idle"
    BY DEF Idle
  <1>5. CASE FetchPayment(h)
    <2>1. j.pc = "fetch" /\ j.c \in Carts /\ j.k \in OrderKind
      BY <1>1, <1>5, JobFields DEF FetchPayment, At
    <2>2. PICK i : i = [pc |-> "apply", c |-> j.c, k |-> j.k, pay |-> pays[j.c][j.k], ev |-> j.ev]
      OBVIOUS
    <2>3. Goto(h, i) /\ UNCHANGED <<cart, pays, tco>>
      BY <1>1, <1>5, <2>2 DEF FetchPayment, square, database
    <2>4. i.pc = "apply" /\ i.c = j.c /\ i.k = j.k /\ i.pay = pays[j.c][j.k] /\ i.ev = j.ev
      BY <2>2
    <2>5. JobHolds(i)'
      BY <1>2, <2>1, <2>3, <2>4 DEF JobHolds, SendJob, EventJob, SendPc, EventPc
    <2> QED
      BY <1>3, <2>3, <2>5, UntouchedIsSteady, SteadyStep
  <1>6. CASE FetchNothing(h) \/ CancelRefused(h) \/ VoidLink(h)
    BY <1>3, <1>4, <1>6, QuietlyGoes
    DEF FetchNothing, CancelRefused, VoidLink, VoidCheckout, Finish, square, database, SendPc, EventPc
  <1>7. CASE ApplyFetched(h)
    BY <1>7, ApplyFiles
  <1>8. CASE CancelRead(h)
    <2>1. j.c \in Carts
      BY <1>1, <1>8, JobFields DEF CancelRead, At
    <2> QED
      BY <1>1, <1>3, <1>8, <2>1, CancelFiles DEF CancelRead, square, database
  <1>9. CASE CancelDevice(h)
    <2>1. j.c \in Carts /\ j.tc \in Attempt /\ UNCHANGED cart
      BY <1>1, <1>9, JobFields DEF CancelDevice, At, database
    <2>2. CASE CanCancel(j.c, j.tc)
      <3>1. PICK s \in TerminalStatus :
              /\ CancelTerminalCheckout(j.c, j.tc, s)
              /\ Goto(h, [pc |-> "write_cancel", c |-> j.c, url |-> j.url, tstat |-> s])
        BY <1>1, <1>9, <2>2 DEF CancelDevice
      <3>2. PICK i : i = [pc |-> "write_cancel", c |-> j.c, url |-> j.url, tstat |-> s]
        OBVIOUS
      <3>3. i.pc = "write_cancel" /\ Goto(h, i)
        BY <3>1, <3>2
      <3>4. Steady
        BY <2>1, <2>2, <3>1, DeviceSteady
      <3> QED
        BY <1>3, <3>3, <3>4, NothingToHold, SteadyStep DEF SendPc, EventPc
    <2>3. CASE ~CanCancel(j.c, j.tc)
      BY <1>1, <1>3, <1>4, <1>9, <2>1, <2>3, QuietlyGoes DEF CancelDevice, Finish, square, SendPc, EventPc
    <2> QED
      BY <2>2, <2>3
  <1>10. CASE WriteCancel(h)
    <2>1. j.c \in Carts /\ cart[j.c] \in Cart
      BY <1>1, <1>10, JobFields DEF WriteCancel, At, TypeOK, DatabaseTypeOK
    <2>2. PICK row : row = [cart[j.c] EXCEPT !.tstat = j.tstat]
      OBVIOUS
    <2>3. UpdateCart(j.c, row) /\ UNCHANGED <<pays, tco>>
      BY <1>1, <1>10, <2>2 DEF WriteCancel, square
    <2>4. row.sq = cart[j.c].sq /\ row.url = cart[j.c].url /\ row.method = cart[j.c].method
            /\ row.status = cart[j.c].status
      BY <2>1, <2>2, RowFields
    <2>5. Steady
      BY <2>1, <2>3, <2>4, RowSteady
    <2>6. PICK i : Goto(h, i) /\ i.pc = "cancel_tx"
      BY <1>10 DEF WriteCancel
    <2> QED
      BY <1>3, <2>5, <2>6, NothingToHold, SteadyStep DEF SendPc, EventPc
  <1>11. CASE CancelTx(h)
    <2>1. j.c \in Carts /\ cart[j.c] \in Cart
      BY <1>1, <1>11, JobFields DEF CancelTx, At, TypeOK, DatabaseTypeOK
    <2>2. PICK row : row = [cart[j.c] EXCEPT !.status = "canceled"]
      OBVIOUS
    <2>3. UpdateCart(j.c, row) /\ UNCHANGED <<pays, tco>> /\ cart[j.c].status \notin SettledStatus
      BY <1>1, <1>11, <2>2 DEF CancelTx, square, Unpaid, SettledStatus
    <2>4. row.sq = cart[j.c].sq /\ row.url = cart[j.c].url /\ row.method = cart[j.c].method
            /\ row.status = "canceled"
      BY <2>1, <2>2, RowFields
    <2>5. Steady
      BY <2>1, <2>3, <2>4, RowSteady
    <2>6. \E i : Goto(h, i) /\ i.pc \in {"void", "idle"}
      BY <1>4, <1>11 DEF CancelTx
    <2>7. PICK i : Goto(h, i) /\ i.pc \in {"void", "idle"}
      BY <2>6
    <2> QED
      BY <1>3, <2>5, <2>7, NothingToHold, SteadyStep DEF SendPc, EventPc
  <1>12. CASE \E c \in Carts : Expire(h, c)
    <2>1. PICK i : Goto(h, i) /\ i.pc = "cancel_read"
      BY <1>12 DEF Expire
    <2> QED
      BY <1>3, <1>12, <2>1, QuietlyGoes DEF Expire, square, database, SendPc, EventPc
  <1> QED
    BY <1>5, <1>6, <1>7, <1>8, <1>9, <1>10, <1>11, <1>12 DEF BillingStep
-----------------------------------------------------------------------------
\* The two writes that send a cart.  Nobody else is sending it, and it carried
\* no order, so nothing that others have read of it changes.
LEMMA SendFiles ==
    ASSUME TypeOK, TypeOK', FilingInv, OneSendAtATime, NEW h \in Handlers, NEW i,
           job[h].pc \in SendPc, NEW c \in Carts, job[h].c = c, NEW row, UpdateCart(c, row),
           row.status = "pending_payment",
           row.sq \in OrderKind,
           row.url => cart[c].url \/ row.sq = "link",
           row.method = "terminal" => cart[c].method = "terminal" \/ row.sq = "order",
           Goto(h, i), i.pc \in {"idle", "send"}, i.pc = "send" => i.c = c /\ row.sq = "order",
           UNCHANGED <<pays, tco, log>>
    PROVE  FilingInv'
  <1>1. cart[c].sq = NoOrder
    <2>1. JobHolds(job[h])
      BY DEF FilingInv, JobsHold
    <2> QED
      BY <2>1 DEF JobHolds, SendJob
  <1>2. \A d \in Carts : cart'[d] = IF d = c THEN row ELSE cart[d]
    BY DEF UpdateCart, TypeOK, DatabaseTypeOK
  <1>3. NoOrder # "link" /\ NoOrder # "order" /\ \A k \in OrderKind : k # NoOrder
    BY NullAssumption DEF OrderKind
  <1>4. Unsent'
    BY <1>2 DEF FilingInv, Unsent
  <1>5. OneMethod'
    BY <1>1, <1>2, <1>3 DEF FilingInv, OneMethod
  <1>6. ASSUME NEW e \in PaymentEvent, Kept(e) PROVE Kept(e)'
    BY <1>1, <1>2, <1>3, <1>6, EventKinds DEF Kept
  <1>7. Filed'
    BY <1>6 DEF FilingInv, Filed
  <1>8. ASSUME NEW g \in Handlers PROVE JobHolds(job[g])'
    <2>1. PICK j : j = job'[g]
      OBVIOUS
    <2>2. CASE g = h
      <3>1. j = i
        BY <2>1, <2>2 DEF Goto, TypeOK
      <3>2. SendJob(j)'
        BY <1>2, <3>1 DEF SendJob, SendPc
      <3> QED
        BY <2>1, <3>1, <3>2 DEF JobHolds, SendJob, EventPc
    <2>3. CASE g # h
      <3>1. j = job[g] /\ j \in Job
        BY <2>1, <2>3 DEF Goto, TypeOK
      <3>2. JobHolds(j)
        BY <3>1 DEF FilingInv, JobsHold
      <3>3. j.pc \in SendPc => j.c # c
        BY <2>3, <3>1 DEF OneSendAtATime, Sends
      <3>4. j.pc = "send" => j.c # c
        BY <1>1, <1>3, <3>2 DEF JobHolds, SendJob
      <3>5. j.pc \in SendPc \union {"send"} => j.c \in Carts
        BY <3>1, JobFields DEF SendPc
      <3>6. SendJob(j)'
        BY <1>2, <3>2, <3>3, <3>4, <3>5 DEF JobHolds, SendJob
      <3>7. ASSUME j.pc \in EventPc, j.ev \in PaymentEvent PROVE EventJob(j)'
        <4>1. EventJob(j)
          BY <3>2, <3>7 DEF JobHolds
        <4>2. j.pc = "settle" => Kept(j.ev)'
          BY <1>6, <3>7, <4>1 DEF EventJob
        <4> QED
          BY <4>1, <4>2 DEF EventJob
      <3>8. JobHolds(j)'
        BY <3>6, <3>7 DEF JobHolds
      <3> QED
        BY <2>1, <3>8 DEF JobHolds, SendJob, EventJob, Kept
    <2> QED
      BY <2>2, <2>3
  <1> QED
    BY <1>4, <1>5, <1>7, <1>8 DEF FilingInv, JobsHold

LEMMA CartFiles ==
    ASSUME TypeOK, TypeOK', FilingInv, OneSendAtATime, NEW h \in Handlers, CartStep(h),
           UNCHANGED webhooks
    PROVE  FilingInv'
  <1>1. PICK j \in Job : j = job[h]
    BY DEF TypeOK
  <1>2. JobHolds(j)
    BY <1>1 DEF FilingInv, JobsHold
  <1>3. UNCHANGED log
    BY DEF webhooks
  <1>4. Idle.pc = "idle"
    BY DEF Idle
  <1>5. CASE CreateLink(h)
    <2>1. PICK i : i = [pc |-> "write_link", c |-> j.c]
      OBVIOUS
    <2>2. j.pc = "create_link" /\ Goto(h, i) /\ UNCHANGED <<cart, pays, tco>>
      BY <1>1, <1>5, <2>1 DEF CreateLink, CreateCheckout, At, database
    <2>3. i.pc = "write_link" /\ i.c = j.c
      BY <2>1
    <2>4. JobHolds(i)'
      BY <1>2, <2>2, <2>3 DEF JobHolds, SendJob, SendPc, EventPc
    <2> QED
      BY <1>3, <2>2, <2>4, UntouchedIsSteady, SteadyStep
  <1>6. CASE CreateLinkFails(h)
    <2>1. PICK i : Goto(h, i) /\ i.pc = "cancel_read"
      BY <1>6 DEF CreateLinkFails
    <2>2. UNCHANGED <<cart, pays, tco>>
      BY <1>6 DEF CreateLinkFails, CreateCheckout, square, database
    <2> QED
      BY <1>3, <2>1, <2>2, QuietlyGoes DEF SendPc, EventPc
  <1>7. CASE WriteLink(h)
    <2>1. j.pc = "write_link" /\ j.c \in Carts /\ cart[j.c] \in Cart
      BY <1>1, <1>7, JobFields DEF WriteLink, At, TypeOK, DatabaseTypeOK
    <2>2. PICK row : row = [cart[j.c] EXCEPT !.status = "pending_payment", !.method = "link",
                                             !.sq = "link", !.url = TRUE]
      OBVIOUS
    <2>3. row.status = "pending_payment" /\ row.method = "link" /\ row.sq = "link" /\ row.sq \in OrderKind
      BY <2>1, <2>2 DEF Cart, OrderKind
    <2>4. UpdateCart(j.c, row) /\ Goto(h, Idle) /\ UNCHANGED <<pays, tco>>
      BY <1>1, <1>7, <2>2 DEF WriteLink, Finish, square
    <2>5. PICK i : i = Idle
      OBVIOUS
    <2>6. job[h].pc \in SendPc /\ job[h].c = j.c /\ Goto(h, i) /\ i.pc = "idle"
      BY <1>1, <1>4, <2>1, <2>4, <2>5 DEF SendPc
    <2> QED
      BY <1>3, <2>1, <2>3, <2>4, <2>6, SendFiles
  <1>8. CASE WriteFulfilled(h)
    BY <1>3, <1>4, <1>8, QuietlyGoes DEF WriteFulfilled, Finish, square, SendPc, EventPc
  <1> QED
    BY <1>5, <1>6, <1>7, <1>8 DEF CartStep

LEMMA TerminalFiles ==
    ASSUME TypeOK, TypeOK', FilingInv, OneSendAtATime, NEW h \in Handlers, TerminalStep(h),
           UNCHANGED webhooks
    PROVE  FilingInv'
  <1>1. PICK j \in Job : j = job[h]
    BY DEF TypeOK
  <1>2. JobHolds(j)
    BY <1>1 DEF FilingInv, JobsHold
  <1>3. UNCHANGED log
    BY DEF webhooks
  <1>4. Idle.pc = "idle"
    BY DEF Idle
  <1>5. CASE CreateOrder(h)
    <2>1. PICK i : i = [pc |-> "write_order", c |-> j.c, tc |-> j.tc]
      OBVIOUS
    <2>2. j.pc = "create_order" /\ Goto(h, i) /\ UNCHANGED <<cart, pays, tco>>
      BY <1>1, <1>5, <2>1 DEF CreateOrder, At, square, database
    <2>3. i.pc = "write_order" /\ i.c = j.c
      BY <2>1
    <2>4. JobHolds(i)'
      BY <1>2, <2>2, <2>3 DEF JobHolds, SendJob, SendPc, EventPc
    <2> QED
      BY <1>3, <2>2, <2>4, UntouchedIsSteady, SteadyStep
  <1>6. CASE WriteOrder(h)
    <2>1. j.pc = "write_order" /\ j.c \in Carts /\ cart[j.c] \in Cart
      BY <1>1, <1>6, JobFields DEF WriteOrder, At, TypeOK, DatabaseTypeOK
    <2>2. PICK row : row = [cart[j.c] EXCEPT !.status = "pending_payment", !.method = "terminal",
                                             !.sq = "order"]
      OBVIOUS
    <2>3. row.status = "pending_payment" /\ row.url = cart[j.c].url /\ row.sq = "order"
            /\ row.sq \in OrderKind
      BY <2>1, <2>2 DEF Cart, OrderKind
    <2>4. PICK i : i = [pc |-> "send", c |-> j.c, tc |-> j.tc]
      OBVIOUS
    <2>5. UpdateCart(j.c, row) /\ Goto(h, i) /\ UNCHANGED <<pays, tco>>
      BY <1>1, <1>6, <2>2, <2>4 DEF WriteOrder, square
    <2>6. job[h].pc \in SendPc /\ job[h].c = j.c /\ i.pc = "send" /\ i.c = j.c
      BY <1>1, <2>1, <2>4 DEF SendPc
    <2> QED
      BY <1>3, <2>1, <2>3, <2>5, <2>6, SendFiles
  <1>7. CASE SendCheckout(h)
    <2>1. j.pc = "send" /\ j.c \in Carts /\ j.tc + 1 \in Attempt
      BY <1>1, <1>7, JobFields DEF SendCheckout, At
    <2>2. CreateTerminalCheckout(j.c, j.tc + 1) /\ UNCHANGED <<cart, pays>>
      BY <1>1, <1>7 DEF SendCheckout, CreateTerminalCheckout, database
    <2>3. cart[j.c].sq = "order"
      BY <1>2, <2>1 DEF JobHolds, SendJob
    <2>4. Steady
      <3>1. \A c \in Carts, n \in Attempt : tco'[c][n] # "none" => tco[c][n] # "none" \/ c = j.c
        BY <2>1, <2>2 DEF CreateTerminalCheckout, TypeOK, SquareTypeOK
      <3> QED
        BY <2>2, <2>3, <3>1 DEF Steady, SameSend
    <2>5. PICK i : Goto(h, i) /\ i.pc = "record" /\ i.ev = NoEvent
      BY <1>7 DEF SendCheckout
    <2>6. JobHolds(i)'
      BY <2>5, NoPaymentEvent, EventKinds DEF SendPc
    <2> QED
      BY <1>3, <2>4, <2>5, <2>6, SteadyStep
  <1>8. CASE RecordCheckout(h)
    <2>1. j.pc = "record" /\ j.c \in Carts /\ cart[j.c] \in Cart /\ j.ev \in EventOrNone
      BY <1>1, <1>8, JobFields DEF RecordCheckout, At, TypeOK, DatabaseTypeOK
    <2>2. PICK row : row = [cart[j.c] EXCEPT !.tc = j.tc, !.tstat = j.tstat]
      OBVIOUS
    <2>3. UpdateCart(j.c, row) /\ UNCHANGED <<pays, tco>>
      BY <1>1, <1>8, <2>2 DEF RecordCheckout, square
    <2>4. row.sq = cart[j.c].sq /\ row.url = cart[j.c].url /\ row.method = cart[j.c].method
            /\ row.status = cart[j.c].status
      BY <2>1, <2>2, RowFields
    <2>5. Steady
      BY <2>1, <2>3, <2>4, RowSteady
    <2>6. j.ev \notin PaymentEvent
      BY <1>2, <2>1 DEF JobHolds, EventJob, EventPc
    <2>7. \/ Goto(h, [pc |-> "fetch", c |-> j.c, k |-> "order", ev |-> j.ev])
          \/ Goto(h, [pc |-> "settle", ev |-> j.ev, matched |-> TRUE])
          \/ Goto(h, Idle)
      BY <1>1, <1>8 DEF RecordCheckout, Done
    <2>8. \E i : Goto(h, i) /\ (i.pc = "idle" \/ (i.pc \in {"fetch", "settle"} /\ i.ev = j.ev))
      BY <1>4, <2>7
    <2>9. PICK i : Goto(h, i) /\ (i.pc = "idle" \/ (i.pc \in {"fetch", "settle"} /\ i.ev = j.ev))
      BY <2>8
    <2>10. JobHolds(i)'
      BY <2>6, <2>9, NoPaymentEvent, NothingToHold DEF SendPc, EventPc
    <2> QED
      BY <1>3, <2>5, <2>9, <2>10, SteadyStep
  <1>9. CASE GetCheckout(h)
    <2>1. j.pc = "get_checkout" /\ UNCHANGED <<cart, pays, tco>>
      BY <1>1, <1>9 DEF GetCheckout, At, square, database
    <2>2. j.ev \notin PaymentEvent
      BY <1>2, <2>1 DEF JobHolds, EventJob, EventPc
    <2>3. PICK i : Goto(h, i) /\ i.pc = "record" /\ i.ev = j.ev
      BY <1>1, <1>9 DEF GetCheckout
    <2>4. JobHolds(i)'
      BY <2>2, <2>3, NoPaymentEvent DEF SendPc
    <2> QED
      BY <1>3, <2>1, <2>3, <2>4, UntouchedIsSteady, SteadyStep
  <1>10. CASE CancelCall(h)
    <2>1. j.c \in Carts /\ j.tc \in Attempt /\ UNCHANGED cart
      BY <1>1, <1>10, JobFields DEF CancelCall, At, database
    <2>2. CASE CanCancel(j.c, j.tc)
      <3>1. PICK s \in TerminalStatus :
              /\ CancelTerminalCheckout(j.c, j.tc, s)
              /\ Goto(h, [pc |-> "record", c |-> j.c, tc |-> j.tc, tstat |-> s, ev |-> NoEvent,
                          sync |-> FALSE])
        BY <1>1, <1>10, <2>2 DEF CancelCall
      <3>2. PICK i : Goto(h, i) /\ i.pc = "record" /\ i.ev = NoEvent
        BY <3>1
      <3>3. JobHolds(i)'
        BY <3>2, NoPaymentEvent, EventKinds DEF SendPc
      <3>4. Steady
        BY <2>1, <2>2, <3>1, DeviceSteady
      <3> QED
        BY <1>3, <3>2, <3>3, <3>4, SteadyStep
    <2>3. CASE ~CanCancel(j.c, j.tc)
      <3>1. \/ Goto(h, [pc |-> "get_checkout", c |-> j.c, tc |-> j.tc, ev |-> NoEvent])
            \/ Goto(h, Idle)
        BY <1>1, <1>10, <2>3 DEF CancelCall
      <3>2. \E i : Goto(h, i) /\ (i.pc = "idle" \/ (i.pc = "get_checkout" /\ i.ev = NoEvent))
        BY <1>4, <3>1
      <3>3. PICK i : Goto(h, i) /\ (i.pc = "idle" \/ (i.pc = "get_checkout" /\ i.ev = NoEvent))
        BY <3>2
      <3>4. JobHolds(i)'
        BY <3>3, NoPaymentEvent, NothingToHold, EventKinds DEF SendPc, EventPc
      <3>5. UNCHANGED <<cart, pays, tco>>
        BY <1>1, <1>10, <2>1, <2>3 DEF CancelCall, square
      <3> QED
        BY <1>3, <3>3, <3>4, <3>5, UntouchedIsSteady, SteadyStep
    <2> QED
      BY <2>2, <2>3
  <1> QED
    BY <1>5, <1>6, <1>7, <1>8, <1>9, <1>10 DEF TerminalStep
\* What the endpoint files: a payment's event starts from collected money, and
\* is settled after the cart is.
LEMMA WebhookFiles ==
    ASSUME TypeOK, TypeOK', FilingInv, MoneyInv, NEW h \in Handlers,
           Deliver(h) \/ Upsert(h) \/ Sync(h) \/ SquareFails(h) \/ Settle(h)
    PROVE  FilingInv'
  <1>1. PICK j \in Job : j = job[h]
    BY DEF TypeOK
  <1>2. JobHolds(j)
    BY <1>1 DEF FilingInv, JobsHold
  <1>3. Idle.pc = "idle"
    BY DEF Idle
  <1>4. UNCHANGED <<cart, pays, tco>>
    BY DEF Deliver, Receive, Upsert, Sync, SquareFails, Settle, square, database
  <1>5. Steady
    BY <1>4, UntouchedIsSteady
  <1>6. \A e \in Event : j.ev = e /\ log' = [log EXCEPT ![e] = log'[e]] =>
           \A f \in PaymentEvent : log'[f] = log[f] \/ f = j.ev
    BY EventKinds DEF TypeOK, WebhooksTypeOK
  <1>7. CASE Deliver(h)
    <2>1. PICK e \in Event : Receive(h, e)
      BY <1>7 DEF Deliver
    <2>2. UNCHANGED log
      BY <2>1 DEF Receive
    <2>3. CASE Settled(e)
      <3>1. UNCHANGED job
        BY <2>1, <2>3 DEF Receive
      <3> QED
        BY <1>5, <2>2, <3>1, CartsLast, FiledLasts, HandlersStay DEF FilingInv
    <2>4. CASE ~Settled(e)
      <3>1. PICK i : i = [pc |-> "upsert", ev |-> e]
        OBVIOUS
      <3>2. Goto(h, i) /\ i.pc = "upsert" /\ i.ev = e
        BY <2>1, <2>4, <3>1 DEF Receive
      <3>3. ASSUME e \in PaymentEvent PROVE is_completed(pays'[e.c][e.k])
        <4>1. is_completed(pays[e.c][e.k]) \/ is_refunded(pays[e.c][e.k])
          BY <2>1, <3>3, EventKinds DEF Receive, Emitted
        <4>2. is_completed(pays[e.c][e.k])
          BY <3>3, <4>1, EventKinds DEF MoneyInv, RefundedWasPaid
        <4> QED
          BY <1>4, <4>2
      <3>4. JobHolds(i)'
        BY <3>2, <3>3 DEF JobHolds, SendJob, EventJob, SendPc
      <3> QED
        BY <1>5, <2>2, <3>2, <3>4, SteadyStep
    <2> QED
      BY <2>3, <2>4
  <1>8. CASE Upsert(h)
    <2>1. j.pc = "upsert" /\ j.ev \in Event /\ log' = [log EXCEPT ![j.ev] = "received"]
      BY <1>1, <1>8, JobFields DEF Upsert, At
    <2>2. \A f \in PaymentEvent : log'[f] \in {log[f], "received"}
      BY <2>1, EventKinds DEF TypeOK, WebhooksTypeOK
    <2>3. CASE j.ev.type = "terminal.checkout.updated"
      <3>1. PICK i : Goto(h, i) /\ i.pc = "sync"
        BY <1>1, <1>8, <2>3 DEF Upsert
      <3>2. JobHolds(i)'
        BY <3>1, NothingToHold DEF SendPc, EventPc
      <3> QED
        BY <1>5, <2>2, <3>1, <3>2, CartsLast, FiledLasts, HandlerStep DEF FilingInv
    <2>4. CASE j.ev.type # "terminal.checkout.updated"
      <3>1. PICK i : i = [pc |-> "fetch", c |-> j.ev.c, k |-> j.ev.k, ev |-> j.ev]
        OBVIOUS
      <3>2. Goto(h, i) /\ i.pc = "fetch" /\ i.ev = j.ev /\ i.c = j.ev.c /\ i.k = j.ev.k
        BY <1>1, <1>8, <2>4, <3>1 DEF Upsert
      <3>3. JobHolds(i)'
        BY <1>2, <1>4, <2>1, <3>2 DEF JobHolds, SendJob, EventJob, SendPc, EventPc
      <3> QED
        BY <1>5, <2>2, <3>2, <3>3, CartsLast, FiledLasts, HandlerStep DEF FilingInv
    <2> QED
      BY <2>3, <2>4
  <1>9. CASE Sync(h)
    <2>1. j.ev \in TerminalEvent /\ UNCHANGED log
      BY <1>1, <1>9, JobFields DEF Sync, At, webhooks
    <2>2. j.ev # NoEvent
      BY <2>1, EventKinds, NoEventAssumption
    <2>3. \/ Goto(h, [pc |-> "get_checkout", c |-> j.ev.c, tc |-> j.ev.n, ev |-> j.ev])
          \/ Goto(h, [pc |-> "settle", ev |-> j.ev, matched |-> FALSE])
      BY <1>1, <1>9, <2>2 DEF Sync, Done
    <2>4. \E i : Goto(h, i) /\ i.pc \in {"get_checkout", "settle"} /\ i.ev = j.ev
      BY <2>3
    <2>5. PICK i : Goto(h, i) /\ i.pc \in {"get_checkout", "settle"} /\ i.ev = j.ev
      BY <2>4
    <2>6. JobHolds(i)'
      BY <2>1, <2>5, EventKinds, NoPaymentEvent DEF SendPc
    <2> QED
      BY <1>5, <2>1, <2>5, <2>6, SteadyStep
  <1>10. CASE SquareFails(h)
    <2>1. \A f \in PaymentEvent : log'[f] \in {log[f], "failed"}
      BY <1>10, EventKinds DEF SquareFails, TypeOK, WebhooksTypeOK
    <2>2. PICK i : Goto(h, i) /\ i.pc = "idle"
      BY <1>3, <1>10 DEF SquareFails, Finish
    <2>3. JobHolds(i)'
      BY <2>2, NothingToHold DEF SendPc, EventPc
    <2> QED
      BY <1>5, <2>1, <2>2, <2>3, CartsLast, FiledLasts, HandlerStep DEF FilingInv
  <1>11. CASE Settle(h)
    <2>1. /\ j.pc = "settle" /\ j.ev \in Event
          /\ log' = [log EXCEPT ![j.ev] = IF j.matched THEN "processed" ELSE "unmatched"]
      BY <1>1, <1>11, JobFields DEF Settle, At
    <2>2. j.ev \in PaymentEvent => j.matched /\ Kept(j.ev)
      BY <1>2, <2>1 DEF JobHolds, EventJob, EventPc
    <2>3. \A f \in PaymentEvent : log'[f] = log[f] \/ (log'[f] = "processed" /\ Kept(f))
      BY <2>1, <2>2, EventKinds DEF TypeOK, WebhooksTypeOK
    <2>4. PICK i : Goto(h, i) /\ i.pc = "idle"
      BY <1>3, <1>11 DEF Settle, Finish
    <2>5. JobHolds(i)'
      BY <2>4, NothingToHold DEF SendPc, EventPc
    <2> QED
      BY <1>5, <2>3, <2>4, <2>5, CartsLast, FiledLasts, HandlerStep DEF FilingInv
  <1> QED
    BY <1>7, <1>8, <1>9, <1>10, <1>11

-----------------------------------------------------------------------------
\* A new cart is unsent, as the id it takes was.
LEMMA NewCartSteady ==
    ASSUME TypeOK, FilingInv, NEW c \in Carts, NEW os, InsertCart(c, os), UNCHANGED <<pays, tco>>
    PROVE  Steady /\ cart'[c].sq = NoOrder
  <1>1. PICK row : row = [NoCart EXCEPT !.status = "open"]
    OBVIOUS
  <1>2. row.sq = NoOrder /\ row.url = FALSE /\ row.method = "none" /\ row.status = "open"
    BY <1>1 DEF NoCart
  <1>3. \A d \in Carts : cart'[d] = IF d = c THEN row ELSE cart[d]
    BY <1>1 DEF InsertCart, UpdateCart, TypeOK, DatabaseTypeOK
  <1>4. cart[c].status = "none" /\ cart[c].sq = NoOrder
    BY DEF InsertCart, FilingInv, Unsent
  <1> QED
    BY <1>2, <1>3, <1>4 DEF Steady, SameSend, SettledStatus

LEMMA RequestFiles ==
    ASSUME TypeOK, TypeOK', FilingInv, NEW h \in Handlers, Request(h)
    PROVE  FilingInv'
  <1>1. UNCHANGED log
    BY DEF Request, webhooks
  <1>2. ASSUME NEW c \in Carts, NEW os, Create(h, c, os) PROVE FilingInv'
    <2>1. Steady /\ UNCHANGED job
      BY <1>2, NewCartSteady DEF Create, square
    <2> QED
      BY <1>1, <2>1, CartsLast, FiledLasts, HandlersStay DEF FilingInv
  <1>3. ASSUME NEW c \in Carts, NEW os, NEW by, CreatePublic(h, c, os, by) PROVE FilingInv'
    <2>1. Steady /\ cart'[c].sq = NoOrder
      BY <1>3, NewCartSteady DEF CreatePublic, square
    <2>2. PICK i : i = [pc |-> "create_link", c |-> c, by |-> by]
      OBVIOUS
    <2>3. Goto(h, i) /\ i.pc = "create_link" /\ i.c = c
      BY <1>3, <2>2 DEF CreatePublic
    <2>4. JobHolds(i)'
      BY <2>1, <2>3 DEF JobHolds, SendJob, EventPc
    <2> QED
      BY <1>1, <2>1, <2>3, <2>4, SteadyStep
  <1>4. ASSUME NEW c \in Carts, Checkout(h, c) PROVE FilingInv'
    <2>1. PICK i : i = [pc |-> "create_link", c |-> c, by |-> "staff"]
      OBVIOUS
    <2>2. Goto(h, i) /\ i.pc = "create_link" /\ i.c = c /\ UNCHANGED <<cart, pays, tco>>
      BY <1>4, <2>1 DEF Checkout, square, database
    <2>3. cart'[c].sq = NoOrder
      BY <1>4, <2>2 DEF Checkout, FilingInv, Unsent
    <2>4. JobHolds(i)'
      BY <2>2, <2>3 DEF JobHolds, SendJob, EventPc
    <2> QED
      BY <1>1, <2>2, <2>4, UntouchedIsSteady, SteadyStep
  <1>5. ASSUME NEW c \in Carts, Charge(h, c) PROVE FilingInv'
    <2>1. PICK i : i = [pc |-> IF cart[c].sq = NoOrder THEN "create_order" ELSE "send",
                        c |-> c, tc |-> cart[c].tc]
      OBVIOUS
    <2>2. Goto(h, i) /\ UNCHANGED <<cart, pays, tco>>
      BY <1>5, <2>1 DEF Charge, square, database
    <2>3. i.c = c /\ i.pc = IF cart[c].sq = NoOrder THEN "create_order" ELSE "send"
      BY <2>1
    <2>4. cart[c].sq = NoOrder \/ cart[c].sq = "order"
      BY <1>5 DEF Charge, Chargeable, FilingInv, Unsent, OneMethod
    <2>5. JobHolds(i)'
      BY <2>2, <2>3, <2>4, NullAssumption DEF JobHolds, SendJob, EventPc, SendPc, OrderKind
    <2> QED
      BY <1>1, <2>2, <2>5, UntouchedIsSteady, SteadyStep
  <1>6. ASSUME NEW c \in Carts, Refresh(h, c) \/ Status(h, c) PROVE FilingInv'
    <2>1. UNCHANGED <<cart, pays, tco>>
      BY <1>6 DEF Refresh, Status, square, database
    <2>2. \E i : Goto(h, i) /\ i.pc \in {"fetch", "get_checkout"} /\ i.ev = NoEvent
      BY <1>6 DEF Refresh, Status
    <2>3. PICK i : Goto(h, i) /\ i.pc \in {"fetch", "get_checkout"} /\ i.ev = NoEvent
      BY <2>2
    <2>4. JobHolds(i)'
      BY <2>3, NoPaymentEvent, EventKinds DEF SendPc
    <2> QED
      BY <1>1, <2>1, <2>3, <2>4, UntouchedIsSteady, SteadyStep
  <1>7. ASSUME NEW c \in Carts, StartCancel(h, c) PROVE FilingInv'
    BY <1>1, <1>7, CancelFiles DEF StartCancel, square, database
  <1>8. ASSUME NEW c \in Carts, CancelCheckout(h, c) PROVE FilingInv'
    <2>1. PICK i : Goto(h, i) /\ i.pc = "cancel_checkout"
      BY <1>8 DEF CancelCheckout
    <2> QED
      BY <1>1, <1>8, <2>1, QuietlyGoes DEF CancelCheckout, square, database, SendPc, EventPc
  <1>9. ASSUME NEW o \in Orders, Fulfil(h, o) PROVE FilingInv'
    <2>1. PICK i : Goto(h, i) /\ i.pc = "fulfil"
      BY <1>9 DEF Fulfil
    <2> QED
      BY <1>1, <1>9, <2>1, QuietlyGoes DEF Fulfil, square, database, SendPc, EventPc
  <1>10. CASE StaffRequest(h)
    BY <1>2, <1>4, <1>5, <1>6, <1>7, <1>8, <1>10 DEF StaffRequest
  <1> QED
    BY <1>3, <1>9, <1>10 DEF Request, StaffFulfils, ShopperRequest

LEMMA AbandonFiles ==
    ASSUME TypeOK, TypeOK', FilingInv, NEW h \in Handlers, Abandon(h), UNCHANGED webhooks
    PROVE  FilingInv'
  <1>1. PICK i : Goto(h, i) /\ i.pc = "idle"
    BY DEF Abandon, Finish, Idle
  <1> QED
    BY <1>1, QuietlyGoes DEF Abandon, square, database, webhooks, SendPc, EventPc

\* Customers pay only what the cart carries: a link the API has handed out, or
\* a checkout it has sent to a device.
LEMMA WorldFiles ==
    ASSUME TypeOK, TypeOK', FilingInv, World
    PROVE  FilingInv'
  <1>1. UNCHANGED <<cart, job, log>>
    BY DEF World, database, webhooks
  <1>2. "link" \in OrderKind /\ "order" \in OrderKind
    BY DEF OrderKind
  <1>3. ASSUME NEW c \in Carts, NEW k \in OrderKind, NEW p \in RemotePayment, PaymentIs(c, k, p),
               pays[c][k].status # "none" \/ cart[c].sq = k,
               is_completed(pays[c][k]) => is_completed(p)
        PROVE  \A d \in Carts, i \in OrderKind :
                 /\ pays'[d][i].status # "none" => pays[d][i].status # "none" \/ cart[d].sq = i
                 /\ is_completed(pays[d][i]) => is_completed(pays'[d][i])
    BY <1>3 DEF PaymentIs, TypeOK, SquareTypeOK
  <1>4. Steady
    <2>1. PICK c \in Carts :
            \/ CustomerPays(c)
            \/ Capture(c)
            \/ \E n \in Attempt : TapCard(c, n) \/ DeviceCancels(c, n)
            \/ \E k \in OrderKind : RefundUnit(c, k)
      BY DEF World
    <2>2. \A k \in OrderKind : pays[c][k] \in RemotePayment
      BY DEF TypeOK, SquareTypeOK
    <2>3. ASSUME NEW k \in OrderKind
          PROVE  /\ \A s : [pays[c][k] EXCEPT !.status = s].status = s
                 /\ \A s \in {"APPROVED", "COMPLETED"} : [pays[c][k] EXCEPT !.status = s] \in RemotePayment
      BY <2>2 DEF RemotePayment
    <2>4. \A d \in Carts : SameSend(d)
      BY <1>1 DEF SameSend
    <2>5. CASE CustomerPays(c)
      <3>1. PICK p : p = [pays[c]["link"] EXCEPT !.status = "APPROVED"]
        OBVIOUS
      <3>2. p \in RemotePayment /\ p.status = "APPROVED"
        BY <1>2, <2>3, <3>1
      <3>3. cart[c].sq = "link" /\ UNCHANGED tco /\ pays[c]["link"].status = "none" /\ PaymentIs(c, "link", p)
        BY <2>5, <3>1 DEF CustomerPays, Authorize, FilingInv, OneMethod
      <3> QED
        BY <1>2, <1>3, <2>4, <3>2, <3>3 DEF Steady, is_completed
    <2>6. CASE Capture(c)
      <3>1. PICK p : p = [pays[c]["link"] EXCEPT !.status = "COMPLETED"]
        OBVIOUS
      <3>2. p \in RemotePayment /\ p.status = "COMPLETED"
        BY <1>2, <2>3, <3>1
      <3>3. UNCHANGED tco /\ pays[c]["link"].status = "APPROVED" /\ PaymentIs(c, "link", p)
        BY <2>6, <3>1 DEF Capture
      <3> QED
        BY <1>2, <1>3, <2>4, <3>2, <3>3 DEF Steady, is_completed
    <2>7. ASSUME NEW n \in Attempt, TapCard(c, n) PROVE Steady
      <3>1. PICK p : p = [pays[c]["order"] EXCEPT !.status = "COMPLETED"]
        OBVIOUS
      <3>2. p \in RemotePayment /\ p.status = "COMPLETED"
        BY <1>2, <2>3, <3>1
      <3>3. PaymentIs(c, "order", p) /\ tco' = [tco EXCEPT ![c][n] = "COMPLETED"] /\ tco[c][n] # "none"
        BY <2>7, <3>1 DEF TapCard, is_active_terminal_status, ActiveStatus
      <3>4. cart[c].sq = "order"
        BY <3>3 DEF FilingInv, OneMethod
      <3>5. \A d \in Carts, m \in Attempt : tco'[d][m] # "none" => tco[d][m] # "none"
        BY <3>3 DEF TypeOK, SquareTypeOK
      <3> QED
        BY <1>2, <1>3, <2>4, <3>2, <3>3, <3>4, <3>5 DEF Steady, is_completed
    <2>8. ASSUME NEW n \in Attempt, DeviceCancels(c, n) PROVE Steady
      <3>1. tco' = [tco EXCEPT ![c][n] = "CANCELED"] /\ tco[c][n] # "none" /\ UNCHANGED pays
        BY <2>8 DEF DeviceCancels, is_active_terminal_status, ActiveStatus
      <3>2. \A d \in Carts, m \in Attempt : tco'[d][m] # "none" => tco[d][m] # "none"
        BY <3>1 DEF TypeOK, SquareTypeOK
      <3> QED
        BY <2>4, <3>1, <3>2 DEF Steady
    <2>9. ASSUME NEW k \in OrderKind, RefundUnit(c, k) PROVE Steady
      <3>1. PICK p : p = [pays[c][k] EXCEPT !.refunded = @ + 1]
        OBVIOUS
      <3>2. p.status = "COMPLETED"
        BY <2>2, <2>9, <3>1 DEF RefundUnit, RemotePayment, is_completed
      <3>3. PaymentIs(c, k, p) /\ UNCHANGED tco /\ pays[c][k].status = "COMPLETED"
        BY <2>9, <3>1 DEF RefundUnit, is_completed
      <3>4. p \in RemotePayment
        <4>1. pays'[c][k] = p
          BY <3>3 DEF PaymentIs, TypeOK, SquareTypeOK
        <4> QED
          BY <4>1 DEF TypeOK, SquareTypeOK
      <3> QED
        BY <1>3, <2>4, <3>2, <3>3, <3>4 DEF Steady, is_completed
    <2> QED
      BY <2>1, <2>5, <2>6, <2>7, <2>8, <2>9
  <1> QED
    BY <1>1, <1>4, CartsLast, FiledLasts, HandlersStay DEF FilingInv

-----------------------------------------------------------------------------
LEMMA InitFiling == Init => FilingInv
  <1>1. Init => Unsent /\ OneMethod /\ Filed
    BY DEF Init, SquareInit, BillingInit, WebhooksInit, Unsent, OneMethod, Filed, NoCart, PaymentEvent,
       Event, Attempt
  <1>2. Init => JobsHold
    BY DEF Init, BillingInit, JobsHold, JobHolds, SendJob, Idle, SendPc, EventPc
  <1> QED
    BY <1>1, <1>2 DEF FilingInv

LEMMA NextFiling ==
    TypeOK /\ MoneyInv /\ OneSendAtATime /\ FilingInv /\ [Next]_vars => FilingInv'
  <1> SUFFICES ASSUME TypeOK, MoneyInv, OneSendAtATime, FilingInv, [Next]_vars PROVE FilingInv'
    OBVIOUS
  <1>1. TypeOK'
    BY NextTypeOK
  <1>2. CASE UNCHANGED vars
    BY <1>2, UntouchedIsSteady, CartsLast, FiledLasts, HandlersStay DEF vars, FilingInv
  <1>3. CASE World
    BY <1>1, <1>3, WorldFiles
  <1>4. ASSUME NEW h \in Handlers, Request(h) \/ Deliver(h) PROVE FilingInv'
    BY <1>1, <1>4, RequestFiles, WebhookFiles
  <1>5. ASSUME NEW h \in Handlers, Step(h) PROVE FilingInv'
    BY <1>1, <1>5, BillingFiles, CartFiles, TerminalFiles, WebhookFiles DEF Step
  <1>6. ASSUME NEW h \in Handlers, Failure(h) PROVE FilingInv'
    BY <1>1, <1>6, AbandonFiles, WebhookFiles DEF Failure
  <1> QED
    BY <1>2, <1>3, <1>4, <1>5, <1>6 DEF Next, Progress

LEMMA FilingInvariant == Spec /\ []OneSendAtATime => []FilingInv
  <1>1. TypeOK /\ MoneyInv /\ OneSendAtATime /\ FilingInv /\ [Next]_vars => FilingInv'
    BY NextFiling
  <1> QED
    BY <1>1, InitFiling, MoneyInvariant, PTL DEF Spec

\* Once the event of a payment is filed as processed, no cancel, expiry or late
\* write takes the cart back to unpaid, as long as no two requests send one cart
\* at the same time.
THEOREM ProcessedCartsStaySettled == Spec /\ []OneSendAtATime => []ProcessedStaysSettled
  <1>1. FilingInv => ProcessedStaysSettled
    BY DEF FilingInv, Filed, Kept, ProcessedStaysSettled, SettledStatus
  <1> QED
    BY <1>1, FilingInvariant, PTL

\* Under the same hypothesis no event of a payment is filed as unmatched, after
\* which Square would not deliver it again, while a cart carries its order.
THEOREM UnmatchedAreForeign == Spec /\ []OneSendAtATime => []UnmatchedIsForeign
  <1>1. FilingInv => UnmatchedIsForeign
    BY DEF FilingInv, Filed, UnmatchedIsForeign
  <1> QED
    BY <1>1, FilingInvariant, PTL

-----------------------------------------------------------------------------
\* A bar with one till: one handler at most starts what sends a cart.
OneTill == \A g, h \in Staff \union Shoppers : g = h

SendersAreTills == \A h \in Handlers : job[h].pc \in SendPc => h \in Staff \union Shoppers

\* Who is sending after a step was before, or is at a till.
NoNewSender ==
    \A g \in Handlers :
       job'[g].pc \in SendPc => job[g].pc \in SendPc \/ g \in Staff \union Shoppers

LEMMA GoesOn ==
    ASSUME TypeOK, NEW h \in Handlers, NEW j, Goto(h, j),
           j.pc \in SendPc => job[h].pc \in SendPc \/ h \in Staff \union Shoppers
    PROVE  NoNewSender
  BY DEF Goto, TypeOK, NoNewSender

LEMMA StepSenders ==
    ASSUME TypeOK, NEW h \in Handlers, Step(h)
    PROVE  NoNewSender
  <1>1. Idle.pc = "idle"
    BY DEF Idle
  <1>2. \A e, m : Done(h, e, m) => NoNewSender
    <2>1. ASSUME NEW e, NEW m, Done(h, e, m) PROVE NoNewSender
      <3>1. CASE e = NoEvent
        BY <1>1, <2>1, <3>1, GoesOn DEF Done, SendPc
      <3>2. CASE e # NoEvent
        BY <2>1, <3>2, GoesOn DEF Done, SendPc
      <3> QED
        BY <3>1, <3>2
    <2> QED
      BY <2>1
  <1>3. \A c \in Carts : ReadForCancel(h, c) => NoNewSender
    <2>1. ASSUME NEW c \in Carts, ReadForCancel(h, c) PROVE NoNewSender
      <3>1. PICK j : j.pc \in {"cancel_device", "cancel_tx"} /\ Goto(h, j)
        BY <2>1 DEF ReadForCancel
      <3> QED
        BY <3>1, GoesOn DEF SendPc
    <2> QED
      BY <2>1
  <1>4. Finish(h) => NoNewSender
    BY <1>1, GoesOn DEF Finish, SendPc
  <1>5. CASE BillingStep(h)
    <2>1. CASE FetchPayment(h) \/ ApplyFetched(h)
      BY <1>2, <2>1, GoesOn DEF FetchPayment, ApplyFetched, SendPc
    <2>2. CASE FetchNothing(h) \/ CancelRefused(h) \/ VoidLink(h)
      BY <1>4, <2>2 DEF FetchNothing, CancelRefused, VoidLink
    <2>3. CASE CancelRead(h)
      BY <1>3, <2>3, JobFields DEF CancelRead, At, TypeOK
    <2>4. CASE CancelDevice(h) \/ WriteCancel(h)
      BY <1>4, <2>4, GoesOn DEF CancelDevice, WriteCancel, SendPc
    <2>5. CASE CancelTx(h)
      <3>1. CASE job[h].url
        BY <2>5, <3>1, GoesOn DEF CancelTx, SendPc
      <3>2. CASE ~job[h].url
        BY <1>4, <2>5, <3>2 DEF CancelTx, Finish
      <3> QED
        BY <3>1, <3>2
    <2>6. CASE \E c \in Carts : Expire(h, c)
      BY <2>6, GoesOn DEF Expire, SendPc
    <2> QED
      BY <1>5, <2>1, <2>2, <2>3, <2>4, <2>5, <2>6 DEF BillingStep
  <1>6. CASE CartStep(h)
    BY <1>4, <1>6, GoesOn DEF CartStep, CreateLink, CreateLinkFails, WriteLink, WriteFulfilled, At, SendPc
  <1>7. CASE TerminalStep(h)
    <2>1. CASE CreateOrder(h) \/ WriteOrder(h)
      BY <2>1, GoesOn DEF CreateOrder, WriteOrder, At, SendPc
    <2>2. CASE SendCheckout(h) \/ GetCheckout(h)
      BY <2>2, GoesOn DEF SendCheckout, GetCheckout, SendPc
    <2>3. CASE RecordCheckout(h)
      BY <1>2, <2>3, GoesOn DEF RecordCheckout, SendPc
    <2>4. CASE CancelCall(h)
      <3>1. \/ \E s : Goto(h, [pc |-> "record", c |-> job[h].c, tc |-> job[h].tc, tstat |-> s,
                               ev |-> NoEvent, sync |-> FALSE])
            \/ Goto(h, [pc |-> "get_checkout", c |-> job[h].c, tc |-> job[h].tc, ev |-> NoEvent])
            \/ Finish(h)
        BY <2>4 DEF CancelCall, Finish
      <3> QED
        BY <1>4, <3>1, GoesOn DEF SendPc
    <2> QED
      BY <1>7, <2>1, <2>2, <2>3, <2>4 DEF TerminalStep
  <1>8. CASE Upsert(h)
    <2>1. PICK j : j.pc \in {"sync", "fetch"} /\ Goto(h, j)
      BY <1>8 DEF Upsert
    <2> QED
      BY <2>1, GoesOn DEF SendPc
  <1>9. CASE Sync(h) \/ Settle(h)
    BY <1>2, <1>4, <1>9, GoesOn DEF Sync, Settle, SendPc
  <1> QED
    BY <1>5, <1>6, <1>7, <1>8, <1>9 DEF Step

LEMMA NextSenders == TypeOK /\ [Next]_vars => NoNewSender
  <1> SUFFICES ASSUME TypeOK, [Next]_vars PROVE NoNewSender
    OBVIOUS
  <1>1. UNCHANGED job => NoNewSender
    BY DEF NoNewSender
  <1>2. CASE World \/ UNCHANGED vars
    BY <1>1, <1>2 DEF World, vars
  <1>3. ASSUME NEW h \in Handlers, Request(h) PROVE NoNewSender
    <2>1. h \in Staff \union Shoppers
      BY <1>3 DEF Request
    <2>2. \A j : Goto(h, j) => NoNewSender
      BY <2>1, GoesOn
    <2> QED
      BY <1>1, <1>3, <2>2
      DEF Request, StaffRequest, StaffFulfils, ShopperRequest, Create, CreatePublic, Checkout,
          Refresh, StartCancel, ReadForCancel, Charge, Status, CancelCheckout, Fulfil
  <1>4. ASSUME NEW h \in Handlers, Deliver(h) PROVE NoNewSender
    BY <1>1, <1>4, GoesOn DEF Deliver, Receive, SendPc
  <1>5. ASSUME NEW h \in Handlers, Failure(h) PROVE NoNewSender
    BY <1>5, GoesOn DEF Failure, Abandon, SquareFails, Finish, Idle, SendPc
  <1> QED
    BY <1>2, <1>3, <1>4, <1>5, StepSenders DEF Next, Progress

\* One till is enough for the hypothesis: two requests send one cart at a time
\* only if two are served at a time, whatever the worker and the webhooks do.
THEOREM OneTillSendsOnce == ASSUME OneTill PROVE Spec => []OneSendAtATime
  <1>1. Init => SendersAreTills
    BY DEF Init, BillingInit, SendersAreTills, Idle, SendPc
  <1>2. SendersAreTills => OneSendAtATime
    BY DEF SendersAreTills, OneSendAtATime, Sends, OneTill
  <1>3. TypeOK /\ SendersAreTills /\ [Next]_vars => SendersAreTills'
    BY NextSenders DEF SendersAreTills, NoNewSender
  <1> QED
    BY <1>1, <1>2, <1>3, TypeCorrect, PTL DEF Spec
=============================================================================
