--------------------------- MODULE SquareWebhooks ---------------------------
(***************************************************************************)
(* The Square webhook endpoint, src/api/src/routes/square_webhooks.rs.     *)
(* Square delivers an event any number of times, in any order, until it    *)
(* gets a 2xx; the endpoint keeps a row per event id.                      *)
(***************************************************************************)
EXTENDS Terminal

CONSTANT Hooks      \* the handlers that serve webhook deliveries

VARIABLES
    log,        \* log[e]: square_webhook_events.status, "none" when no row
    acked       \* events Square got a 2xx for

webhooks == <<log, acked>>

EventStatus == {"received", "processed", "unmatched", "failed"}

WebhooksTypeOK ==
    /\ log \in [Event -> EventStatus \union {"none"}]
    /\ acked \subseteq Event

WebhooksInit ==
    /\ log = [e \in Event |-> "none"]
    /\ acked = {}

WebhookJob == [pc : {"upsert"}, ev : Event] \union [pc : {"sync"}, ev : TerminalEvent]

\* Mutant of Settled: an event with any row is taken for one already handled.
Seen(e) == log[e] # "none"

Settled(e) == log[e] \in {"processed", "unmatched"}
Ack(e) == acked' = acked \union {e}

-----------------------------------------------------------------------------
\* A delivery.  The status is read first: an event already settled is only
\* acknowledged again.
Receive(h, e) ==
    /\ h \in Hooks
    /\ IsIdle(h)
    /\ Emitted(e)
    /\ e \notin acked
    /\ IF Settled(e)
       THEN Ack(e) /\ UNCHANGED job
       ELSE Goto(h, [pc |-> "upsert", ev |-> e]) /\ UNCHANGED acked
    /\ UNCHANGED <<square, database, log>>

\* The upsert puts the row at 'received' whatever it said by now.
Upsert(h) ==
    LET e == job[h].ev
    IN /\ At(h, "upsert")
       /\ log' = [log EXCEPT ![e] = "received"]
       /\ Goto(h, IF e.type = "terminal.checkout.updated"
                  THEN [pc |-> "sync", ev |-> e]
                  ELSE [pc |-> "fetch", c |-> e.c, k |-> e.k, ev |-> e])
       /\ UNCHANGED <<square, database, acked>>

\* sync_checkout finds the cart by terminal_checkout_id.
Sync(h) ==
    LET e == job[h].ev
    IN /\ At(h, "sync")
       /\ IF cart[e.c].tc = e.n
          THEN Goto(h, [pc |-> "get_checkout", c |-> e.c, tc |-> e.n, ev |-> e])
          ELSE Done(h, e, FALSE)
       /\ UNCHANGED <<square, database, webhooks>>

\* A call to Square fails: the row says so, and Square is asked to redeliver
\* unless get_payment failed for good.
SquareFails(h) ==
    /\ job[h].pc \in {"fetch", "get_checkout"}
    /\ job[h].ev # NoEvent
    /\ log' = [log EXCEPT ![job[h].ev] = "failed"]
    /\ \/ UNCHANGED acked
       \/ job[h].ev.type # "terminal.checkout.updated" /\ Ack(job[h].ev)
    /\ Finish(h)
    /\ UNCHANGED <<square, database>>

\* Last, the row is settled and the event acknowledged.
Settle(h) ==
    LET e == job[h].ev
    IN /\ At(h, "settle")
       /\ log' = [log EXCEPT ![e] = IF job[h].matched THEN "processed" ELSE "unmatched"]
       /\ Ack(e)
       /\ Finish(h)
       /\ UNCHANGED <<square, database>>
=============================================================================
