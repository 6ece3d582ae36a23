--------------------------- MODULE SettlementLive ---------------------------
(***************************************************************************)
(* Settlement under fairness: what must happen in the end.                 *)
(*                                                                         *)
(* Failed calls, dropped requests and restarts may be many, but in the     *)
(* behaviours of FairSpec they come to an end (calm); what they left       *)
(* behind does not.                                                        *)
(***************************************************************************)
EXTENDS Settlement

VARIABLE calm       \* no call fails and no request is dropped from now on

Calm == calm' = TRUE /\ UNCHANGED vars

LiveNext ==
    \/ Progress /\ UNCHANGED calm
    \/ ~calm /\ (\E h \in Handlers : Failure(h)) /\ UNCHANGED calm
    \/ Calm

liveVars == <<vars, calm>>

\* A request in flight goes on to its next step; Square delivers an event it
\* got no 2xx for; the worker's loop sweeps at a fixed interval.  What staff,
\* shoppers and customers do is up to them.
Fairness ==
    /\ \A h \in Handlers : WF_liveVars(Step(h) /\ UNCHANGED calm)
    /\ \A e \in Event : WF_liveVars((\E h \in Hooks : Receive(h, e)) /\ UNCHANGED calm)
    /\ \A h \in Sweepers, c \in Carts :
          WF_liveVars(Expire(h, c) /\ UNCHANGED <<webhooks, calm>>)
    /\ WF_liveVars(Calm)

FairSpec == Init /\ calm = FALSE /\ [][LiveNext]_liveVars /\ Fairness

-----------------------------------------------------------------------------
\* Money collected on the order a cart carries ends up on the cart by webhook
\* alone, through redeliveries and dropped requests; unless get_payment fails
\* for good, when the event is acknowledged as failed and left to refresh.
PaymentSettles ==
    \A c \in Carts, k \in OrderKind :
       LET e == [type |-> "payment.updated", c |-> c, k |-> k]
       IN (is_completed(pays[c][k]) /\ cart[c].sq = k)
             ~> \/ cart[c].status \in {"paid", "refunded"}
                \/ cart[c].sq # k
                \/ e \in acked /\ log[e] = "failed"

\* A cart sent to a payment link does not wait for ever: it is paid, or it
\* expires and lets go of its blends.
PendingLinkEnds ==
    \A c \in Carts :
       cart[c].status = "pending_payment" /\ cart[c].method = "link"
          ~> cart[c].status # "pending_payment"

\* README: a cart is canceled "automatically after 24h unpaid" and its orders
\* released.  Refuted for a cart on a Terminal whose checkout ended unseen.
UnpaidExpires ==
    \A c \in Carts :
       cart[c].status = "pending_payment"
          ~> \/ cart[c].status # "pending_payment"
             \/ \E k \in OrderKind : is_completed(pays[c][k])
=============================================================================
