------------------------------ MODULE Outboxes ------------------------------
(***************************************************************************)
(* The three queues the background worker drains, one after the other, and *)
(* the requests that fill them: contacts for Square (src/api/src/sync.rs), *)
(* chat notifications (notify/mod.rs) and order-ready email                *)
(* (email/dispatch.rs).                                                    *)
(*                                                                         *)
(* There is one worker.  It selects the due rows of a queue, then takes    *)
(* them one by one: send, then settle the row.  Square, the chat services  *)
(* and the mail server may have done what they were asked although their   *)
(* answer is lost.                                                         *)
(***************************************************************************)
EXTENDS Naturals

CONSTANTS
    Customers,
    Targets,    \* chat channels
    Sales,      \* carts and enquiries that are announced to channels
    Orders,
    MaxEdits,   \* bound: edits of a customer
    MaxTries    \* MaxTries[q]: MAX_ATTEMPTS of queue q

Queue == {"sync", "notify", "email"}

ASSUME MaxEditsAssumption == MaxEdits \in Nat
ASSUME MaxTriesAssumption == MaxTries \in [Queue -> Nat \ {0}]

Contact == [q : {"sync"}, c : Customers]
Notice == [q : {"notify"}, t : Targets, s : Sales]
Email == [q : {"email"}, o : Orders]
Message == Contact \union Notice \union Email
ContactOf(c) == [q |-> "sync", c |-> c]

VARIABLES
    version,    \* version[c]: edits the customer's row has seen
    contact,    \* contact[c]: the edit Square holds, 0 for none
    editing,    \* customers an update request has written but not enqueued
    target,     \* target[t]: notification_targets.active, or gone
    connected,  \* a Square account is connected
    row,        \* row[m]: the newest row of message m
    dead,       \* dead[c]: failed contact rows of c; 2 stands for more
    told,       \* told[m]: what the recipient has had and we know of
    missed,     \* customers with an edit that no row answers for
    work        \* what the worker does next

data == <<version, contact, editing, target, connected, missed>>
vars == <<version, contact, editing, target, connected, row, dead, told, missed, work>>

RowStatus == {"none", "pending", "sent", "failed"}
Row == [status : RowStatus, tries : Nat, due : BOOLEAN]
NoRow == [status |-> "none", tries |-> 0, due |-> FALSE]
NewRow == [status |-> "pending", tries |-> 0, due |-> TRUE]
DueNow(r) == [r EXCEPT !.due = TRUE]
Sent(r) == [r EXCEPT !.status = "sent"]
Failed(r, tries) == [r EXCEPT !.status = "failed", !.tries = tries]
Later(r, tries) == [r EXCEPT !.tries = tries, !.due = FALSE]

Answer == {"ok", "again", "refused"}
Selected == [m : Message, tries : Nat]
Work ==
    [pc : {"select"}, q : Queue]
    \union [pc : {"next"}, q : Queue, batch : SUBSET Selected]
    \union [pc : {"read"}, q : {"sync"}, batch : SUBSET Selected, at : Selected]
    \union [pc : {"send"}, q : Queue, batch : SUBSET Selected, at : Selected, seen : 0..MaxEdits]
    \union [pc : {"settle"}, q : Queue, batch : SUBSET Selected, at : Selected, answer : Answer]

\* Types; and a row still waiting has tries left.
TypeOK ==
    /\ version \in [Customers -> 0..MaxEdits]
    /\ contact \in [Customers -> 0..MaxEdits]
    /\ editing \in SUBSET Customers
    /\ target \in [Targets -> {"active", "paused", "gone"}]
    /\ connected \in BOOLEAN
    /\ row \in [Message -> Row]
    /\ \A m \in Message : row[m].status = "pending" => row[m].tries < MaxTries[m.q]
    /\ dead \in [Customers -> 0..2]
    /\ told \in [Message -> {"no", "once", "twice"}]
    /\ missed \in SUBSET Customers
    /\ work \in Work

Init ==
    /\ version = [c \in Customers |-> 0]
    /\ contact = [c \in Customers |-> 0]
    /\ editing = {}
    /\ target = [t \in Targets |-> "active"]
    /\ connected \in BOOLEAN
    /\ row = [m \in Message |-> NoRow]
    /\ dead = [c \in Customers |-> 0]
    /\ told = [m \in Message |-> "no"]
    /\ missed = {}
    /\ work = [pc |-> "select", q |-> "sync"]

Waits(m) == row[m].status = "pending"

-----------------------------------------------------------------------------
(* Requests.                                                               *)

\* The worker has read the customer and not settled the row yet.
InFlight(c) ==
    /\ work.pc \in {"send", "settle"}
    /\ work.at.m = ContactOf(c)

\* Mutant of Enqueue: a customer has one row for good, not one pending row.
EnqueueOnce(c) ==
    LET m == ContactOf(c)
    IN /\ row' = [row EXCEPT ![m] = IF Waits(m) THEN DueNow(row[m])
                                    ELSE IF row[m].status = "none" THEN NewRow ELSE row[m]]
       /\ missed' = IF InFlight(c) THEN missed \union {c} ELSE missed

\* enqueue: a pending row of the customer is reused, its clock reset.
Enqueue(c) ==
    LET m == ContactOf(c)
    IN /\ row' = [row EXCEPT ![m] = IF Waits(m) THEN DueNow(row[m]) ELSE NewRow]
       /\ missed' = IF InFlight(c) THEN missed \union {c} ELSE missed

Edit(c) ==
    /\ version[c] < MaxEdits
    /\ version' = [version EXCEPT ![c] = @ + 1]

\* Intake, share page and shop: the customer and the row in one transaction.
Intake(c) ==
    /\ Edit(c)
    /\ Enqueue(c)
    /\ UNCHANGED <<contact, editing, target, connected, dead, told, work>>

\* customers::update: one statement writes the customer, a second enqueues.
UpdateCustomer(c) ==
    /\ c \notin editing
    /\ Edit(c)
    /\ editing' = editing \union {c}
    /\ UNCHANGED <<contact, target, connected, row, dead, told, missed, work>>

EnqueueUpdate(c) ==
    /\ c \in editing
    /\ editing' = editing \ {c}
    /\ Enqueue(c)
    /\ UNCHANGED <<version, contact, target, connected, dead, told, work>>

\* The request is dropped, or the server stops, between the two.
DropUpdate(c) ==
    /\ c \in editing
    /\ editing' = editing \ {c}
    /\ missed' = missed \union {c}
    /\ UNCHANGED <<version, contact, target, connected, row, dead, told, work>>

\* Mutant of Announced: only a row still pending is in the way, as in sync.rs.
AnnouncedUnlessPending(m, s) ==
    m \in Notice /\ m.s = s /\ target[m.t] = "active" /\ row[m].status # "pending"

\* on conflict (target_id, cart_id, event_type) do nothing
Announced(m, s) == m \in Notice /\ m.s = s /\ target[m.t] = "active" /\ row[m].status = "none"

\* enqueue_for_paid_cart and enqueue_for_enquiry, as often as the settlement of
\* the cart is applied.
Announce(s) ==
    /\ row' = [m \in Message |-> IF Announced(m, s) THEN NewRow ELSE row[m]]
    /\ UNCHANGED <<data, dead, told, work>>

\* queue_order_ready, each time staff mark the order ready; one row per order.
OrderReady(o) ==
    LET m == [q |-> "email", o |-> o]
    IN /\ row[m].status = "none"
       /\ row' = [row EXCEPT ![m] = NewRow]
       /\ UNCHANGED <<data, dead, told, work>>

\* notifications::update and delete; deliveries go with their target.
SetTarget(t, s) ==
    /\ target[t] # "gone"
    /\ s \in {"active", "paused"}
    /\ target' = [target EXCEPT ![t] = s]
    /\ UNCHANGED <<version, contact, editing, connected, row, dead, told, missed, work>>
DeleteTarget(t) ==
    /\ target[t] # "gone"
    /\ target' = [target EXCEPT ![t] = "gone"]
    /\ row' = [m \in Message |-> IF m \in Notice /\ m.t = t THEN NoRow ELSE row[m]]
    /\ UNCHANGED <<version, contact, editing, connected, dead, told, missed, work>>

\* Two rows of one customer would be pending: the statement fails as a whole.
Conflict(c) == dead[c] > 1 \/ (dead[c] = 1 /\ Waits(ContactOf(c)))

\* sync::retry
Retry ==
    /\ \A c \in Customers : ~Conflict(c)
    /\ row' = [m \in Message |-> IF m \in Contact /\ dead[m.c] = 1 THEN NewRow ELSE row[m]]
    /\ dead' = [c \in Customers |-> 0]
    /\ UNCHANGED <<data, told, work>>

SetConnected(b) ==
    /\ connected' = b
    /\ UNCHANGED <<version, contact, editing, target, row, dead, told, missed, work>>

\* next_attempt_at passes.
ComesDue(m) ==
    /\ Waits(m)
    /\ ~row[m].due
    /\ row' = [row EXCEPT ![m] = DueNow(row[m])]
    /\ UNCHANGED <<data, dead, told, work>>

Request ==
    \/ \E c \in Customers : Intake(c) \/ UpdateCustomer(c) \/ EnqueueUpdate(c) \/ DropUpdate(c)
    \/ \E s \in Sales : Announce(s)
    \/ \E o \in Orders : OrderReady(o)
    \/ \E t \in Targets : DeleteTarget(t) \/ \E s \in {"active", "paused"} : SetTarget(t, s)
    \/ Retry
    \/ \E b \in BOOLEAN : SetConnected(b)

-----------------------------------------------------------------------------
(* The worker.                                                             *)

After(q) == IF q = "sync" THEN "notify" ELSE IF q = "notify" THEN "email" ELSE "sync"

Due(m) == row[m].status = "pending" /\ row[m].due

\* The contacts wait until a Square account is connected.  The limit of twenty
\* rows is left out: rows are taken in the order they came due, and one that
\* fails goes behind the others.
Select ==
    LET q == work.q
        batch == {[m |-> m, tries |-> row[m].tries] : m \in {n \in Message : n.q = q /\ Due(n)}}
    IN /\ work.pc = "select"
       /\ work' = [pc |-> "next", q |-> q,
                   batch |-> IF q = "sync" /\ ~connected THEN {} ELSE batch]
       /\ UNCHANGED <<data, row, dead, told>>

NextJob ==
    LET q == work.q
    IN /\ work.pc = "next"
       /\ \/ \E j \in work.batch :
                work' = IF q = "sync"
                        THEN [pc |-> "read", q |-> q, batch |-> work.batch \ {j}, at |-> j]
                        ELSE [pc |-> "send", q |-> q, batch |-> work.batch \ {j}, at |-> j,
                              seen |-> 0]
          \/ work.batch = {} /\ work' = [pc |-> "select", q |-> After(q)]
       /\ UNCHANGED <<data, row, dead, told>>

\* sync_contact reads the customer.
ReadCustomer ==
    /\ work.pc = "read"
    /\ work' = [pc |-> "send", q |-> "sync", batch |-> work.batch, at |-> work.at,
                seen |-> version[work.at.m.c]]
    /\ UNCHANGED <<data, row, dead, told>>

\* What the recipient knows after one more delivery.
Tell(m) == told' = [told EXCEPT ![m] = IF @ = "no" THEN "once" ELSE "twice"]

\* A contact is overwritten by an upsert, the rest is a message.
Deliver(m) ==
    IF m \in Contact
    THEN /\ contact' = [contact EXCEPT ![m.c] = work.seen]
         /\ missed' = IF work.seen = version[m.c] THEN missed \ {m.c} ELSE missed
         /\ UNCHANGED told
    ELSE Tell(m) /\ UNCHANGED <<contact, missed>>

Send ==
    LET m == work.at.m
    IN /\ work.pc = "send"
       /\ Deliver(m)
       /\ work' = [pc |-> "settle", q |-> work.q, batch |-> work.batch, at |-> work.at,
                   answer |-> "ok"]
       /\ UNCHANGED <<version, editing, target, connected, row, dead>>

\* The answer is an error.  One worth retrying may hide a delivery (a timeout,
\* or Square's id could not be written back), which then nobody knows of.
SendFails ==
    LET m == work.at.m
    IN /\ work.pc = "send"
       /\ \E a \in {"again", "refused"} :
             work' = [pc |-> "settle", q |-> work.q, batch |-> work.batch, at |-> work.at,
                      answer |-> a]
       /\ \/ UNCHANGED <<contact, missed>>
          \/ m \in Contact /\ work'.answer = "again" /\ Deliver(m)
       /\ UNCHANGED <<version, editing, target, connected, row, dead, told>>

\* Mutant of SettleRow: giving up is left to the next poll, which has no tries
\* left to compare with.
SettleRowUnbounded(m, tries, a) ==
    row' = [row EXCEPT ![m] = IF a = "ok" THEN Sent(row[m])
                              ELSE IF a = "refused" THEN Failed(row[m], tries + 1)
                              ELSE Later(row[m], tries + 1)]

\* Mutant of SettleRow: the attempts of a row to be retried are not stored.
SettleRowForgets(m, tries, a) ==
    row' = [row EXCEPT ![m] = IF a = "ok" THEN Sent(row[m])
                              ELSE IF a = "refused" THEN Failed(row[m], tries + 1)
                              ELSE Later(row[m], row[m].tries)]

GivesUp(m, tries, a) == a = "refused" \/ (a = "again" /\ tries + 1 >= MaxTries[m.q])

\* update ... where id = $1
SettleRow(m, tries, a) ==
    row' = [row EXCEPT ![m] = IF a = "ok" THEN Sent(row[m])
                              ELSE IF GivesUp(m, tries, a) THEN Failed(row[m], tries + 1)
                              ELSE Later(row[m], tries + 1)]

\* A row deleted with its target is not there to be settled.
Settle ==
    LET m == work.at.m
        a == work.answer
    IN /\ work.pc = "settle"
       /\ IF row[m].status = "none" THEN UNCHANGED row ELSE SettleRow(m, work.at.tries, a)
       /\ IF m \in Contact /\ GivesUp(m, work.at.tries, a)
          THEN dead' = [dead EXCEPT ![m.c] = IF @ = 0 THEN 1 ELSE 2]
          ELSE UNCHANGED dead
       /\ work' = [pc |-> "next", q |-> work.q, batch |-> work.batch]
       /\ UNCHANGED <<data, told>>

Worker == Select \/ NextJob \/ ReadCustomer \/ Send \/ SendFails \/ Settle

\* A database error ends the work on a queue and a restart that on all; a
\* message just sent is not known to have been.  (The end of a batch is not an
\* interruption: FairSpec forbids them in the end, and means only these.)
Interrupted ==
    /\ \E q \in {"sync", After(work.q)} :
          /\ work' = [pc |-> "select", q |-> q]
          /\ ~(work.pc = "next" /\ work.batch = {} /\ q = After(work.q))
    /\ told' = IF work.pc = "settle" /\ work.answer = "ok"
               THEN [told EXCEPT ![work.at.m] = "no"] ELSE told
    /\ UNCHANGED <<data, row, dead>>

Next == Request \/ Worker \/ (\E m \in Message : ComesDue(m)) \/ Interrupted

Spec == Init /\ [][Next]_vars
\* A row of work goes on to its next step, the loop polls every five seconds,
\* and time passes; database errors and restarts come to an end.
FairSpec ==
    /\ Spec
    /\ WF_vars(Worker)
    /\ \A m \in Message : WF_vars(ComesDue(m))
    /\ <>[][~Interrupted]_vars

-----------------------------------------------------------------------------
\* Nobody is told the same thing twice, however often staff press the button,
\* a settlement is applied again, a send is retried or a target is paused,
\* unless the answer to the first time was lost.
ToldOnce == \A m \in Message : told[m] # "twice"

\* An edit of a customer that Square does not hold has a row that waits or
\* failed; it goes missing only when it came while a job of the customer was in
\* flight, or when an update request stopped half way.
EditsAreAnswered ==
    \A c \in Customers :
       \/ contact[c] = version[c]
       \/ Waits(ContactOf(c)) \/ dead[c] > 0
       \/ c \in editing \/ c \in missed

\* Whatever is queued is sent or given up, however the sends fail; a contact
\* waits as long as no Square account is connected.
QueuesDrain ==
    \A m \in Message : Waits(m) ~> ~Waits(m) \/ (m \in Contact /\ ~connected)

\* 0003: "a sync is never lost", and "a later change re-enqueues cleanly", so
\* a job that succeeded has pushed what the customer's row says.
SucceededIsCurrent ==
    \A c \in Customers :
       row[ContactOf(c)].status = "sent" => contact[c] = version[c] \/ c \in editing
=============================================================================
