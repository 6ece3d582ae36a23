--------------------------- MODULE OutboxesProofs ---------------------------
(***************************************************************************)
(* Types of the queues, and what they promise, for any number of           *)
(* customers, channels, sales and orders and any limits.                   *)
(***************************************************************************)
EXTENDS Outboxes, TLAPS

\* The rows the worker has selected and not settled, and all are of the queue it
\* works on.
Held == IF work.pc = "select" THEN {}
        ELSE IF work.pc = "next" THEN work.batch ELSE work.batch \union {work.at}
InQueue == \A j \in Held : j.m.q = work.q

\* The messages of different kinds are different, and have what they name.
LEMMA Kinds ==
    /\ \A c \in Customers : ContactOf(c) \in Contact /\ ContactOf(c).c = c
    /\ \A m \in Contact : m.c \in Customers /\ m = ContactOf(m.c) /\ m.q = "sync"
    /\ \A m \in Notice : m.t \in Targets /\ m.q = "notify"
    /\ \A m \in Email : m.o \in Orders /\ m.q = "email"
    /\ Contact \subseteq Message /\ Notice \subseteq Message /\ Email \subseteq Message
    /\ \A m \in Message : m.q \in Queue
    /\ \A m \in Message : m \in Contact \/ m \in Notice \/ m \in Email
    /\ \A m \in Contact : m \notin Notice /\ m \notin Email
BY DEF Contact, Notice, Email, Message, ContactOf, Queue

LEMMA NewRows ==
    /\ NewRow \in Row /\ NewRow.status = "pending" /\ NewRow.tries = 0
    /\ NoRow \in Row /\ NoRow.status = "none"
BY DEF NewRow, NoRow, Row, RowStatus

\* The worker's records, by its step.
LEMMA Steps ==
    ASSUME work \in Work
    PROVE  /\ work.pc \in {"select", "next", "read", "send", "settle"}
           /\ work.q \in Queue
           /\ work.pc = "next" => work.batch \in SUBSET Selected
           /\ work.pc \in {"read", "send", "settle"} =>
                 work.batch \in SUBSET Selected /\ work.at \in Selected
           /\ work.pc = "read" => work.q = "sync"
           /\ work.pc = "send" => work.seen \in 0..MaxEdits
           /\ work.pc = "settle" => work.answer \in Answer
<1>1. CASE work \in [pc : {"select"}, q : Queue]
  BY <1>1
<1>2. CASE work \in [pc : {"next"}, q : Queue, batch : SUBSET Selected]
  BY <1>2
<1>3. CASE work \in [pc : {"read"}, q : {"sync"}, batch : SUBSET Selected, at : Selected]
  BY <1>3 DEF Queue
<1>4. CASE work \in [pc : {"send"}, q : Queue, batch : SUBSET Selected, at : Selected, seen : 0..MaxEdits]
  BY <1>4
<1>5. CASE work \in [pc : {"settle"}, q : Queue, batch : SUBSET Selected, at : Selected, answer : Answer]
  BY <1>5
<1>. QED  BY <1>1, <1>2, <1>3, <1>4, <1>5 DEF Work

-----------------------------------------------------------------------------
(* Types.                                                                  *)

RowsOK == /\ row \in [Message -> Row]
          /\ \A m \in Message : row[m].status = "pending" => row[m].tries < MaxTries[m.q]

LEMMA InitTypes == Init => TypeOK
<1> SUFFICES ASSUME Init PROVE TypeOK
  OBVIOUS
<1>1. RowsOK
  BY NewRows DEF Init, RowsOK
<1>2. work \in Work
  BY DEF Init, Work, Queue
<1> QED
  BY <1>1, <1>2, MaxEditsAssumption DEF Init, TypeOK, RowsOK

\* What an update of one row leaves it with.
LEMMA RowUpdates ==
    ASSUME NEW r \in Row, NEW n \in Nat
    PROVE  /\ DueNow(r) \in Row
           /\ DueNow(r).status = r.status
           /\ DueNow(r).tries = r.tries
           /\ Sent(r) \in Row
           /\ Sent(r).status = "sent"
           /\ Failed(r, n) \in Row
           /\ Failed(r, n).status = "failed"
           /\ Later(r, n) \in Row
           /\ Later(r, n).tries = n
           /\ Later(r, n).status = r.status
BY DEF Row, RowStatus, DueNow, Sent, Failed, Later

\* An update of one row keeps the rest; what a request or the clock does to it.
LEMMA OneRow ==
    ASSUME TypeOK, NEW n \in Message, NEW r \in Row, row' = [row EXCEPT ![n] = r],
           r.status = "pending" => r.tries < MaxTries[n.q]
    PROVE  RowsOK'
BY DEF RowsOK, TypeOK

LEMMA EnqueueRow ==
    ASSUME TypeOK, NEW c \in Customers, Enqueue(c)
    PROVE  \E r \in Row :
              /\ row' = [row EXCEPT ![ContactOf(c)] = r]
              /\ r.status = "pending"
              /\ r.tries < MaxTries["sync"]
<1> DEFINE n == ContactOf(c)
<1>1. n \in Message /\ n.q = "sync" /\ row[n] \in Row /\ row \in [Message -> Row] /\ "sync" \in Queue
  BY Kinds DEF TypeOK, Queue
<1>2. CASE Waits(n)
  <2> DEFINE r == DueNow(row[n])
  <2>1. r \in Row /\ r.status = row[n].status /\ r.tries = row[n].tries
    BY <1>1, RowUpdates
  <2>2. row[n].status = "pending" /\ row[n].tries < MaxTries["sync"]
    BY <1>1, <1>2 DEF Waits, TypeOK
  <2>3. row' = [row EXCEPT ![n] = r]
    BY <1>1, <1>2 DEF Enqueue
  <2> QED
    BY <2>1, <2>2, <2>3
<1>3. CASE ~Waits(n)
  <2>1. row' = [row EXCEPT ![n] = NewRow]
    BY <1>3 DEF Enqueue
  <2>2. 0 < MaxTries["sync"]
    BY <1>1, MaxTriesAssumption
  <2> QED
    BY <2>1, <2>2, NewRows
<1> QED
  BY <1>2, <1>3

LEMMA EnqueueTypes ==
    ASSUME TypeOK, NEW c \in Customers, Enqueue(c)
    PROVE  RowsOK' /\ missed' \in SUBSET Customers
<1>1. PICK r \in Row : /\ row' = [row EXCEPT ![ContactOf(c)] = r]
                       /\ r.tries < MaxTries["sync"]
  BY EnqueueRow
<1>2. RowsOK'
  BY <1>1, OneRow, Kinds
<1> QED
  BY <1>2 DEF Enqueue, TypeOK

\* The row is sent, failed, or waits with a try left.
LEMMA SettledRow ==
    ASSUME TypeOK, work.pc = "settle", SettleRow(work.at.m, work.at.tries, work.answer)
    PROVE  \E r \in Row :
              /\ row' = [row EXCEPT ![work.at.m] = r]
              /\ r.status = IF work.answer = "ok" THEN "sent"
                            ELSE IF GivesUp(work.at.m, work.at.tries, work.answer) THEN "failed"
                            ELSE row[work.at.m].status
              /\ r.status = "pending" => work.answer # "ok" /\ r.tries < MaxTries[work.at.m.q]
<1> DEFINE n == work.at.m
           k == work.at.tries
<1>1. n \in Message /\ k \in Nat /\ n.q \in Queue /\ row[n] \in Row /\ work.answer \in Answer
  BY Steps, Kinds DEF TypeOK, Selected
<1>0. k + 1 \in Nat
  BY <1>1
<1>2. CASE work.answer = "ok"
  <2> DEFINE r == Sent(row[n])
  <2>1. r \in Row /\ r.status = "sent"
    BY <1>1, RowUpdates
  <2>2. row' = [row EXCEPT ![n] = r]
    BY <1>1, <1>2 DEF SettleRow, TypeOK
  <2> QED
    BY <1>2, <2>1, <2>2
<1>3. CASE work.answer # "ok" /\ GivesUp(n, k, work.answer)
  <2> DEFINE r == Failed(row[n], k + 1)
  <2>1. r \in Row /\ r.status = "failed"
    BY <1>0, <1>1, RowUpdates
  <2>2. row' = [row EXCEPT ![n] = r]
    BY <1>1, <1>3 DEF SettleRow, TypeOK
  <2> QED
    BY <1>3, <2>1, <2>2
<1>4. CASE work.answer # "ok" /\ ~GivesUp(n, k, work.answer)
  <2> DEFINE r == Later(row[n], k + 1)
  <2>1. r \in Row /\ r.status = row[n].status /\ r.tries = k + 1
    BY <1>0, <1>1, RowUpdates
  <2>2. row' = [row EXCEPT ![n] = r]
    BY <1>1, <1>4 DEF SettleRow, TypeOK
  <2>3. k + 1 < MaxTries[n.q]
    BY <1>1, <1>4, MaxTriesAssumption DEF GivesUp, Answer
  <2> QED
    BY <1>4, <2>1, <2>2, <2>3
<1> QED
  BY <1>2, <1>3, <1>4

LEMMA SettleTypes ==
    ASSUME TypeOK, work.pc = "settle", SettleRow(work.at.m, work.at.tries, work.answer)
    PROVE  RowsOK'
<1>1. PICK r \in Row :
         /\ row' = [row EXCEPT ![work.at.m] = r]
         /\ r.status = "pending" => work.answer # "ok" /\ r.tries < MaxTries[work.at.m.q]
  BY SettledRow
<1> QED
  BY <1>1, OneRow, Steps DEF TypeOK, Selected

LEMMA NextTypes ==
    ASSUME TypeOK, InQueue, [Next]_vars
    PROVE  TypeOK'
<1>0. RowsOK /\ work \in Work
  BY DEF TypeOK, RowsOK
<1>1. ASSUME NEW c \in Customers, Intake(c) PROVE TypeOK'
  <2>1. RowsOK' /\ missed' \in SUBSET Customers
    BY <1>1, EnqueueTypes DEF Intake
  <2> QED
    BY <1>1, <2>1, MaxEditsAssumption DEF Intake, Edit, TypeOK, RowsOK
<1>2. ASSUME NEW c \in Customers, UpdateCustomer(c) PROVE TypeOK'
  BY <1>2, MaxEditsAssumption DEF UpdateCustomer, Edit, TypeOK
<1>3. ASSUME NEW c \in Customers, EnqueueUpdate(c) PROVE TypeOK'
  <2>1. RowsOK' /\ missed' \in SUBSET Customers
    BY <1>3, EnqueueTypes DEF EnqueueUpdate
  <2> QED
    BY <1>3, <2>1 DEF EnqueueUpdate, TypeOK, RowsOK
<1>4. ASSUME NEW c \in Customers, DropUpdate(c) PROVE TypeOK'
  BY <1>4 DEF DropUpdate, TypeOK
<1>5. ASSUME NEW s \in Sales, Announce(s) PROVE TypeOK'
  <2>1. \A m \in Message : 0 < MaxTries[m.q]
    BY Kinds, MaxTriesAssumption
  <2>2. RowsOK'
    BY <1>0, <1>5, <2>1, NewRows DEF Announce, RowsOK
  <2> QED
    BY <1>5, <2>2 DEF Announce, data, TypeOK, RowsOK
<1>6. ASSUME NEW o \in Orders, OrderReady(o) PROVE TypeOK'
  <2> DEFINE n == [q |-> "email", o |-> o]
  <2>1. n \in Message /\ n.q \in Queue
    BY DEF Message, Email, Queue
  <2>2. row' = [row EXCEPT ![n] = NewRow]
    BY <1>6 DEF OrderReady
  <2>3. 0 < MaxTries[n.q]
    BY <2>1, MaxTriesAssumption
  <2>4. RowsOK'
    BY <2>1, <2>2, <2>3, NewRows, OneRow
  <2> QED
    BY <1>6, <2>4 DEF OrderReady, data, TypeOK, RowsOK
<1>7. ASSUME NEW t \in Targets, NEW s \in {"active", "paused"}, SetTarget(t, s) PROVE TypeOK'
  BY <1>7 DEF SetTarget, TypeOK
<1>8. ASSUME NEW t \in Targets, DeleteTarget(t) PROVE TypeOK'
  <2>1. RowsOK'
    BY <1>0, <1>8, NewRows DEF DeleteTarget, RowsOK
  <2> QED
    BY <1>8, <2>1 DEF DeleteTarget, TypeOK, RowsOK
<1>9. ASSUME Retry PROVE TypeOK'
  <2>1. \A m \in Message : 0 < MaxTries[m.q]
    BY Kinds, MaxTriesAssumption
  <2>2. RowsOK'
    BY <1>0, <1>9, <2>1, NewRows DEF Retry, RowsOK
  <2> QED
    BY <1>9, <2>2 DEF Retry, data, TypeOK, RowsOK
<1>10. ASSUME NEW b \in BOOLEAN, SetConnected(b) PROVE TypeOK'
  BY <1>10 DEF SetConnected, TypeOK
<1>11. ASSUME NEW m \in Message, ComesDue(m) PROVE TypeOK'
  <2>1. row[m] \in Row
    BY DEF TypeOK
  <2>2. DueNow(row[m]) \in Row /\ DueNow(row[m]).tries = row[m].tries
    BY <2>1, RowUpdates
  <2>3. row[m].tries < MaxTries[m.q]
    BY <1>11 DEF ComesDue, Waits, TypeOK
  <2>4. RowsOK'
    BY <1>11, <2>2, <2>3, OneRow DEF ComesDue
  <2> QED
    BY <1>11, <2>4 DEF ComesDue, data, TypeOK, RowsOK
<1>12. ASSUME Select PROVE TypeOK'
  <2>1. work.q \in Queue
    BY <1>0, Steps
  <2>2. \A m \in Message : row[m].tries \in Nat
    BY DEF TypeOK, Row
  <2>3. {[m |-> m, tries |-> row[m].tries] : m \in {n \in Message : n.q = work.q /\ Due(n)}}
           \in SUBSET Selected
    BY <2>2 DEF Selected
  <2>4. work' \in Work
    BY <1>12, <2>1, <2>3 DEF Select, Work
  <2> QED
    BY <1>12, <2>4 DEF Select, data, TypeOK
<1>13. ASSUME NextJob PROVE TypeOK'
  <2>1. work.q \in Queue /\ work.batch \in SUBSET Selected
    BY <1>0, <1>13, Steps DEF NextJob
  <2>2. After(work.q) \in Queue
    BY DEF After, Queue
  <2>3. 0 \in 0..MaxEdits
    BY MaxEditsAssumption
  <2>4. work' \in Work
    <3>1. CASE \E j \in work.batch : work.q = "sync" /\
               work' = [pc |-> "read", q |-> work.q, batch |-> work.batch \ {j}, at |-> j]
      BY <2>1, <3>1 DEF Work
    <3>2. CASE \E j \in work.batch :
               work' = [pc |-> "send", q |-> work.q, batch |-> work.batch \ {j}, at |-> j, seen |-> 0]
      BY <2>1, <2>3, <3>2 DEF Work
    <3>3. CASE work' = [pc |-> "select", q |-> After(work.q)]
      BY <2>2, <3>3 DEF Work
    <3> QED
      BY <1>13, <3>1, <3>2, <3>3 DEF NextJob
  <2> QED
    BY <1>13, <2>4 DEF NextJob, data, TypeOK
<1>14. ASSUME ReadCustomer PROVE TypeOK'
  <2>1. work.q = "sync" /\ work.batch \in SUBSET Selected /\ work.at \in Selected
    BY <1>0, <1>14, Steps DEF ReadCustomer
  <2>2. work.at.m \in Contact
    BY <1>14, <2>1, Kinds DEF ReadCustomer, InQueue, Held, Selected
  <2>3. version[work.at.m.c] \in 0..MaxEdits
    BY <2>2, Kinds DEF TypeOK
  <2>4. work' \in Work
    BY <1>14, <2>1, <2>3 DEF ReadCustomer, Work, Queue
  <2> QED
    BY <1>14, <2>4 DEF ReadCustomer, data, TypeOK
<1>15. ASSUME Send \/ SendFails PROVE TypeOK'
  <2>1. /\ work.q \in Queue /\ work.batch \in SUBSET Selected
        /\ work.at \in Selected /\ work.seen \in 0..MaxEdits
    BY <1>0, <1>15, Steps DEF Send, SendFails
  <2>2. work' \in Work
    BY <1>15, <2>1 DEF Send, SendFails, Work, Answer
  <2>3. ASSUME Deliver(work.at.m) PROVE contact' \in [Customers -> 0..MaxEdits] /\ missed' \in SUBSET Customers
                                        /\ told' \in [Message -> {"no", "once", "twice"}]
    BY <2>1, <2>3 DEF Deliver, Tell, TypeOK, Selected
  <2>4. CASE Send
    BY <2>2, <2>3, <2>4 DEF Send, TypeOK
  <2>5. CASE SendFails
    BY <2>2, <2>3, <2>5 DEF SendFails, TypeOK
  <2> QED
    BY <1>15, <2>4, <2>5
<1>16. ASSUME Settle PROVE TypeOK'
  <2>1. work.q \in Queue /\ work.batch \in SUBSET Selected
    BY <1>0, <1>16, Steps DEF Settle
  <2>2. RowsOK'
    <3>1. CASE UNCHANGED row
      BY <1>0, <3>1 DEF RowsOK
    <3> QED
      BY <1>16, <3>1, SettleTypes DEF Settle
  <2>3. dead' \in [Customers -> 0..2]
    BY <1>16 DEF Settle, TypeOK
  <2>4. work' \in Work
    BY <1>16, <2>1 DEF Settle, Work
  <2> QED
    BY <1>16, <2>2, <2>3, <2>4 DEF Settle, data, TypeOK, RowsOK
<1>17. ASSUME Interrupted PROVE TypeOK'
  <2>1. work' \in Work
    BY <1>17 DEF Interrupted, Work, After, Queue
  <2> QED
    BY <1>17, <2>1 DEF Interrupted, data, TypeOK
<1>18. CASE UNCHANGED vars
  BY <1>18 DEF vars, TypeOK
<1> QED
  BY <1>1, <1>2, <1>3, <1>4, <1>5, <1>6, <1>7, <1>8, <1>9, <1>10, <1>11, <1>12, <1>13,
     <1>14, <1>15, <1>16, <1>17, <1>18 DEF Next, Request, Worker

-----------------------------------------------------------------------------
(* The worker's place.                                                     *)

\* A message is held once.
Single == /\ \A j, k \in Held : j.m = k.m => j = k
          /\ work.pc \in {"read", "send", "settle"} => work.at \notin work.batch

\* Requests and the clock leave the worker where it is.
LEMMA WorkerSteps ==
    ASSUME [Next]_vars
    PROVE  work' = work \/ Worker \/ Interrupted
<1>1. ASSUME Request PROVE work' = work
  BY <1>1 DEF Request, Intake, UpdateCustomer, EnqueueUpdate, DropUpdate, Announce, OrderReady,
              SetTarget, DeleteTarget, Retry, SetConnected
<1>2. ASSUME NEW m \in Message, ComesDue(m) PROVE work' = work
  BY <1>2 DEF ComesDue
<1> QED
  BY <1>1, <1>2 DEF Next, vars

\* A step of the worker selects due rows, goes on with those it holds, or
\* drops some.
LEMMA HeldSteps ==
    ASSUME TypeOK, [Next]_vars
    PROVE  \/ work' = work
           \/ Select
           \/ Held' \subseteq Held /\ (Held' = {} \/ work'.q = work.q)
<1>0. work \in Work
  BY DEF TypeOK
<1>3. ASSUME NextJob \/ Interrupted
      PROVE  Held' \subseteq Held /\ (Held' = {} \/ work'.q = work.q)
  BY <1>3 DEF NextJob, Interrupted, Held
<1>4. ASSUME ReadCustomer \/ Send \/ SendFails
      PROVE  Held' \subseteq Held /\ work'.q = work.q
  <2>1. work.pc \in {"read", "send"}
    BY <1>4 DEF ReadCustomer, Send, SendFails
  <2>2. work.pc = "read" => work.q = "sync"
    BY <1>0, Steps
  <2>3. Held' = work'.batch \union {work'.at} /\ work'.batch = work.batch /\ work'.at = work.at
    BY <1>4 DEF ReadCustomer, Send, SendFails, Held
  <2> QED
    BY <1>4, <2>1, <2>2, <2>3 DEF ReadCustomer, Send, SendFails, Held
<1>5. ASSUME Settle PROVE Held' \subseteq Held /\ work'.q = work.q
  BY <1>5 DEF Settle, Held
<1> QED
  BY <1>3, <1>4, <1>5, WorkerSteps DEF Worker

LEMMA NextHeld ==
    ASSUME TypeOK, InQueue, Single, [Next]_vars
    PROVE  InQueue' /\ Single'
<1>1. CASE work' = work
  BY <1>1 DEF InQueue, Single, Held
<1>2. CASE Select
  <2>1. \A j \in Held' : \E m \in Message : j = [m |-> m, tries |-> row[m].tries] /\ m.q = work.q
    BY <1>2 DEF Select, Held
  <2>2. work'.q = work.q /\ work'.pc = "next"
    BY <1>2 DEF Select
  <2> QED
    BY <2>1, <2>2 DEF InQueue, Single
<1>3. CASE Held' \subseteq Held /\ (Held' = {} \/ work'.q = work.q) /\ work' # work /\ ~Select
  <2>1. InQueue' /\ \A j, k \in Held' : j.m = k.m => j = k
    BY <1>3 DEF InQueue, Single
  <2>2. work'.pc \in {"read", "send", "settle"} => work'.at \notin work'.batch
    <3>1. ASSUME NextJob PROVE work'.pc \in {"read", "send"} => work'.at \notin work'.batch
      BY <3>1 DEF NextJob
    <3>2. ASSUME ReadCustomer \/ Send \/ SendFails
          PROVE  work.pc \in {"read", "send"} /\ work'.batch = work.batch /\ work'.at = work.at
      BY <3>2 DEF ReadCustomer, Send, SendFails
    <3>3. ASSUME Settle \/ Interrupted \/ NextJob PROVE work'.pc \in {"next", "select", "read", "send"}
      BY <3>3 DEF Settle, Interrupted, NextJob
    <3>4. ASSUME Settle \/ Interrupted PROVE work'.pc \in {"next", "select"}
      BY <3>4 DEF Settle, Interrupted
    <3>5. Worker \/ Interrupted
      BY <1>3, WorkerSteps
    <3> QED
      BY <1>3, <3>1, <3>2, <3>3, <3>4, <3>5 DEF Worker, Single
  <2> QED
    BY <2>1, <2>2 DEF Single
<1> QED
  BY <1>1, <1>2, <1>3, HeldSteps

-----------------------------------------------------------------------------
(* Told once.                                                              *)

\* The message of a deleted channel is gone with it.
Removed(m) == m \in Notice /\ target[m.t] = "gone"

\* m was sent just now and its row does not say so yet.
JustSent(m) == work.pc = "settle" /\ work.at.m = m /\ work.answer = "ok"

\* The rows the worker holds and has not sent.
ToSend == IF work.pc = "settle" THEN work.batch ELSE Held

\* A message whoever was told of is not sent again: its row says sent, is gone
\* for good, or is about to say sent; and the worker holds none of these.
ToldInv ==
    /\ \A m \in Message : Removed(m) => row[m].status = "none"
    /\ \A m \in Message : told[m] # "no" =>
          /\ told[m] = "once" /\ m \notin Contact
          /\ (row[m].status = "sent" \/ Removed(m) \/ JustSent(m))
    /\ \A j \in Held : Waits(j.m) \/ Removed(j.m)
    /\ \A j \in ToSend : told[j.m] = "no"

LEMMA HeldMessages ==
    ASSUME TypeOK
    PROVE  /\ Held \subseteq Selected /\ ToSend \subseteq Held
           /\ \A j \in Held : j.m \in Message
           /\ \A m \in Message : JustSent(m) => \E j \in Held : j.m = m
<1>1. work \in Work
  BY DEF TypeOK
<1>2. Held \subseteq Selected
  BY <1>1, Steps DEF Held
<1>3. ToSend \subseteq Held
  BY DEF ToSend, Held
<1>4. \A m \in Message : JustSent(m) => \E j \in Held : j.m = m
  BY DEF JustSent, Held
<1> QED
  BY <1>2, <1>3, <1>4 DEF Selected

\* A message whose row is free to be queued again has not been told.
LEMMA Untold ==
    ASSUME TypeOK, ToldInv, NEW m \in Message, ~Removed(m), row[m].status # "sent",
           ~JustSent(m) \/ row[m].status = "none"
    PROVE  told[m] = "no"
BY HeldMessages DEF ToldInv, Waits

\* Requests that queue or revive contacts only.
LEMMA ContactsMove ==
    ASSUME TypeOK, ToldInv, work' = work, told' = told, target' = target,
           \A m \in Message : \/ row'[m].status = row[m].status
                              \/ m \in Contact /\ row'[m].status = "pending"
    PROVE  ToldInv'
<1>1. \A m \in Message : (Removed(m)' <=> Removed(m)) /\ (JustSent(m)' <=> JustSent(m))
                         /\ (m \in Contact => ~Removed(m))
  BY Kinds DEF Removed, JustSent
<1>2. Held' = Held /\ ToSend' = ToSend
  BY DEF Held, ToSend
<1>3. \A m \in Message : Waits(m) => Waits(m)'
  BY DEF Waits
<1> QED
  BY <1>1, <1>2, <1>3, HeldMessages DEF ToldInv

\* New rows are queued only where there is none.
LEMMA RowsAppear ==
    ASSUME TypeOK, ToldInv, work' = work, told' = told, target' = target,
           \A m \in Message :
              \/ row'[m] = row[m]
              \/ row[m].status = "none" /\ ~Removed(m)
    PROVE  ToldInv'
<1>1. \A m \in Message : (Removed(m)' <=> Removed(m)) /\ (JustSent(m)' <=> JustSent(m))
  BY DEF Removed, JustSent
<1>2. Held' = Held /\ ToSend' = ToSend
  BY DEF Held, ToSend
<1>3. \A m \in Message : Waits(m) => Waits(m)'
  BY DEF Waits
<1>4. \A m \in Message : row[m].status = "none" /\ ~Removed(m) => told[m] = "no"
  BY Untold
<1>5. \A m \in Message : Removed(m)' => row'[m].status = "none"
  BY <1>1 DEF ToldInv
<1>6. \A m \in Message : told'[m] # "no" =>
         /\ told'[m] = "once" /\ m \notin Contact
         /\ (row'[m].status = "sent" \/ Removed(m)' \/ JustSent(m)')
  BY <1>1, <1>4 DEF ToldInv
<1>7. \A j \in Held' : Waits(j.m)' \/ Removed(j.m)'
  BY <1>1, <1>2, <1>3, HeldMessages DEF ToldInv
<1>8. \A j \in ToSend' : told'[j.m] = "no"
  BY <1>2 DEF ToldInv
<1> QED
  BY <1>5, <1>6, <1>7, <1>8 DEF ToldInv

\* A channel changes; when it goes its messages go.
LEMMA TargetChanges ==
    ASSUME TypeOK, ToldInv, work' = work, told' = told,
           \A m \in Message : Removed(m) => Removed(m)',
           \A m \in Message : IF Removed(m)' THEN row'[m].status = "none" ELSE row'[m] = row[m]
    PROVE  ToldInv'
<1>1. Held' = Held /\ ToSend' = ToSend /\ \A m \in Message : JustSent(m)' <=> JustSent(m)
  BY DEF Held, ToSend, JustSent
<1> QED
  BY <1>1, HeldMessages DEF ToldInv, Waits

\* The worker moves on without telling anyone.
LEMMA WorkerMoves ==
    ASSUME TypeOK, ToldInv, row' = row, told' = told, target' = target,
           Held' \subseteq Held, ToSend' \subseteq ToSend,
           \A m \in Message : JustSent(m) => JustSent(m)'
    PROVE  ToldInv'
<1>1. \A m \in Message : (Removed(m)' <=> Removed(m)) /\ (Waits(m)' <=> Waits(m))
  BY DEF Removed, Waits
<1> QED
  BY <1>1, HeldMessages DEF ToldInv

LEMMA SendTold ==
    ASSUME TypeOK, Single, ToldInv, Send
    PROVE  ToldInv'
<1> DEFINE n == work.at.m
<1>1. /\ work.pc = "send" /\ work'.pc = "settle" /\ work'.answer = "ok"
      /\ work'.at = work.at /\ work'.batch = work.batch
      /\ row' = row /\ target' = target
  BY DEF Send
<1>2. work.at \in Held /\ n \in Message /\ work.at \notin work.batch
  BY <1>1, HeldMessages DEF Held, Single
<1>3. Held' = Held /\ ToSend' = work.batch /\ ToSend = Held /\ work.batch \subseteq Held
  BY <1>1 DEF Held, ToSend
<1>4. told[n] = "no"
  BY <1>2, <1>3 DEF ToldInv
<1>5. \A m \in Message : m # n => told'[m] = told[m] /\ ~JustSent(m)
  BY <1>1 DEF Send, Deliver, Tell, TypeOK, JustSent
<1>6. told'[n] = IF n \in Contact THEN "no" ELSE "once"
  BY <1>2, <1>4 DEF Send, Deliver, Tell, TypeOK
<1>7. JustSent(n)'
  BY <1>1 DEF JustSent
<1>8. \A j \in work.batch : j.m # n
  BY <1>2, <1>3 DEF Single
<1>9. \A m \in Message : (Removed(m)' <=> Removed(m)) /\ (Waits(m)' <=> Waits(m))
  BY <1>1 DEF Removed, Waits
<1>10. \A m \in Message : told'[m] # "no" =>
          /\ told'[m] = "once" /\ m \notin Contact
          /\ (row'[m].status = "sent" \/ Removed(m)' \/ JustSent(m)')
  BY <1>1, <1>5, <1>6, <1>7, <1>9 DEF ToldInv
<1>11. \A j \in ToSend' : told'[j.m] = "no"
  BY <1>3, <1>5, <1>8, HeldMessages DEF ToldInv
<1> QED
  BY <1>1, <1>3, <1>9, <1>10, <1>11, HeldMessages DEF ToldInv

LEMMA SettleTold ==
    ASSUME TypeOK, Single, ToldInv, Settle
    PROVE  ToldInv'
<1> DEFINE n == work.at.m
<1>1. /\ work.pc = "settle" /\ work'.pc = "next" /\ work'.batch = work.batch
      /\ told' = told /\ target' = target
  BY DEF Settle, data
<1>2. work.at \in Held /\ n \in Message /\ work.at \notin work.batch
  BY <1>1, HeldMessages DEF Held, Single
<1>3. Held' = work.batch /\ ToSend' = work.batch /\ ToSend = work.batch /\ work.batch \subseteq Held
  BY <1>1 DEF Held, ToSend
<1>4. \A j \in work.batch : j.m # n
  BY <1>2, <1>3 DEF Single
<1>5. \A m \in Message : ~JustSent(m)' /\ (JustSent(m) => m = n /\ work.answer = "ok")
  BY <1>1 DEF JustSent
<1>6. \A m \in Message : Removed(m)' <=> Removed(m)
  BY <1>1 DEF Removed
<1>7. CASE row[n].status = "none"
  <2>1. row' = row /\ Removed(n)
    BY <1>1, <1>2, <1>7 DEF Settle, ToldInv, Waits
  <2> QED
    BY <1>1, <1>3, <1>5, <1>6, <2>1, HeldMessages DEF ToldInv, Waits
<1>8. CASE row[n].status # "none"
  <2>1. PICK r \in Row :
           /\ row' = [row EXCEPT ![n] = r]
           /\ r.status = IF work.answer = "ok" THEN "sent"
                         ELSE IF GivesUp(n, work.at.tries, work.answer) THEN "failed"
                         ELSE row[n].status
    BY <1>1, <1>8, SettledRow DEF Settle
  <2>2. row'[n] = r /\ \A m \in Message : m # n => row'[m] = row[m]
    BY <1>2, <2>1 DEF TypeOK
  <2>3. ~Removed(n) /\ Waits(n)
    BY <1>2, <1>8 DEF ToldInv
  <2>4. work.answer # "ok" => told[n] = "no"
    BY <1>2, <1>5, <2>3, Untold DEF Waits
  <2>5. \A m \in Message : told'[m] # "no" =>
           /\ told'[m] = "once" /\ m \notin Contact
           /\ (row'[m].status = "sent" \/ Removed(m)' \/ JustSent(m)')
    BY <1>1, <1>5, <1>6, <2>1, <2>2, <2>4 DEF ToldInv
  <2>6. \A j \in Held' : Waits(j.m)' \/ Removed(j.m)'
    BY <1>3, <1>4, <1>6, <2>2, HeldMessages DEF ToldInv, Waits
  <2>7. \A m \in Message : Removed(m)' => row'[m].status = "none"
    BY <1>6, <2>2, <2>3 DEF ToldInv
  <2>8. \A j \in ToSend' : told'[j.m] = "no"
    BY <1>1, <1>3 DEF ToldInv
  <2> QED
    BY <2>5, <2>6, <2>7, <2>8 DEF ToldInv
<1> QED
  BY <1>7, <1>8

LEMMA InterruptedTold ==
    ASSUME TypeOK, ToldInv, Interrupted
    PROVE  ToldInv'
<1>1. /\ work'.pc = "select" /\ row' = row /\ target' = target
      /\ told' = IF work.pc = "settle" /\ work.answer = "ok"
                 THEN [told EXCEPT ![work.at.m] = "no"] ELSE told
  BY DEF Interrupted, data
<1>2. Held' = {} /\ ToSend' = {}
  BY <1>1 DEF Held, ToSend
<1>3. \A m \in Message : told'[m] # "no" => told[m] # "no" /\ ~JustSent(m)
  BY <1>1 DEF TypeOK, JustSent
<1>4. \A m \in Message : Removed(m)' <=> Removed(m)
  BY <1>1 DEF Removed
<1> QED
  BY <1>1, <1>2, <1>3, <1>4 DEF ToldInv

LEMMA NextTold ==
    ASSUME TypeOK, Single, ToldInv, [Next]_vars
    PROVE  ToldInv'
<1>1. ASSUME NEW c \in Customers, Enqueue(c)
      PROVE  \A m \in Message : \/ row'[m].status = row[m].status
                                \/ m \in Contact /\ row'[m].status = "pending"
  <2>1. PICK r \in Row : row' = [row EXCEPT ![ContactOf(c)] = r] /\ r.status = "pending"
    BY <1>1, EnqueueRow
  <2> QED
    BY <2>1, Kinds DEF TypeOK
<1>2. ASSUME NEW c \in Customers, Intake(c) \/ EnqueueUpdate(c) PROVE ToldInv'
  BY <1>1, <1>2, ContactsMove DEF Intake, EnqueueUpdate
<1>3. ASSUME NEW c \in Customers, UpdateCustomer(c) \/ DropUpdate(c) PROVE ToldInv'
  BY <1>3, ContactsMove DEF UpdateCustomer, DropUpdate
<1>4. ASSUME NEW b \in BOOLEAN, SetConnected(b) PROVE ToldInv'
  BY <1>4, ContactsMove DEF SetConnected
<1>5. ASSUME Retry PROVE ToldInv'
  <2>1. \A m \in Message : \/ row'[m].status = row[m].status
                           \/ m \in Contact /\ row'[m].status = "pending"
    BY <1>5, NewRows DEF Retry
  <2> QED
    BY <1>5, <2>1, ContactsMove DEF Retry, data
<1>6. ASSUME NEW n \in Message, ComesDue(n) PROVE ToldInv'
  <2>1. row[n] \in Row /\ row' = [row EXCEPT ![n] = DueNow(row[n])]
    BY <1>6 DEF ComesDue, TypeOK
  <2>2. DueNow(row[n]).status = row[n].status
    BY <2>1, RowUpdates
  <2>3. \A m \in Message : row'[m].status = row[m].status
    BY <2>1, <2>2 DEF TypeOK
  <2> QED
    BY <1>6, <2>3, ContactsMove DEF ComesDue, data
<1>7. ASSUME NEW s \in Sales, Announce(s) PROVE ToldInv'
  <2>1. \A m \in Message : \/ row'[m] = row[m]
                           \/ row[m].status = "none" /\ ~Removed(m)
    BY <1>7 DEF Announce, Announced, Removed
  <2> QED
    BY <1>7, <2>1, RowsAppear DEF Announce, data
<1>8. ASSUME NEW o \in Orders, OrderReady(o) PROVE ToldInv'
  <2> DEFINE n == [q |-> "email", o |-> o]
  <2>1. n \in Message /\ n \notin Notice
    BY DEF Message, Email, Notice
  <2>2. row[n].status = "none" /\ row' = [row EXCEPT ![n] = NewRow]
    BY <1>8 DEF OrderReady
  <2>3. \A m \in Message : \/ row'[m] = row[m]
                           \/ row[m].status = "none" /\ ~Removed(m)
    BY <2>1, <2>2 DEF TypeOK, Removed
  <2> QED
    BY <1>8, <2>3, RowsAppear DEF OrderReady, data
<1>9. ASSUME NEW t \in Targets, NEW s \in {"active", "paused"}, SetTarget(t, s) PROVE ToldInv'
  <2>1. \A m \in Message : Removed(m)' <=> Removed(m)
    BY <1>9, Kinds DEF SetTarget, Removed, TypeOK
  <2> QED
    BY <1>9, <2>1, TargetChanges DEF SetTarget, ToldInv
<1>10. ASSUME NEW t \in Targets, DeleteTarget(t) PROVE ToldInv'
  <2>1. \A m \in Message : Removed(m)' <=> Removed(m) \/ (m \in Notice /\ m.t = t)
    BY <1>10, Kinds DEF DeleteTarget, Removed, TypeOK
  <2>2. \A m \in Message : row'[m] = IF m \in Notice /\ m.t = t THEN NoRow ELSE row[m]
    BY <1>10 DEF DeleteTarget
  <2>3. \A m \in Message : IF Removed(m)' THEN row'[m].status = "none" ELSE row'[m] = row[m]
    BY <2>1, <2>2, NewRows DEF ToldInv
  <2> QED
    BY <1>10, <2>1, <2>3, TargetChanges DEF DeleteTarget
<1>11. ASSUME Select PROVE ToldInv'
  <2>1. /\ work.pc = "select" /\ work'.pc = "next" /\ row' = row /\ told' = told /\ target' = target
        /\ \A j \in work'.batch : j.m \in Message /\ Due(j.m)
    BY <1>11 DEF Select, data
  <2>2. Held' = work'.batch /\ ToSend' = work'.batch
    BY <2>1 DEF Held, ToSend
  <2>3. \A m \in Message : ~JustSent(m) /\ (Removed(m)' <=> Removed(m)) /\ (Due(m) => Waits(m)')
    BY <2>1 DEF JustSent, Removed, Due, Waits
  <2>4. \A m \in Message : Due(m) => told[m] = "no"
    BY <2>3 DEF ToldInv, Due
  <2> QED
    BY <2>1, <2>2, <2>3, <2>4 DEF ToldInv
<1>12. ASSUME NextJob PROVE ToldInv'
  <2>1. Held' \subseteq Held /\ ToSend' \subseteq ToSend /\ \A m \in Message : ~JustSent(m)
    BY <1>12 DEF NextJob, Held, ToSend, JustSent
  <2> QED
    BY <1>12, <2>1, WorkerMoves DEF NextJob, data
<1>13. ASSUME ReadCustomer \/ SendFails PROVE ToldInv'
  <2>1. /\ work.pc \in {"read", "send"} /\ work'.pc \in {"send", "settle"}
        /\ work'.batch = work.batch /\ work'.at = work.at
        /\ row' = row /\ told' = told /\ target' = target
    BY <1>13 DEF ReadCustomer, SendFails, data
  <2>2. Held' \subseteq Held /\ ToSend' \subseteq ToSend /\ \A m \in Message : ~JustSent(m)
    BY <2>1 DEF Held, ToSend, JustSent
  <2> QED
    BY <2>1, <2>2, WorkerMoves
<1>14. CASE UNCHANGED vars
  BY <1>14, ContactsMove DEF vars
<1> QED
  BY <1>2, <1>3, <1>4, <1>5, <1>6, <1>7, <1>8, <1>9, <1>10, <1>11, <1>12, <1>13, <1>14,
     SendTold, SettleTold, InterruptedTold DEF Next, Request, Worker

-----------------------------------------------------------------------------
(* Every edit is answered.                                                 *)

\* What the worker pushes for a customer, or has just pushed, is the last edit,
\* or the edit after it is one that may go missing.
PushInv ==
    \A c \in Customers :
       InFlight(c) =>
          \/ c \in editing \union missed
          \/ work.pc = "send" /\ work.seen = version[c]
          \/ work.pc = "settle" /\ (work.answer = "ok" => contact[c] = version[c])

EditInv == EditsAreAnswered /\ PushInv

\* Requests and the clock when they are not about the edits of customers.
LEMMA EditsKept ==
    ASSUME TypeOK, EditInv, work' = work, version' = version, contact' = contact,
           editing' = editing, missed' = missed, dead' = dead,
           \A m \in Contact : row'[m].status = row[m].status
    PROVE  EditInv'
<1>1. \A c \in Customers : (InFlight(c)' <=> InFlight(c)) /\ (Waits(ContactOf(c))' <=> Waits(ContactOf(c)))
  BY Kinds DEF InFlight, Waits
<1> QED
  BY <1>1 DEF EditInv, EditsAreAnswered, PushInv

\* One customer is edited or enqueued.
LEMMA EditOne ==
    ASSUME TypeOK, EditInv, NEW c \in Customers, work' = work, contact' = contact, dead' = dead,
           \A d \in Customers : d # c =>
              /\ version'[d] = version[d]
              /\ row'[ContactOf(d)] = row[ContactOf(d)]
              /\ d \in editing <=> d \in editing'
              /\ d \in missed => d \in missed',
           c \in missed \/ InFlight(c) => c \in missed' \/ c \in editing',
           Waits(ContactOf(c))' \/ c \in editing' \/ c \in missed'
    PROVE  EditInv'
<1>1. \A d \in Customers : InFlight(d)' <=> InFlight(d)
  BY DEF InFlight
<1>2. \A d \in Customers : d # c => (Waits(ContactOf(d))' <=> Waits(ContactOf(d)))
  BY DEF Waits
<1> QED
  BY <1>1, <1>2 DEF EditInv, EditsAreAnswered, PushInv

LEMMA RequestEdits ==
    ASSUME TypeOK, EditInv, Request
    PROVE  EditInv'
<1>1. ASSUME NEW c \in Customers, Enqueue(c)
      PROVE  /\ Waits(ContactOf(c))'
             /\ \A d \in Customers : d # c => row'[ContactOf(d)] = row[ContactOf(d)]
             /\ missed \subseteq missed' /\ (InFlight(c) => c \in missed')
  <2>1. PICK r \in Row : row' = [row EXCEPT ![ContactOf(c)] = r] /\ r.status = "pending"
    BY <1>1, EnqueueRow
  <2>2. \A d \in Customers : d # c => ContactOf(d) # ContactOf(c)
    BY Kinds
  <2> QED
    BY <1>1, <2>1, <2>2, Kinds DEF Enqueue, TypeOK, Waits
<1>2. ASSUME NEW c \in Customers, Intake(c) PROVE EditInv'
  BY <1>1, <1>2, EditOne DEF Intake, Edit, TypeOK
<1>3. ASSUME NEW c \in Customers, UpdateCustomer(c) PROVE EditInv'
  BY <1>3, EditOne DEF UpdateCustomer, Edit, TypeOK
<1>4. ASSUME NEW c \in Customers, EnqueueUpdate(c) PROVE EditInv'
  BY <1>1, <1>4, EditOne DEF EnqueueUpdate
<1>5. ASSUME NEW c \in Customers, DropUpdate(c) PROVE EditInv'
  BY <1>5, EditOne DEF DropUpdate
<1>6. ASSUME NEW s \in Sales, Announce(s) PROVE EditInv'
  BY <1>6, EditsKept, Kinds DEF Announce, Announced, data
<1>7. ASSUME NEW o \in Orders, OrderReady(o) PROVE EditInv'
  <2>1. [q |-> "email", o |-> o] \notin Contact
    BY DEF Contact
  <2>2. \A m \in Contact : row'[m] = row[m]
    BY <1>7, <2>1, Kinds DEF OrderReady, TypeOK
  <2> QED
    BY <1>7, <2>2, EditsKept DEF OrderReady, data
<1>8. ASSUME NEW t \in Targets, NEW s \in {"active", "paused"}, SetTarget(t, s) PROVE EditInv'
  BY <1>8, EditsKept DEF SetTarget
<1>9. ASSUME NEW t \in Targets, DeleteTarget(t) PROVE EditInv'
  BY <1>9, EditsKept, Kinds DEF DeleteTarget
<1>10. ASSUME NEW b \in BOOLEAN, SetConnected(b) PROVE EditInv'
  BY <1>10, EditsKept DEF SetConnected
<1>11. ASSUME Retry PROVE EditInv'
  <2>1. \A c \in Customers : /\ dead[c] \in 0..1
                             /\ row'[ContactOf(c)] = IF dead[c] = 1 THEN NewRow ELSE row[ContactOf(c)]
    BY <1>11, Kinds DEF Retry, Conflict, TypeOK
  <2>2. \A c \in Customers : Waits(ContactOf(c)) \/ dead[c] > 0 => Waits(ContactOf(c))'
    BY <2>1, NewRows DEF Waits
  <2>3. \A c \in Customers : InFlight(c)' <=> InFlight(c)
    BY <1>11 DEF Retry, InFlight
  <2> QED
    BY <1>11, <2>2, <2>3 DEF Retry, data, EditInv, EditsAreAnswered, PushInv
<1> QED
  BY <1>2, <1>3, <1>4, <1>5, <1>6, <1>7, <1>8, <1>9, <1>10, <1>11 DEF Request

\* A delivery leaves Square with what the worker read, which is the last edit
\* or one after which an edit may go missing.
LEMMA DeliverEdits ==
    ASSUME TypeOK, EditInv, work.pc = "send", Deliver(work.at.m),
           version' = version, editing' = editing, row' = row, dead' = dead,
           work'.pc = "settle", work'.at = work.at
    PROVE  EditInv'
<1>1. \A c \in Customers : ContactOf(c) = work.at.m => work.at.m \in Contact /\ work.at.m.c = c
  BY Kinds
<1>2. \A c \in Customers : ContactOf(c) # work.at.m =>
         contact'[c] = contact[c] /\ (c \in missed => c \in missed')
  <2>1. CASE work.at.m \in Contact
    <3>1. \A c \in Customers : ContactOf(c) # work.at.m => c # work.at.m.c
      BY <2>1, Kinds
    <3> QED
      BY <2>1, <3>1 DEF Deliver, TypeOK
  <2>2. CASE work.at.m \notin Contact
    BY <2>2 DEF Deliver
  <2> QED
    BY <2>1, <2>2
<1>3. \A c \in Customers : ContactOf(c) = work.at.m =>
         /\ contact'[c] = work.seen
         /\ work.seen = version[c] \/ (c \in missed => c \in missed')
  BY <1>1 DEF Deliver, TypeOK
<1>4. \A c \in Customers : InFlight(c) <=> ContactOf(c) = work.at.m
  BY DEF InFlight
<1>5. \A c \in Customers : InFlight(c)' <=> ContactOf(c) = work.at.m
  BY DEF InFlight
<1>6. \A c \in Customers : Waits(ContactOf(c))' <=> Waits(ContactOf(c))
  BY DEF Waits
<1>7. \A c \in Customers : ContactOf(c) = work.at.m =>
         contact'[c] = version[c] \/ c \in editing \union missed'
  BY <1>3, <1>4 DEF EditInv, PushInv
<1>8. EditsAreAnswered'
  BY <1>2, <1>6, <1>7 DEF EditInv, EditsAreAnswered
<1>9. PushInv'
  BY <1>5, <1>7 DEF PushInv
<1> QED
  BY <1>8, <1>9 DEF EditInv

LEMMA WorkerEdits ==
    ASSUME TypeOK, InQueue, EditInv, Worker
    PROVE  EditInv'
<1>1. ASSUME Select PROVE EditInv'
  BY <1>1 DEF Select, data, EditInv, EditsAreAnswered, PushInv, InFlight, Waits
<1>2. ASSUME NextJob PROVE EditInv'
  <2>1. \A c \in Customers : ~InFlight(c)'
    <3>1. \A j \in work.batch : j.m.q = work.q
      BY <1>2 DEF NextJob, InQueue, Held
    <3>2. work'.pc \in {"send", "settle"} => work'.at.m.q # "sync"
      BY <1>2, <3>1 DEF NextJob
    <3> QED
      BY <3>2, Kinds DEF InFlight
  <2> QED
    BY <1>2, <2>1 DEF NextJob, data, EditInv, EditsAreAnswered, PushInv, Waits
<1>3. ASSUME ReadCustomer PROVE EditInv'
  <2>1. work'.pc = "send" /\ work'.at = work.at /\ work'.seen = version[work.at.m.c]
    BY <1>3 DEF ReadCustomer
  <2>2. \A c \in Customers : InFlight(c)' => work.at.m.c = c
    BY <2>1, Kinds DEF InFlight
  <2> QED
    BY <1>3, <2>1, <2>2 DEF ReadCustomer, data, EditInv, EditsAreAnswered, PushInv, Waits
<1>4. ASSUME Send PROVE EditInv'
  BY <1>4, DeliverEdits DEF Send
<1>5. ASSUME SendFails PROVE EditInv'
  <2>1. CASE Deliver(work.at.m)
    BY <1>5, <2>1, DeliverEdits DEF SendFails
  <2>2. CASE UNCHANGED <<contact, missed>>
    BY <1>5, <2>2 DEF SendFails, EditInv, EditsAreAnswered, PushInv, InFlight, Waits
  <2> QED
    BY <1>5, <2>1, <2>2 DEF SendFails
<1>6. ASSUME Settle PROVE EditInv'
  <2> DEFINE n == work.at.m
  <2>1. /\ work.pc = "settle" /\ work'.pc = "next"
        /\ version' = version /\ contact' = contact /\ editing' = editing /\ missed' = missed
    BY <1>6 DEF Settle, data
  <2>2. PushInv'
    BY <2>1 DEF PushInv, InFlight
  <2>3. ASSUME NEW c \in Customers, n = ContactOf(c)
        PROVE  contact[c] = version[c] \/ Waits(ContactOf(c))' \/ dead'[c] > 0 \/ c \in editing \union missed
    <3>1. n \in Contact /\ n.c = c /\ n \in Message
      BY <2>3, Kinds
    <3>2. InFlight(c)
      BY <2>1, <2>3 DEF InFlight
    <3>3. CASE work.answer = "ok"
      BY <2>1, <3>2, <3>3 DEF EditInv, PushInv
    <3>4. CASE GivesUp(n, work.at.tries, work.answer)
      BY <1>6, <3>1, <3>4 DEF Settle, TypeOK
    <3>5. CASE work.answer # "ok" /\ ~GivesUp(n, work.at.tries, work.answer)
      <4>1. dead' = dead
        BY <1>6, <3>5 DEF Settle
      <4>2. row'[n].status = row[n].status
        <5>1. CASE UNCHANGED row
          BY <5>1
        <5>2. CASE SettleRow(n, work.at.tries, work.answer)
          <6>1. PICK r \in Row : row' = [row EXCEPT ![n] = r] /\ r.status = row[n].status
            BY <2>1, <3>5, <5>2, SettledRow
          <6> QED
            BY <3>1, <6>1 DEF TypeOK
        <5> QED
          BY <1>6, <5>1, <5>2 DEF Settle
      <4> QED
        BY <2>3, <4>1, <4>2 DEF EditInv, EditsAreAnswered, Waits
    <3> QED
      BY <3>3, <3>4, <3>5
  <2>4. ASSUME NEW c \in Customers, n # ContactOf(c)
        PROVE  (Waits(ContactOf(c))' <=> Waits(ContactOf(c))) /\ dead'[c] = dead[c]
    <3>1. row'[ContactOf(c)] = row[ContactOf(c)]
      BY <1>6, <2>4, Kinds DEF Settle, SettleRow, TypeOK
    <3>2. dead'[c] = dead[c]
      <4>1. n \in Contact => n.c # c
        BY <2>4, Kinds
      <4> QED
        BY <1>6, <4>1 DEF Settle, TypeOK
    <3> QED
      BY <3>1, <3>2 DEF Waits
  <2>5. EditsAreAnswered'
    BY <2>1, <2>3, <2>4 DEF EditInv, EditsAreAnswered
  <2> QED
    BY <2>2, <2>5 DEF EditInv
<1> QED
  BY <1>1, <1>2, <1>3, <1>4, <1>5, <1>6 DEF Worker

LEMMA NextEdits ==
    ASSUME TypeOK, InQueue, EditInv, [Next]_vars
    PROVE  EditInv'
<1>1. ASSUME NEW m \in Message, ComesDue(m) PROVE EditInv'
  <2>1. row[m] \in Row /\ row' = [row EXCEPT ![m] = DueNow(row[m])]
    BY <1>1 DEF ComesDue, TypeOK
  <2>2. \A n \in Message : row'[n].status = row[n].status
    BY <2>1, RowUpdates DEF TypeOK
  <2> QED
    BY <1>1, <2>2, EditsKept, Kinds DEF ComesDue, data
<1>2. ASSUME Interrupted PROVE EditInv'
  BY <1>2 DEF Interrupted, data, EditInv, EditsAreAnswered, PushInv, InFlight, Waits
<1>3. CASE UNCHANGED vars
  BY <1>3, EditsKept DEF vars
<1> QED
  BY <1>1, <1>2, <1>3, RequestEdits, WorkerEdits DEF Next

-----------------------------------------------------------------------------
QueueInv == TypeOK /\ InQueue /\ Single /\ ToldInv /\ EditInv

LEMMA InitQueues == Init => QueueInv
<1> SUFFICES ASSUME Init PROVE QueueInv
  OBVIOUS
<1>1. Held = {} /\ ToSend = {} /\ work.pc = "select"
  BY DEF Init, Held, ToSend
<1>2. \A m \in Message : row[m].status = "none" /\ told[m] = "no"
  BY NewRows DEF Init
<1>3. ToldInv
  BY <1>1, <1>2 DEF ToldInv
<1>4. EditInv
  BY <1>1 DEF Init, EditInv, EditsAreAnswered, PushInv, InFlight
<1> QED
  BY <1>1, <1>3, <1>4, InitTypes DEF QueueInv, InQueue, Single

LEMMA NextQueues == QueueInv /\ [Next]_vars => QueueInv'
BY NextTypes, NextHeld, NextTold, NextEdits DEF QueueInv

\* The reachable states satisfy the invariant that carries the proofs.
THEOREM QueueInvariant == Spec => []QueueInv
BY InitQueues, NextQueues, PTL DEF Spec

\* Types; and a row still waiting has tries left.
THEOREM QueueTypes == Spec => []TypeOK
BY QueueInvariant, PTL DEF QueueInv

\* Nobody is told the same thing twice, unless the answer to the first time was
\* lost (the unique indexes of the deliveries and the one worker of sync.rs).
THEOREM NobodyIsToldTwice == Spec => []ToldOnce
<1>1. QueueInv => ToldOnce
  <2> SUFFICES ASSUME QueueInv, NEW m \in Message, told[m] = "twice" PROVE FALSE
    BY DEF ToldOnce
  <2> QED
    BY DEF QueueInv, ToldInv
<1> QED
  BY <1>1, QueueInvariant, PTL

\* An edit Square does not hold has a row that waits or failed, unless it came
\* while a job was in flight or its request stopped half way (sync.rs enqueue).
THEOREM EveryEditIsAnswered == Spec => []EditsAreAnswered
BY QueueInvariant, PTL DEF QueueInv, EditInv
=============================================================================
