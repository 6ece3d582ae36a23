------------------------------ MODULE AuditLog ------------------------------
(***************************************************************************)
(* The staff audit log: the hash chain the database computes on insert,    *)
(* the archiver that delivers old entries off the machine and prunes them, *)
(* the import of an archived file, and the verifier.                       *)
(*                                                                         *)
(* migrations/0019_admin_audit_log.sql and 0020_audit_retention.sql, and   *)
(* src/api/src/audit/archive.rs.                                           *)
(*                                                                         *)
(* A hash covers the hash before it and the entry's contents, so hashes    *)
(* are as distinct as entries: the id of an entry stands for its           *)
(* entry_hash, and Genesis for the sixty-four zeros.                       *)
(***************************************************************************)
EXTENDS Naturals, FiniteSets

CONSTANTS
    MaxId,      \* bound: entries ever begun
    Recorders,  \* staff requests in flight, each recorded when it ends
    Archivers   \* the worker's tick, and Archive now

ASSUME MaxIdAssumption == MaxId \in Nat
ASSUME ProcessAssumption == Recorders \intersect Archivers = {}

VARIABLES
    nextId,     \* the bigserial sequence
    table,      \* ids of the rows in admin_audit_log
    prev,       \* prev[i]: prev_hash of entry i as it was first written
    segments,   \* rows of audit_archive_segments
    files,      \* archive files some destination accepted
    job         \* job[h]: what process h does next

vars == <<nextId, table, prev, segments, files, job>>

Id == 1..MaxId
Genesis == 0
Unwritten == MaxId + 1
Hash == Id \union {Genesis}
Process == Recorders \union Archivers

\* from_id and to_id are the ends of ids; anchor and last are anchor_prev_hash
\* and last_entry_hash.
Segment == [ids : SUBSET Id, from : Id, last : Id, anchor : Hash]

Idle == [pc |-> "idle"]
Job == {Idle}
       \union [pc : {"insert"}, id : Id]
       \union [pc : {"anchor", "deliver", "prune"}, ids : SUBSET Id]

\* Types; and no entry is written whose id the sequence has not handed out, nor
\* does a row come into the table that was never written.
TypeOK ==
    /\ nextId \in 1..(MaxId + 1)
    /\ table \in SUBSET Id
    /\ prev \in [Id -> Hash \union {Unwritten}]
    /\ segments \in SUBSET Segment
    /\ files \in SUBSET (SUBSET Id)
    /\ job \in [Process -> Job]
    /\ \A i \in Id : prev[i] # Unwritten => i < nextId
    /\ \A i \in table : prev[i] # Unwritten

Init ==
    /\ nextId = 1
    /\ table = {}
    /\ prev = [i \in Id |-> Unwritten]
    /\ segments = {}
    /\ files = {}
    /\ job = [h \in Process |-> Idle]

At(h, pc) == job[h].pc = pc
Goto(h, j) == job' = [job EXCEPT ![h] = j]
Finish(h) == Goto(h, Idle)

Committed == {i \in Id : prev[i] # Unwritten}

\* The ends of a set of entries in id order.
IsFirst(i, ids) == i \in ids /\ \A j \in ids : i <= j
IsLast(i, ids) == i \in ids /\ \A j \in ids : j <= i

-----------------------------------------------------------------------------
(* Appending.                                                              *)

\* Mutant of TakeId: the id is one more than the largest row's.
TakeIdOfTable(h) ==
    /\ h \in Recorders
    /\ At(h, "idle")
    /\ \E i \in Id : /\ IF table = {} THEN i = 1 ELSE IsLast(i - 1, table)
                     /\ Goto(h, [pc |-> "insert", id |-> i])
    /\ UNCHANGED <<nextId, table, prev, segments, files>>

\* The insert of a request that has been answered: the default nextval is
\* evaluated before the trigger runs ...
TakeId(h) ==
    /\ h \in Recorders
    /\ At(h, "idle")
    /\ nextId \in Id
    /\ nextId' = nextId + 1
    /\ Goto(h, [pc |-> "insert", id |-> nextId])
    /\ UNCHANGED <<table, prev, segments, files>>

\* ... and the trigger takes the lock, links to the row with the largest id
\* and commits.
PrevHash(p) ==
    \/ table = {} /\ p = Genesis
    \/ IsLast(p, table)

Insert(h) ==
    /\ At(h, "insert")
    /\ \E p \in Hash : PrevHash(p) /\ prev' = [prev EXCEPT ![job[h].id] = p]
    /\ table' = table \union {job[h].id}
    /\ Finish(h)
    /\ UNCHANGED <<nextId, segments, files>>

-----------------------------------------------------------------------------
(* Archiving: select, check the anchor, deliver, prune.                    *)

\* The entries before the first one too new to go.  Retention is at least
\* thirty days and an insert takes one statement, so none of those before it
\* is still being written.
Select(h, cut) ==
    /\ h \in Archivers
    /\ At(h, "idle")
    /\ \A r \in Recorders : At(r, "insert") => cut <= job[r].id
    /\ {i \in table : i < cut} # {}
    /\ Goto(h, [pc |-> "anchor", ids |-> {i \in table : i < cut}])
    /\ UNCHANGED <<nextId, table, prev, segments, files>>

\* last_entry_hash of the segment with the largest from_id.
IsAnchor(a) ==
    \/ segments = {} /\ a = Genesis
    \/ \E s \in segments : s.last = a /\ \A t \in segments : t.from <= s.from

\* Mutant of Continues: any span is archived.
ContinuesAlways(ids) == ids # {}

Continues(ids) == \E i \in ids : IsFirst(i, ids) /\ IsAnchor(prev[i])

\* A span that does not continue the last archive is refused.
CheckAnchor(h) ==
    /\ At(h, "anchor")
    /\ Continues(job[h].ids)
    /\ Goto(h, [pc |-> "deliver", ids |-> job[h].ids])
    /\ UNCHANGED <<nextId, table, prev, segments, files>>

\* Mutant of Delivered: pruning goes ahead when every upload failed.
DeliveredOrNot(ids) == files' \in {files, files \union {ids}}

Delivered(ids) == files' = files \union {ids}

\* At least one enabled destination accepted the encrypted file.
Deliver(h) ==
    /\ At(h, "deliver")
    /\ Delivered(job[h].ids)
    /\ Goto(h, [pc |-> "prune", ids |-> job[h].ids])
    /\ UNCHANGED <<nextId, table, prev, segments>>

\* Rows the delete matches: where id <= last_id
Pruned(ids) == {i \in table : \E j \in ids : IsLast(j, ids) /\ i <= j}

\* Mutant of CanPrune: the number of deleted rows is not compared.
CanPruneAny(s) == \A t \in segments : t.last # s.last

\* The unique index on last_entry_hash, and the count of deleted rows.
CanPrune(s) ==
    /\ \A t \in segments : t.last # s.last
    /\ Cardinality(Pruned(s.ids)) = Cardinality(s.ids)

SegmentOf(ids, s) ==
    /\ s.ids = ids
    /\ IsFirst(s.from, ids)
    /\ IsLast(s.last, ids)
    /\ s.anchor = prev[s.from]

\* The transaction that records the segment and deletes.
Prune(h) ==
    /\ At(h, "prune")
    /\ \E s \in Segment :
          /\ SegmentOf(job[h].ids, s)
          /\ CanPrune(s)
          /\ segments' = segments \union {s}
    /\ table' = table \ Pruned(job[h].ids)
    /\ Finish(h)
    /\ UNCHANGED <<nextId, prev, files>>

-----------------------------------------------------------------------------
\* An insert fails, a span is refused, no upload succeeds, the transaction
\* rolls back, or the server stops.
Abandon(h) ==
    /\ ~At(h, "idle")
    /\ Finish(h)
    /\ UNCHANGED <<nextId, table, prev, segments, files>>

\* import: the entries of a decrypted file go back with their ids and hashes,
\* unless an id of the range is present.  An operator fetches, decrypts and
\* imports a file by hand; assumed (nothing in the code ensures it) to be done
\* while no archive run is going.
Import(f) ==
    /\ \A i \in table : ~\E a, b \in f : a <= i /\ i <= b
    /\ \A h \in Archivers : At(h, "idle")
    /\ table' = table \union f
    /\ UNCHANGED <<nextId, prev, segments, files, job>>

Archive(h) ==
    \/ \E cut \in 1..(MaxId + 1) : cut <= nextId /\ Select(h, cut)
    \/ CheckAnchor(h) \/ Deliver(h) \/ Prune(h)

Next ==
    \/ \E h \in Process : TakeId(h) \/ Insert(h) \/ Archive(h) \/ Abandon(h)
    \/ \E f \in files : Import(f)

Spec == Init /\ [][Next]_vars

-----------------------------------------------------------------------------
\* Archive, deliver, then prune: an entry that was ever written is in the table
\* or in a file that was delivered and whose segment is recorded; whatever
\* overlaps, fails or is imported (archive.rs on the order of the steps).
NothingLost ==
    \A i \in Committed :
       \/ i \in table
       \/ \E s \in segments : i \in s.ids /\ s.ids \in files

\* Two runs that archive at once never record one entry in two segments.
ArchivedOnce ==
    \A s, t \in segments : s # t => s.last < t.from \/ t.last < s.from

\* Segment records chain to each other: each starts from the hash the one
\* before it ended with, so a break is never archived between two of them.
SegmentsChain ==
    \A s \in segments :
       \/ s.anchor = Genesis /\ \A t \in segments : s.from <= t.from
       \/ \E t \in segments :
             /\ s.anchor = t.last
             /\ t.from < s.from
             /\ ~\E u \in segments : t.from < u.from /\ u.from < s.from

\* 0020: appends are serialised "so two concurrent inserts cannot read the same
\* predecessor and fork the chain".
NoFork ==
    \A i, j \in Committed : i # j => prev[i] # prev[j]
=============================================================================
