--------------------------- MODULE AuditLogProofs ---------------------------
(***************************************************************************)
(* No entry of the audit log is lost, for any number of entries, requests  *)
(* and archive runs.                                                       *)
(***************************************************************************)
EXTENDS AuditLog, FiniteSetTheorems, TLAPS

Busy(h) == ~At(h, "idle") /\ ~At(h, "insert")

Archived(i) == \E s \in segments : i \in s.ids /\ s.ids \in files

\* What an archive run has selected stays the whole of the table up to its last
\* entry, but for entries archived before: an id begun earlier is either already
\* written or beyond the selection.
Selected ==
    \A h \in Process : Busy(h) =>
       /\ h \in Archivers
       /\ \A j \in job[h].ids :
             /\ j < nextId
             /\ \A r \in Process : At(r, "insert") => j < job[r].id
             /\ \A i \in table : i <= j => i \in job[h].ids \/ Archived(i)

Pending ==
    \A r \in Process : At(r, "insert") => r \in Recorders /\ job[r].id < nextId

DeliveredFirst ==
    \A h \in Process : At(h, "prune") => job[h].ids \in files

Written ==
    /\ \A f \in files : f \subseteq Committed
    /\ \A h \in Process : Busy(h) => job[h].ids \subseteq Committed

AuditInv == Written /\ TypeOK /\ Pending /\ Selected /\ DeliveredFirst /\ NothingLost

-----------------------------------------------------------------------------
\* A process is at one of five places, and there carries the fields of it.
LEMMA JobFields ==
    ASSUME TypeOK, NEW h \in Process
    PROVE  /\ At(h, "insert") => job[h].id \in Id
           /\ Busy(h) => /\ job[h] = [pc |-> job[h].pc, ids |-> job[h].ids]
                         /\ job[h].ids \in SUBSET Id
                         /\ job[h].pc \in {"anchor", "deliver", "prune"}
<1>1. job[h] \in Job
  BY DEF TypeOK
<1>2. CASE job[h] = Idle
  BY <1>2 DEF At, Busy, Idle
<1>3. CASE job[h] \in [pc : {"insert"}, id : Id]
  BY <1>3 DEF At, Busy
<1>4. CASE job[h] \in [pc : {"anchor", "deliver", "prune"}, ids : SUBSET Id]
  BY <1>4 DEF At, Busy
<1> QED
  BY <1>1, <1>2, <1>3, <1>4 DEF Job

LEMMA Ids == Id \subseteq Nat
BY MaxIdAssumption DEF Id

LEMMA InitAudit == Init => AuditInv
<1> SUFFICES ASSUME Init PROVE AuditInv
  OBVIOUS
<1>1. \A h \in Process : job[h].pc = "idle"
  BY DEF Init, Idle
<1>2. TypeOK
  BY MaxIdAssumption DEF Init, TypeOK, Id, Hash, Unwritten, Job
<1>3. Committed = {}
  BY DEF Init, Committed
<1> QED
  BY <1>1, <1>2, <1>3 DEF AuditInv, Init, Written, Pending, Selected, DeliveredFirst, NothingLost, At, Busy

\* What every step does to the jobs: one changes, the others stay.
LEMMA OneJob ==
    ASSUME TypeOK, NEW h \in Process, NEW j, Goto(h, j)
    PROVE  /\ job'[h] = j
           /\ \A g \in Process \ {h} : job'[g] = job[g]
           /\ j \in Job => job' \in [Process -> Job]
BY DEF TypeOK, Goto

\* A step that leaves the log alone and ends or advances one run.
LEMMA JobStep ==
    ASSUME AuditInv, NEW h \in Process, NEW j \in Job, Goto(h, j),
           UNCHANGED <<nextId, table, prev, segments>>, files \subseteq files',
           files' \in SUBSET (SUBSET Id), \A f \in files' : f \subseteq Committed,
           \/ j = Idle
           \/ /\ Busy(h) /\ j.ids = job[h].ids
              /\ j.pc \in {"deliver", "prune"}
              /\ j.pc = "prune" => j.ids \in files'
    PROVE  AuditInv'
<1> USE DEF AuditInv
<1>1. /\ job'[h] = j
      /\ \A g \in Process \ {h} : job'[g] = job[g]
      /\ job' \in [Process -> Job]
  BY OneJob
<1>2. j = Idle => j.pc = "idle"
  BY DEF Idle
<1>3. TypeOK'
  BY <1>1 DEF TypeOK
<1>4. Pending'
  BY <1>1, <1>2 DEF Pending, At
<1>5. \A i : Archived(i) => Archived(i)'
  BY DEF Archived
<1>6. Selected'
  BY <1>1, <1>2, <1>5 DEF Selected, At, Busy
<1>7. DeliveredFirst'
  BY <1>1, <1>2 DEF DeliveredFirst, At
<1>8. NothingLost'
  BY DEF NothingLost, Committed
<1>9. Written'
  BY <1>1, <1>2 DEF Written, Committed, Busy, At
<1> QED
  BY <1>9, <1>3, <1>4, <1>6, <1>7, <1>8

LEMMA TakeIdAudit ==
    ASSUME AuditInv, NEW h \in Process, TakeId(h)
    PROVE  AuditInv'
<1> USE DEF AuditInv
<1> DEFINE j == [pc |-> "insert", id |-> nextId]
<1>0. j \in Job
  BY DEF TakeId, Job
<1>1. /\ job'[h] = j
      /\ \A g \in Process \ {h} : job'[g] = job[g]
      /\ job' \in [Process -> Job]
  BY <1>0, OneJob DEF TakeId
<1>2. TypeOK'
  BY <1>1, MaxIdAssumption DEF TypeOK, TakeId, Id
<1>3. Pending'
  <2>1. \A r \in Process : At(r, "insert") => job[r].id \in Nat
    BY JobFields, Ids
  <2>2. nextId' = nextId + 1 /\ nextId \in Nat
    BY Ids DEF TakeId
  <2> QED
    BY <1>1, <2>1, <2>2 DEF Pending, At, TakeId
<1>4. \A i : Archived(i) = Archived(i)'
  BY DEF Archived, TakeId
<1>5. Selected'
  <2> SUFFICES ASSUME NEW g \in Process, Busy(g)'
               PROVE  /\ g \in Archivers
                      /\ \A k \in job'[g].ids :
                            /\ k < nextId'
                            /\ \A r \in Process : At(r, "insert")' => k < job'[r].id
                            /\ \A i \in table : i <= k => i \in job'[g].ids \/ Archived(i)
    BY <1>4 DEF Selected, TakeId
  <2>1. g # h /\ job'[g] = job[g] /\ Busy(g)
    BY <1>1 DEF Busy, At
  <2>2. \A k \in job[g].ids : k \in Nat /\ k < nextId
    <3>1. job[g].ids \subseteq Id
      BY <2>1, JobFields
    <3> QED
      BY <2>1, <3>1, Ids DEF Selected
  <2>3. nextId' = nextId + 1 /\ nextId \in Nat
    BY DEF TakeId, Id
  <2> QED
    BY <1>1, <2>1, <2>2, <2>3 DEF Selected, At
<1>6. DeliveredFirst'
  BY <1>1 DEF DeliveredFirst, At, TakeId
<1>7. NothingLost'
  BY DEF NothingLost, Committed, TakeId
<1>8. Written'
  BY <1>1 DEF Written, Committed, Busy, At, TakeId
<1> QED
  BY <1>8, <1>2, <1>3, <1>5, <1>6, <1>7

\* The id was begun before any run selected beyond it.
LEMMA InsertAudit ==
    ASSUME AuditInv, NEW h \in Process, Insert(h)
    PROVE  AuditInv'
<1> USE DEF AuditInv
<1> DEFINE e == job[h].id
<1>0. e \in Id /\ Idle \in Job
  BY JobFields DEF Insert, Job
<1>1. /\ job'[h].pc = "idle"
      /\ \A g \in Process \ {h} : job'[g] = job[g]
      /\ job' \in [Process -> Job]
  BY <1>0, OneJob DEF Insert, Finish, Idle
<1>2. PICK p \in Hash : prev' = [prev EXCEPT ![e] = p]
  BY DEF Insert
<1>3. p # Unwritten
  BY MaxIdAssumption DEF Hash, Id, Genesis, Unwritten
<1>4. TypeOK'
  BY <1>0, <1>1, <1>2, <1>3 DEF TypeOK, Insert, Pending
<1>5. Pending'
  BY <1>1 DEF Pending, At, Insert
<1>6. \A i : Archived(i) = Archived(i)'
  BY DEF Archived, Insert
<1>7. Selected'
  <2> SUFFICES ASSUME NEW g \in Process, Busy(g)'
               PROVE  /\ g \in Archivers
                      /\ \A k \in job'[g].ids :
                            /\ k < nextId
                            /\ \A r \in Process : At(r, "insert")' => k < job'[r].id
                            /\ \A i \in table' : i <= k => i \in job'[g].ids \/ Archived(i)
    BY <1>6 DEF Selected, Insert
  <2>1. g # h /\ job'[g] = job[g] /\ Busy(g)
    BY <1>1 DEF Busy, At
  <2>2. \A k \in job[g].ids : k \in Nat /\ k < e
    <3>1. job[g].ids \subseteq Id
      BY <2>1, JobFields
    <3> QED
      BY <2>1, <3>1, Ids DEF Selected, Insert
  <2>3. table' = table \union {e} /\ e \in Nat
    BY <1>0, MaxIdAssumption DEF Insert, Id
  <2> QED
    BY <1>1, <2>1, <2>2, <2>3 DEF Selected, At
<1>8. DeliveredFirst'
  BY <1>1 DEF DeliveredFirst, At, Insert
<1>9. NothingLost'
  BY <1>0, <1>2 DEF NothingLost, Committed, Insert, TypeOK
<1>10. Written'
  <2>1. Committed \subseteq Committed'
    BY <1>0, <1>2, <1>3 DEF Committed, TypeOK
  <2> QED
    BY <1>1, <2>1 DEF Written, Busy, At, Insert
<1> QED
  BY <1>10, <1>4, <1>5, <1>7, <1>8, <1>9

\* A run selects every row of the table up to a cut that no request is below.
LEMMA SelectAudit ==
    ASSUME AuditInv, NEW h \in Process, NEW cut \in 1..(MaxId + 1), cut <= nextId, Select(h, cut)
    PROVE  AuditInv'
<1> USE DEF AuditInv
<1> DEFINE j == [pc |-> "anchor", ids |-> {i \in table : i < cut}]
<1>0. j \in Job
  BY DEF TypeOK, Job
<1>1. /\ job'[h] = j
      /\ \A g \in Process \ {h} : job'[g] = job[g]
      /\ job' \in [Process -> Job]
  BY <1>0, OneJob DEF Select
<1>2. TypeOK'
  BY <1>1 DEF TypeOK, Select
<1>3. Pending'
  BY <1>1 DEF Pending, At, Select
<1>4. \A i : Archived(i) = Archived(i)'
  BY DEF Archived, Select
<1>5. Selected'
  <2> SUFFICES ASSUME NEW g \in Process, Busy(g)'
               PROVE  /\ g \in Archivers
                      /\ \A k \in job'[g].ids :
                            /\ k < nextId
                            /\ \A r \in Process : At(r, "insert")' => k < job'[r].id
                            /\ \A i \in table : i <= k => i \in job'[g].ids \/ Archived(i)
    BY <1>4 DEF Selected, Select
  <2>1. \A r \in Process : At(r, "insert")' => /\ At(r, "insert") /\ job'[r] = job[r]
                                              /\ r \in Recorders
    BY <1>1 DEF At, Pending
  <2>2. CASE g = h
    <3>1. \A r \in Process : At(r, "insert")' => job'[r].id \in Nat /\ cut <= job'[r].id
      <4> SUFFICES ASSUME NEW r \in Process, At(r, "insert")'
                   PROVE  job[r].id \in Nat /\ cut <= job[r].id
        BY <2>1
      <4>1. job[r].id \in Id
        BY <2>1, JobFields
      <4> QED
        BY <2>1, <4>1, Ids DEF Select
    <3>2. cut \in Nat /\ nextId \in Nat /\ table \subseteq Nat
      BY MaxIdAssumption DEF TypeOK, Id
    <3>3. \A k \in j.ids : k < nextId /\ \A r \in Process : At(r, "insert")' => k < job'[r].id
      BY <3>1, <3>2
    <3>4. \A k \in j.ids, i \in table : i <= k => i \in j.ids
      BY <3>2
    <3> QED
      BY <1>1, <2>2, <3>3, <3>4 DEF Select
  <2>3. CASE g # h
    BY <1>1, <2>1, <2>3 DEF Selected, Busy, At
  <2> QED
    BY <2>2, <2>3
<1>6. DeliveredFirst'
  BY <1>1 DEF DeliveredFirst, At, Select
<1>7. NothingLost'
  BY DEF NothingLost, Committed, Select
<1>8. Written'
  BY <1>1 DEF Written, Committed, Busy, At, Select, TypeOK
<1> QED
  BY <1>8, <1>2, <1>3, <1>5, <1>6, <1>7

\* The rows a run deletes are those it selected, or were archived before.
LEMMA PruneAudit ==
    ASSUME AuditInv, NEW h \in Process, Prune(h)
    PROVE  AuditInv'
<1> USE DEF AuditInv
<1>1. /\ job'[h].pc = "idle"
      /\ \A g \in Process \ {h} : job'[g] = job[g]
      /\ job' \in [Process -> Job]
  BY OneJob DEF Prune, Finish, Idle, Job
<1>2. PICK s \in Segment : SegmentOf(job[h].ids, s) /\ segments' = segments \union {s}
  BY DEF Prune
<1>3. \A i \in job[h].ids : Archived(i)'
  BY <1>2 DEF Archived, SegmentOf, DeliveredFirst, Prune
<1>4. \A i : Archived(i) => Archived(i)'
  BY <1>2 DEF Archived, Prune
<1>5. \A i \in table : i \notin table' => Archived(i)'
  <2>1. Busy(h)
    BY DEF Prune, Busy, At
  <2> QED
    BY <1>3, <1>4, <2>1 DEF Prune, Pruned, IsLast, Selected
<1>6. TypeOK'
  BY <1>1, <1>2 DEF TypeOK, Prune, Pruned
<1>7. Pending'
  BY <1>1 DEF Pending, At, Prune
<1>8. Selected'
  BY <1>1, <1>4 DEF Selected, At, Busy, Prune, Pruned
<1>9. DeliveredFirst'
  BY <1>1 DEF DeliveredFirst, At, Prune
<1>10. NothingLost'
  BY <1>4, <1>5 DEF NothingLost, Archived, Committed, Prune
<1>11. Written'
  BY <1>1 DEF Written, Committed, Busy, At, Prune
<1> QED
  BY <1>11, <1>6, <1>7, <1>8, <1>9, <1>10

\* A file comes back while no run is going, so nothing is selected.
LEMMA ImportAudit ==
    ASSUME AuditInv, NEW f \in files, Import(f)
    PROVE  AuditInv'
<1> USE DEF AuditInv
<1>1. TypeOK'
  BY DEF TypeOK, Import, Committed, Written
<1>2. Pending'
  BY DEF Pending, At, Import
<1>3. \A g \in Process : ~Busy(g)
  BY DEF Selected, Import, Busy
<1>4. Selected'
  BY <1>3 DEF Selected, Busy, At, Import
<1>5. DeliveredFirst'
  BY DEF DeliveredFirst, At, Import
<1>6. NothingLost'
  BY DEF NothingLost, Committed, Import
<1>7. Written'
  BY DEF Written, Committed, Busy, At, Import
<1> QED
  BY <1>7, <1>1, <1>2, <1>4, <1>5, <1>6

-----------------------------------------------------------------------------
LEMMA NextAudit ==
    ASSUME AuditInv, [Next]_vars
    PROVE  AuditInv'
<1> USE DEF AuditInv
<1>0. Idle \in Job
  BY DEF Job
<1>1. ASSUME NEW h \in Process, TakeId(h) PROVE AuditInv'
  BY <1>1, TakeIdAudit
<1>2. ASSUME NEW h \in Process, Insert(h) PROVE AuditInv'
  BY <1>2, InsertAudit
<1>3. ASSUME NEW h \in Process, NEW cut \in 1..(MaxId + 1), cut <= nextId, Select(h, cut)
      PROVE  AuditInv'
  BY <1>3, SelectAudit
<1>4. ASSUME NEW h \in Process, CheckAnchor(h) PROVE AuditInv'
  <2>1. [pc |-> "deliver", ids |-> job[h].ids] \in Job
    BY <1>4, JobFields DEF CheckAnchor, Busy, At, Job
  <2> QED
    BY <1>4, <2>1, JobStep DEF CheckAnchor, Busy, At, TypeOK, Written
<1>5. ASSUME NEW h \in Process, Deliver(h) PROVE AuditInv'
  <2>1. [pc |-> "prune", ids |-> job[h].ids] \in Job /\ job[h].ids \in SUBSET Id
    BY <1>5, JobFields DEF Deliver, Busy, At, Job
  <2> QED
    BY <1>5, <2>1, JobStep DEF Deliver, Delivered, Busy, At, TypeOK, Written
<1>6. ASSUME NEW h \in Process, Prune(h) PROVE AuditInv'
  BY <1>6, PruneAudit
<1>7. ASSUME NEW h \in Process, Abandon(h) PROVE AuditInv'
  BY <1>0, <1>7, JobStep DEF Abandon, Finish, TypeOK, Written
<1>8. ASSUME NEW f \in files, Import(f) PROVE AuditInv'
  BY <1>8, ImportAudit
<1>9. CASE UNCHANGED vars
  BY <1>9 DEF vars, Written, TypeOK, Pending, Selected, DeliveredFirst, NothingLost,
              Archived, Committed, Busy, At
<1> QED
  BY <1>1, <1>2, <1>3, <1>4, <1>5, <1>6, <1>7, <1>8, <1>9 DEF Next, Archive

\* The reachable states satisfy the invariant that carries the proof.
THEOREM AuditInvariant == Spec => []AuditInv
BY InitAudit, NextAudit, PTL DEF Spec

\* Type correctness of the audit log.
THEOREM AuditTypes == Spec => []TypeOK
BY AuditInvariant, PTL DEF AuditInv

\* Whatever overlaps, fails or is imported, an entry once written is in the
\* table or in a delivered and recorded archive (archive.rs: archive, deliver,
\* then prune).
THEOREM NoEntryIsLost == Spec => []NothingLost
BY AuditInvariant, PTL DEF AuditInv

-----------------------------------------------------------------------------
(* The archive records form a chain.                                        *)

\* What was or may be delivered: files, and what running archives selected.
Spans == files \union {job[h].ids : h \in {g \in Process : Busy(g)}}

\* While a run is going nothing comes back, so below the last entry it selected
\* the table holds entries it selected only.
Whole ==
    \A h \in Process : Busy(h) =>
       \A j \in job[h].ids, i \in table : i <= j => i \in job[h].ids

SegmentsTrue ==
    \A s \in segments : SegmentOf(s.ids, s) /\ s.ids \in files

\* A span is complete: nothing before its end is still to be written, and what
\* the table holds there is part of it or archived.  Once its first entry is
\* archived, a segment starts with it.
Complete(S) ==
    \A i \in S :
       /\ i < nextId
       /\ \A r \in Process : At(r, "insert") => i < job[r].id
       /\ \A j \in table : j <= i => j \in S \/ Archived(j)

StartsOne(S) ==
    \A i \in Id : IsFirst(i, S) /\ Archived(i) => \E s \in segments : s.from = i

\* A run whose span continued the last segment either still continues it, or
\* has lost its first entry to another run.
StillContinues ==
    \A h \in Process : At(h, "deliver") \/ At(h, "prune") =>
       \A i \in Id : IsFirst(i, job[h].ids) => IsAnchor(prev[i]) \/ i \notin table

\* Nothing written is left out below the end of a segment.
NothingSkipped ==
    \A s \in segments, j \in Committed : j <= s.last => Archived(j)

\* Archived entries are in the table only where a whole file was imported.
Imported ==
    \A j \in table : Archived(j) => \E f \in files : j \in f /\ f \subseteq table

ChainInv ==
    /\ Whole
    /\ SegmentsTrue
    /\ \A S \in Spans : Complete(S) /\ StartsOne(S)
    /\ StillContinues
    /\ NothingSkipped
    /\ Imported
    /\ ArchivedOnce
    /\ SegmentsChain


LEMMA SpanFacts ==
    ASSUME AuditInv, NEW S \in Spans
    PROVE  /\ S \subseteq Id
           /\ S \subseteq Committed
<1>1. CASE S \in files
  BY <1>1 DEF AuditInv, TypeOK, Written
<1>2. ASSUME NEW h \in Process, Busy(h), S = job[h].ids
      PROVE  S \subseteq Id /\ S \subseteq Committed
  BY <1>2, JobFields DEF AuditInv, Written
<1> QED
  BY <1>1, <1>2 DEF Spans

LEMMA SegmentFacts ==
    ASSUME AuditInv, ChainInv, NEW s \in segments
    PROVE  /\ s.ids \in files /\ s.ids \in Spans
           /\ s.from \in s.ids /\ s.last \in s.ids
           /\ s.from \in Nat /\ s.last \in Nat
           /\ s.from <= s.last
           /\ s.anchor = prev[s.from]
           /\ \A i \in s.ids : /\ i \in Id /\ i \in Nat /\ i \in Committed
                               /\ s.from <= i /\ i <= s.last
                               /\ Archived(i)
<1>1. s.ids \in files /\ SegmentOf(s.ids, s)
  BY DEF ChainInv, SegmentsTrue
<1>2. s.ids \in Spans
  BY <1>1 DEF Spans
<1>3. s.ids \subseteq Id /\ s.ids \subseteq Committed
  BY <1>2, SpanFacts
<1>4. \A i \in s.ids : Archived(i)
  BY <1>1 DEF Archived
<1> QED
  BY <1>1, <1>2, <1>3, <1>4, Ids DEF SegmentOf, IsFirst, IsLast

LEMMA InitChain == Init => ChainInv
<1> SUFFICES ASSUME Init PROVE ChainInv
  OBVIOUS
<1>1. \A h \in Process : ~Busy(h) /\ ~At(h, "deliver") /\ ~At(h, "prune")
  BY DEF Init, Idle, Busy, At
<1>2. Spans = {}
  BY <1>1 DEF Spans, Init
<1> QED
  BY <1>1, <1>2 DEF Init, ChainInv, Whole, SegmentsTrue, StillContinues, NothingSkipped,
                    Imported, ArchivedOnce, SegmentsChain

\* Steps that leave the log and the segments alone and select nothing.
LEMMA QuietChain ==
    ASSUME AuditInv, ChainInv, NEW h \in Process,
           UNCHANGED <<nextId, table, prev, segments>>, files \subseteq files',
           \A g \in Process \ {h} : job'[g] = job[g],
           ~At(h, "insert")', Spans' \subseteq Spans,
           Busy(h)' => Busy(h) /\ job'[h].ids = job[h].ids,
           (At(h, "deliver") \/ At(h, "prune"))' =>
              \A i \in Id : IsFirst(i, job'[h].ids) => IsAnchor(prev[i]) \/ i \notin table
    PROVE  ChainInv'
<1> USE DEF ChainInv
<1>1. \A i : Archived(i) = Archived(i)'
  BY DEF Archived, SegmentsTrue
<1>2. Whole'
  BY DEF Whole, Busy, At
<1>3. SegmentsTrue'
  BY DEF SegmentsTrue, SegmentOf
<1>4. \A S \in Spans' : Complete(S)' /\ StartsOne(S)'
  <2>1. \A r \in Process : At(r, "insert")' => At(r, "insert") /\ job'[r] = job[r]
    BY DEF At
  <2> QED
    BY <1>1, <2>1 DEF Complete, StartsOne
<1>5. StillContinues'
  BY DEF StillContinues, At, IsAnchor
<1>6. NothingSkipped'
  BY <1>1 DEF NothingSkipped, Committed
<1>7. Imported'
  BY <1>1 DEF Imported
<1>8. ArchivedOnce' /\ SegmentsChain'
  BY DEF ArchivedOnce, SegmentsChain
<1> QED
  BY <1>2, <1>3, <1>4, <1>5, <1>6, <1>7, <1>8

LEMMA TakeIdChain ==
    ASSUME AuditInv, ChainInv, NEW h \in Process, TakeId(h)
    PROVE  ChainInv'
<1> USE DEF ChainInv
<1> DEFINE j == [pc |-> "insert", id |-> nextId]
<1>1. /\ job'[h] = j
      /\ \A g \in Process \ {h} : job'[g] = job[g]
  BY OneJob DEF TakeId, AuditInv
<1>2. \A g \in Process : Busy(g)' => Busy(g) /\ job'[g] = job[g]
  BY <1>1 DEF Busy, At
<1>3. Spans' \subseteq Spans
  BY <1>2 DEF Spans, TakeId
<1>4. \A i : Archived(i) = Archived(i)'
  BY DEF Archived, TakeId
<1>5. Whole'
  BY <1>2 DEF Whole, TakeId
<1>6. SegmentsTrue'
  BY DEF SegmentsTrue, SegmentOf, TakeId
<1>7. \A S \in Spans' : Complete(S)' /\ StartsOne(S)'
  <2> SUFFICES ASSUME NEW S \in Spans PROVE Complete(S)' /\ StartsOne(S)'
    BY <1>3
  <2>1. Complete(S) /\ StartsOne(S) /\ S \subseteq Nat
    BY SpanFacts, Ids
  <2>2. nextId' = nextId + 1 /\ nextId \in Nat
    BY Ids DEF TakeId
  <2>3. Complete(S)'
    BY <1>1, <1>4, <2>1, <2>2 DEF Complete, At, TakeId
  <2> QED
    BY <1>4, <2>1, <2>3 DEF StartsOne, TakeId
<1>8. StillContinues'
  BY <1>1 DEF StillContinues, At, IsAnchor, TakeId
<1>9. NothingSkipped'
  BY <1>4 DEF NothingSkipped, Committed, TakeId
<1>10. Imported'
  BY <1>4 DEF Imported, TakeId
<1>11. ArchivedOnce' /\ SegmentsChain'
  BY DEF ArchivedOnce, SegmentsChain, TakeId
<1> QED
  BY <1>5, <1>6, <1>7, <1>8, <1>9, <1>10, <1>11

\* The entry comes after every span: its id was drawn before they were selected,
\* or after.
LEMMA InsertChain ==
    ASSUME AuditInv, ChainInv, NEW h \in Process, Insert(h)
    PROVE  ChainInv'
<1> USE DEF ChainInv
<1> DEFINE e == job[h].id
<1>0. e \in Id /\ e \in Nat
  BY JobFields, Ids DEF Insert, AuditInv
<1>1. /\ job'[h].pc = "idle"
      /\ \A g \in Process \ {h} : job'[g] = job[g]
  BY OneJob DEF Insert, Finish, Idle, AuditInv
<1>2. PICK p \in Hash : prev' = [prev EXCEPT ![e] = p]
  BY DEF Insert
<1>3. \A i \in Id \ {e} : prev'[i] = prev[i]
  BY <1>0, <1>2 DEF AuditInv, TypeOK
<1>4. \A g \in Process : Busy(g)' => Busy(g) /\ job'[g] = job[g]
  BY <1>1 DEF Busy, At
<1>5. Spans' \subseteq Spans
  BY <1>4 DEF Spans, Insert
<1>6. \A S \in Spans : S \subseteq Id /\ \A i \in S : i \in Nat /\ i < e
  BY SpanFacts, Ids DEF Complete, Insert
<1>7. \A i : Archived(i) = Archived(i)'
  BY DEF Archived, Insert
<1>8. table' = table \union {e}
  BY DEF Insert
<1>9. Whole'
  <2> SUFFICES ASSUME NEW g \in Process, Busy(g)', NEW k \in job'[g].ids, NEW i \in table', i <= k
               PROVE  i \in job'[g].ids
    BY DEF Whole
  <2>1. Busy(g) /\ job'[g] = job[g] /\ job[g].ids \in Spans
    BY <1>4 DEF Spans
  <2>2. k \in Nat /\ k < e
    BY <1>6, <2>1
  <2>3. i # e
    BY <1>0, <2>2
  <2> QED
    BY <1>8, <2>1, <2>3 DEF Whole
<1>10. SegmentsTrue'
  <2>1. \A s \in segments : s.from \in Id \ {e}
    BY <1>0, <1>6, SegmentFacts
  <2> QED
    BY <1>3, <2>1 DEF SegmentsTrue, SegmentOf, Insert
<1>11. \A S \in Spans' : Complete(S)' /\ StartsOne(S)'
  <2> SUFFICES ASSUME NEW S \in Spans PROVE Complete(S)' /\ StartsOne(S)'
    BY <1>5
  <2>1. Complete(S) /\ StartsOne(S)
    OBVIOUS
  <2>2. \A i \in S : i \in Nat /\ i < e
    BY <1>6
  <2>3. Complete(S)'
    BY <1>0, <1>1, <1>7, <1>8, <2>1, <2>2 DEF Complete, At, Insert
  <2> QED
    BY <1>7, <2>1, <2>3 DEF StartsOne, Insert
<1>12. StillContinues'
  <2> SUFFICES ASSUME NEW g \in Process, (At(g, "deliver") \/ At(g, "prune"))',
                      NEW i \in Id, IsFirst(i, job'[g].ids)
               PROVE  IsAnchor(prev[i])' \/ i \notin table'
    BY DEF StillContinues, IsFirst
  <2>1. Busy(g)
    BY <1>4 DEF At, Busy
  <2>2. job'[g] = job[g] /\ job[g].ids \in Spans
    BY <1>1, <2>1 DEF At, Spans, Busy, Insert
  <2>3. i # e
    BY <1>0, <1>6, <2>2 DEF IsFirst
  <2>4. IsAnchor(prev[i]) \/ i \notin table
    BY <2>2 DEF StillContinues, At
  <2> QED
    BY <1>3, <1>8, <2>3, <2>4 DEF IsAnchor, Insert
<1>13. NothingSkipped'
  <2> SUFFICES ASSUME NEW s \in segments, NEW j \in Committed', j <= s.last PROVE Archived(j)
    BY <1>7 DEF NothingSkipped, Insert
  <2>1. s.last \in Nat /\ s.last < e
    BY <1>6, SegmentFacts
  <2>2. j # e
    BY <1>0, <2>1
  <2> QED
    BY <1>3, <2>2 DEF NothingSkipped, Committed
<1>14. Imported'
  <2>1. ~Archived(e)
    <3> SUFFICES ASSUME NEW s \in segments, e \in s.ids PROVE FALSE
      BY DEF Archived
    <3>1. e < e
      BY <1>6, SegmentFacts
    <3> QED
      BY <1>0, <3>1
  <2> SUFFICES ASSUME NEW j \in table', Archived(j)
               PROVE  \E f \in files : j \in f /\ f \subseteq table'
    BY <1>7 DEF Imported, Insert
  <2> QED
    BY <1>8, <2>1 DEF Imported
<1>15. ArchivedOnce' /\ SegmentsChain'
  BY DEF ArchivedOnce, SegmentsChain, Insert
<1> QED
  BY <1>9, <1>10, <1>11, <1>12, <1>13, <1>14, <1>15

\* What a run selects starts the table; were its first entry archived, it would
\* start an imported file too, and so a segment.
LEMMA SelectChain ==
    ASSUME AuditInv, AuditInv', ChainInv, NEW h \in Process, NEW cut \in 1..(MaxId + 1),
           cut <= nextId, Select(h, cut)
    PROVE  ChainInv'
<1> USE DEF ChainInv
<1>a. PICK X : X = {i \in table : i < cut}
  OBVIOUS
<1> DEFINE j == [pc |-> "anchor", ids |-> X]
<1>0. /\ table \subseteq Nat /\ cut \in Nat
      /\ table \subseteq Id
  BY Ids, MaxIdAssumption DEF AuditInv, TypeOK
<1>1. /\ job'[h] = j
      /\ \A g \in Process \ {h} : job'[g] = job[g]
  BY <1>a, OneJob DEF Select, AuditInv
<1>2. Busy(h)'
  BY <1>1 DEF Busy, At
<1>3. \A i : Archived(i) = Archived(i)'
  BY DEF Archived, Select
<1>4. \A S \in Spans' : S \in Spans \/ S = X
  BY <1>1 DEF Spans, Busy, At, Select
<1>5. Whole'
  <2>1. \A k \in X, i \in table : i <= k => i \in X
    BY <1>0, <1>a
  <2> QED
    BY <1>1, <2>1 DEF Whole, Busy, At, Select
<1>6. SegmentsTrue'
  BY DEF SegmentsTrue, SegmentOf, Select
<1>7. \A r \in Process : At(r, "insert")' => At(r, "insert") /\ job'[r] = job[r]
  BY <1>1 DEF At
<1>8. \A S \in Spans' : Complete(S)'
  <2>1. ASSUME NEW S \in Spans PROVE Complete(S)'
    BY <1>3, <1>7 DEF Complete, Select
  <2>2. Complete(X)'
    BY <1>1, <1>2 DEF Complete, AuditInv, Selected
  <2> QED
    BY <1>4, <2>1, <2>2
<1>9. \A S \in Spans' : StartsOne(S)'
  <2>1. ASSUME NEW S \in Spans PROVE StartsOne(S)'
    BY <1>3 DEF StartsOne, Select
  <2>2. StartsOne(X)'
    <3> SUFFICES ASSUME NEW i \in Id, IsFirst(i, X), Archived(i)
                 PROVE  \E s \in segments : s.from = i
      BY <1>3 DEF StartsOne, Select, IsFirst
    <3>1. i \in table /\ \A k \in table : i <= k
      BY <1>0, <1>a DEF IsFirst
    <3>2. PICK f \in files : i \in f /\ f \subseteq table
      BY <3>1 DEF Imported
    <3>3. IsFirst(i, f) /\ f \in Spans
      BY <3>1, <3>2 DEF IsFirst, Spans
    <3> QED
      BY <3>3 DEF StartsOne
  <2> QED
    BY <1>4, <2>1, <2>2
<1>10. StillContinues'
  BY <1>1 DEF StillContinues, At, IsAnchor, Select
<1>11. NothingSkipped'
  BY <1>3 DEF NothingSkipped, Committed, Select
<1>12. Imported'
  BY <1>3 DEF Imported, Select
<1>13. ArchivedOnce' /\ SegmentsChain'
  BY DEF ArchivedOnce, SegmentsChain, Select
<1> QED
  BY <1>5, <1>6, <1>8, <1>9, <1>10, <1>11, <1>12, <1>13

\* The rows that go are all the rows the run selected: as many, and no others.
LEMMA PrunesAll ==
    ASSUME AuditInv, ChainInv, NEW h \in Process, At(h, "prune"),
           NEW s \in Segment, SegmentOf(job[h].ids, s), CanPrune(s)
    PROVE  s.ids \subseteq table
<1>1. Busy(h) /\ s.ids = job[h].ids /\ IsLast(s.last, s.ids)
  BY DEF SegmentOf, Busy, At
<1>2. s.ids \subseteq Id /\ table \subseteq Id
  BY <1>1, JobFields DEF AuditInv, TypeOK
<1>3. Pruned(s.ids) \subseteq s.ids
  BY <1>1 DEF Pruned, ChainInv, Whole, IsLast
<1>4. IsFiniteSet(Id)
  <2>1. 1 \in Int /\ MaxId \in Int
    BY MaxIdAssumption
  <2> QED
    BY <2>1, FS_Interval DEF Id
<1>5. IsFiniteSet(s.ids)
  BY <1>2, <1>4, FS_Subset
<1>6. Pruned(s.ids) = s.ids
  BY <1>3, <1>5, FS_Subset DEF CanPrune
<1> QED
  BY <1>6 DEF Pruned

\* A span that continues the last segment has not been archived: its first entry
\* would start a segment, and segments do not continue the last one.
LEMMA ContinuingIsNew ==
    ASSUME AuditInv, ChainInv, NEW S \in Spans, NEW i \in Id, IsFirst(i, S),
           IsAnchor(prev[i])
    PROVE  /\ ~Archived(i)
           /\ \A s \in segments : s.last < i
<1> USE DEF ChainInv
<1>1. ~Archived(i)
  <2> SUFFICES ASSUME Archived(i) PROVE FALSE
    OBVIOUS
  <2>1. PICK s \in segments : s.from = i
    BY DEF StartsOne
  <2>2. s.anchor = prev[i]
    BY <2>1, SegmentFacts
  <2>3. PICK l \in segments : l.last = prev[i] /\ \A t \in segments : t.from <= l.from
    BY <2>1 DEF IsAnchor
  <2>4. s.anchor # Genesis
    <3>1. l.last \in Id
      BY SegmentFacts
    <3> QED
      BY <2>2, <2>3, <3>1, MaxIdAssumption DEF Id, Genesis
  <2>5. PICK t \in segments : s.anchor = t.last /\ t.from < s.from
    BY <2>4 DEF SegmentsChain
  <2>6. /\ t.from \in Nat /\ t.last \in Nat /\ t.from <= t.last
        /\ l.from \in Nat /\ l.last \in Nat /\ l.from <= l.last
        /\ s.from \in Nat
    BY SegmentFacts
  <2>7. t = l
    <3>1. t.last = l.last
      BY <2>2, <2>3, <2>5
    <3> QED
      BY <2>6, <3>1 DEF ArchivedOnce
  <2>8. s.from <= l.from
    BY <2>3
  <2> QED
    BY <2>5, <2>6, <2>7, <2>8
<1>2. ASSUME NEW s \in segments PROVE s.last < i
  <2>1. i \in Committed /\ i \in Nat /\ s.last \in Nat
    BY SpanFacts, SegmentFacts, Ids DEF IsFirst
  <2>2. ~(i <= s.last)
    BY <1>1, <2>1 DEF NothingSkipped
  <2> QED
    BY <2>1, <2>2
<1> QED
  BY <1>1, <1>2

LEMMA ImportChain ==
    ASSUME AuditInv, ChainInv, NEW f \in files, Import(f)
    PROVE  ChainInv'
<1> USE DEF ChainInv
<1>1. \A g \in Process : ~Busy(g)
  BY DEF AuditInv, Selected, Import, Busy
<1>2. \A g \in Process : ~At(g, "deliver") /\ ~At(g, "prune")
  BY <1>1 DEF Busy, At
<1>3. Spans' = Spans
  BY DEF Spans, Busy, At, Import
<1>4. \A i : Archived(i) = Archived(i)'
  BY DEF Archived, Import
<1>5. f \subseteq Id /\ f \subseteq Nat
  BY Ids DEF AuditInv, TypeOK
<1>6. \A i \in f : i \notin table
  BY <1>5 DEF Import
<1>7. \A i \in f : Archived(i)
  BY <1>6 DEF AuditInv, Written, NothingLost, Archived
<1>8. Whole'
  BY <1>1 DEF Whole, Busy, At, Import
<1>9. SegmentsTrue'
  BY DEF SegmentsTrue, SegmentOf, Import
<1>10. \A S \in Spans' : Complete(S)' /\ StartsOne(S)'
  BY <1>3, <1>4, <1>7 DEF Complete, StartsOne, At, Import
<1>11. StillContinues'
  BY <1>2 DEF StillContinues, At, Import
<1>12. NothingSkipped'
  BY <1>4 DEF NothingSkipped, Committed, Import
<1>13. Imported'
  BY <1>4 DEF Imported, Import
<1>14. ArchivedOnce' /\ SegmentsChain'
  BY DEF ArchivedOnce, SegmentsChain, Import
<1> QED
  BY <1>8, <1>9, <1>10, <1>11, <1>12, <1>13, <1>14

\* A run that gets to prune continues the last segment: its segment is new, comes
\* after all others, and takes their first entry from the other runs at work.
LEMMA PruneChain ==
    ASSUME AuditInv, ChainInv, NEW h \in Process, Prune(h)
    PROVE  ChainInv'
<1> USE DEF ChainInv
<1>1. PICK s \in Segment : /\ SegmentOf(job[h].ids, s)
                           /\ CanPrune(s)
                           /\ segments' = segments \union {s}
  BY DEF Prune
<1>2. PICK X : X = job[h].ids
  OBVIOUS
<1>3. /\ At(h, "prune") /\ Busy(h) /\ X \in Spans /\ X \in files
      /\ UNCHANGED <<nextId, prev, files>>
      /\ table' = table \ Pruned(X)
  BY <1>2 DEF Prune, Busy, At, Spans, AuditInv, DeliveredFirst
<1>4. /\ job'[h].pc = "idle"
      /\ \A g \in Process \ {h} : job'[g] = job[g]
  BY OneJob DEF Prune, Finish, Idle, AuditInv
<1>5. /\ s.ids = X /\ IsFirst(s.from, X) /\ IsLast(s.last, X)
      /\ s.anchor = prev[s.from]
  BY <1>1, <1>2 DEF SegmentOf
<1>6. X \subseteq Id /\ X \subseteq Committed /\ X \subseteq Nat /\ table \subseteq Nat
  BY <1>3, SpanFacts, Ids DEF AuditInv, TypeOK
<1>7. X \subseteq table
  BY <1>1, <1>3, <1>5, PrunesAll
<1>8. /\ s.from \in X /\ s.last \in X
      /\ \A i \in X : s.from <= i /\ i <= s.last
  BY <1>5 DEF IsFirst, IsLast
<1>9. IsAnchor(prev[s.from])
  BY <1>2, <1>3, <1>5, <1>6, <1>7, <1>8 DEF StillContinues
<1>10. ~Archived(s.from) /\ \A t \in segments : t.last < s.from
  BY <1>3, <1>5, <1>6, <1>8, <1>9, ContinuingIsNew
<1>11. /\ s.from \in Nat /\ s.last \in Nat /\ s.from <= s.last
       /\ \A t \in segments : /\ t.from \in Nat /\ t.last \in Nat
                              /\ t.from <= t.last /\ t.last < s.from
  BY <1>6, <1>8, <1>10, SegmentFacts
<1>12. \A i \in X : ~Archived(i)
  <2> SUFFICES ASSUME NEW i \in X, NEW t \in segments, i \in t.ids PROVE FALSE
    BY DEF Archived
  <2>1. i \in Nat /\ i <= t.last /\ s.from <= i
    BY <1>6, <1>8, SegmentFacts
  <2> QED
    BY <1>11, <2>1
<1>13. \A i \in table' : i \in table /\ i \in Nat /\ s.last < i
  BY <1>3, <1>5, <1>6, <1>8, <1>11 DEF Pruned
<1>14. \A i : Archived(i)' <=> Archived(i) \/ i \in X
  BY <1>1, <1>3, <1>5 DEF Archived
<1>15. \A g \in Process : Busy(g)' => g # h /\ Busy(g) /\ job'[g] = job[g]
  BY <1>4 DEF Busy, At
<1>16. Spans' \subseteq Spans
  BY <1>3, <1>15 DEF Spans
<1>17. Whole'
  BY <1>13, <1>15 DEF Whole
<1>18. SegmentsTrue'
  BY <1>1, <1>2, <1>3, <1>5 DEF SegmentsTrue, SegmentOf
<1>19. \A S \in Spans' : Complete(S)' /\ StartsOne(S)'
  <2> SUFFICES ASSUME NEW S \in Spans PROVE Complete(S)' /\ StartsOne(S)'
    BY <1>16
  <2>1. Complete(S) /\ StartsOne(S) /\ S \subseteq Nat
    BY SpanFacts, Ids
  <2>2. \A r \in Process : At(r, "insert")' => At(r, "insert") /\ job'[r] = job[r]
    BY <1>4 DEF At
  <2>3. Complete(S)'
    BY <1>3, <1>13, <1>14, <2>1, <2>2 DEF Complete
  <2>4. ASSUME NEW i \in Id, IsFirst(i, S), Archived(i)' PROVE \E t \in segments' : t.from = i
    <3>1. CASE Archived(i)
      <4>1. PICK t \in segments : t.from = i
        BY <2>1, <2>4, <3>1 DEF StartsOne
      <4> QED
        BY <1>1, <4>1
    <3>2. CASE i \in X
      <4>1. s.from <= i /\ s.from \in table /\ i \in S
        BY <1>7, <1>8, <2>4, <3>2 DEF IsFirst
      <4>2. s.from \in S
        BY <1>10, <2>1, <4>1 DEF Complete
      <4>3. i <= s.from /\ i \in Nat
        BY <2>1, <2>4, <4>1, <4>2 DEF IsFirst
      <4> QED
        BY <1>1, <1>11, <4>1, <4>3
    <3> QED
      BY <1>14, <2>4, <3>1, <3>2
  <2>5. StartsOne(S)'
    BY <2>4 DEF StartsOne, IsFirst
  <2> QED
    BY <2>3, <2>5
<1>20. StillContinues'
  <2> SUFFICES ASSUME NEW g \in Process, (At(g, "deliver") \/ At(g, "prune"))',
                      NEW i \in Id, IsFirst(i, job'[g].ids), i \in table'
               PROVE  FALSE
    BY DEF StillContinues, IsFirst
  <2>1. Busy(g)'
    BY DEF Busy, At
  <2>2. job'[g] = job[g] /\ job[g].ids \in Spans
    BY <1>15, <2>1 DEF Spans
  <2>3. s.last \in table /\ s.last < i /\ i \in job[g].ids /\ i \in Nat
    BY <1>7, <1>8, <1>13, <2>2 DEF IsFirst
  <2>4. s.last \in job[g].ids
    BY <1>8, <1>11, <1>12, <2>2, <2>3 DEF Complete
  <2> QED
    BY <1>11, <2>2, <2>3, <2>4 DEF IsFirst
<1>21. NothingSkipped'
  <2> SUFFICES ASSUME NEW t \in segments', NEW j \in Committed, j <= t.last PROVE Archived(j)'
    BY <1>3 DEF NothingSkipped, Committed
  <2>1. CASE t \in segments
    BY <1>14, <2>1 DEF NothingSkipped
  <2>2. CASE t = s
    <3>1. CASE j \in table
      BY <1>2, <1>3, <1>8, <1>14, <2>2, <3>1 DEF Whole
    <3>2. CASE j \notin table
      BY <1>14, <3>2 DEF AuditInv, NothingLost, Archived
    <3> QED
      BY <3>1, <3>2
  <2> QED
    BY <1>1, <2>1, <2>2
<1>22. \A j \in table' : ~Archived(j)'
  <2> SUFFICES ASSUME NEW j \in table', Archived(j)' PROVE FALSE
    OBVIOUS
  <2>1. j \in Nat /\ s.last < j
    BY <1>13
  <2>2. CASE j \in X
    BY <1>8, <1>11, <2>1, <2>2
  <2>3. CASE Archived(j)
    <3>1. PICK t \in segments : j \in t.ids
      BY <2>3 DEF Archived
    <3>2. j <= t.last
      BY <3>1, SegmentFacts
    <3> QED
      BY <1>11, <2>1, <3>2
  <2> QED
    BY <1>14, <2>2, <2>3
<1>23. Imported'
  BY <1>22 DEF Imported
<1>24. ArchivedOnce'
  BY <1>1, <1>11 DEF ArchivedOnce
<1>25. SegmentsChain'
  <2> SUFFICES ASSUME NEW t \in segments'
               PROVE  \/ t.anchor = Genesis /\ \A u \in segments' : t.from <= u.from
                      \/ \E u \in segments' :
                            /\ t.anchor = u.last
                            /\ u.from < t.from
                            /\ ~\E v \in segments' : u.from < v.from /\ v.from < t.from
    BY DEF SegmentsChain
  <2>1. CASE t \in segments
    <3>1. t.from < s.from
      BY <1>11, <2>1
    <3>2. CASE t.anchor = Genesis /\ \A u \in segments : t.from <= u.from
      BY <1>1, <1>11, <3>1, <3>2
    <3>3. ASSUME NEW u \in segments, t.anchor = u.last, u.from < t.from,
                 ~\E v \in segments : u.from < v.from /\ v.from < t.from
          PROVE  ~\E v \in segments' : u.from < v.from /\ v.from < t.from
      BY <1>1, <1>11, <2>1, <3>1, <3>3
    <3> QED
      BY <1>1, <2>1, <3>2, <3>3 DEF SegmentsChain
  <2>2. CASE t = s
    <3>1. CASE segments = {} /\ prev[s.from] = Genesis
      BY <1>1, <1>5, <1>11, <2>2, <3>1
    <3>2. ASSUME NEW u \in segments, u.last = prev[s.from], \A v \in segments : v.from <= u.from
          PROVE  /\ s.anchor = u.last
                 /\ u.from < s.from
                 /\ ~\E v \in segments' : u.from < v.from /\ v.from < s.from
      BY <1>1, <1>5, <1>11, <3>2
    <3> QED
      BY <1>1, <1>9, <2>2, <3>1, <3>2 DEF IsAnchor
  <2> QED
    BY <1>1, <2>1, <2>2
<1> QED
  BY <1>17, <1>18, <1>19, <1>20, <1>21, <1>23, <1>24, <1>25

LEMMA NextChain ==
    ASSUME AuditInv, AuditInv', ChainInv, [Next]_vars
    PROVE  ChainInv'
<1>0. \A h \in Process : \A j : Goto(h, j) =>
        job'[h] = j /\ \A g \in Process \ {h} : job'[g] = job[g]
  BY OneJob DEF AuditInv
<1>1. ASSUME NEW h \in Process, TakeId(h) PROVE ChainInv'
  BY <1>1, TakeIdChain
<1>2. ASSUME NEW h \in Process, Insert(h) PROVE ChainInv'
  BY <1>2, InsertChain
<1>3. ASSUME NEW h \in Process, NEW cut \in 1..(MaxId + 1), cut <= nextId, Select(h, cut)
      PROVE  ChainInv'
  BY <1>3, SelectChain
<1>4. ASSUME NEW h \in Process, CheckAnchor(h) PROVE ChainInv'
  <2>1. /\ job'[h] = [pc |-> "deliver", ids |-> job[h].ids]
        /\ \A g \in Process \ {h} : job'[g] = job[g]
        /\ UNCHANGED <<nextId, table, prev, segments, files>>
        /\ Busy(h)
    BY <1>0, <1>4 DEF CheckAnchor, Busy, At
  <2>2. Spans' \subseteq Spans
    BY <2>1 DEF Spans, Busy, At
  <2>3. \A i \in Id : IsFirst(i, job[h].ids) => IsAnchor(prev[i])
    <3>1. PICK i \in job[h].ids : IsFirst(i, job[h].ids) /\ IsAnchor(prev[i])
      BY <1>4 DEF CheckAnchor, Continues
    <3>2. job[h].ids \subseteq Nat
      BY <2>1, JobFields, Ids DEF AuditInv
    <3> QED
      BY <3>1, <3>2 DEF IsFirst
  <2> QED
    BY <2>1, <2>2, <2>3, QuietChain DEF At, Busy
<1>5. ASSUME NEW h \in Process, Deliver(h) PROVE ChainInv'
  <2>1. /\ job'[h] = [pc |-> "prune", ids |-> job[h].ids]
        /\ \A g \in Process \ {h} : job'[g] = job[g]
        /\ UNCHANGED <<nextId, table, prev, segments>>
        /\ files' = files \union {job[h].ids}
        /\ Busy(h) /\ At(h, "deliver")
    BY <1>0, <1>5 DEF Deliver, Delivered, Busy, At
  <2>2. Spans' \subseteq Spans
    BY <2>1 DEF Spans, Busy, At
  <2>3. \A i \in Id : IsFirst(i, job[h].ids) => IsAnchor(prev[i]) \/ i \notin table
    BY <2>1 DEF ChainInv, StillContinues
  <2> QED
    BY <2>1, <2>2, <2>3, QuietChain DEF At, Busy
<1>6. ASSUME NEW h \in Process, Prune(h) PROVE ChainInv'
  BY <1>6, PruneChain
<1>7. ASSUME NEW h \in Process, Abandon(h) PROVE ChainInv'
  <2>1. /\ job'[h].pc = "idle"
        /\ \A g \in Process \ {h} : job'[g] = job[g]
        /\ UNCHANGED <<nextId, table, prev, segments, files>>
    BY <1>0, <1>7 DEF Abandon, Finish, Idle
  <2>2. Spans' \subseteq Spans
    BY <2>1 DEF Spans, Busy, At
  <2> QED
    BY <2>1, <2>2, QuietChain DEF At, Busy
<1>8. ASSUME NEW f \in files, Import(f) PROVE ChainInv'
  BY <1>8, ImportChain
<1>9. CASE UNCHANGED vars
  BY <1>9 DEF vars, ChainInv, Whole, SegmentsTrue, SegmentOf, Spans, Complete, StartsOne,
              StillContinues, NothingSkipped, Imported, ArchivedOnce, SegmentsChain,
              Archived, Committed, Busy, At, IsAnchor
<1> QED
  BY <1>1, <1>2, <1>3, <1>4, <1>5, <1>6, <1>7, <1>8, <1>9 DEF Next, Archive

\* The reachable states satisfy both invariants.
THEOREM ChainInvariant == Spec => [](AuditInv /\ ChainInv)
<1>1. Init => AuditInv /\ ChainInv
  BY InitAudit, InitChain
<1>2. AuditInv /\ ChainInv /\ [Next]_vars => (AuditInv /\ ChainInv)'
  BY NextAudit, NextChain
<1> QED
  BY <1>1, <1>2, PTL DEF Spec

\* However many runs archive at once, none records an entry another recorded
\* (archive.rs: the anchor, the unique index and the count of deleted rows).
THEOREM NothingIsArchivedTwice == Spec => []ArchivedOnce
BY ChainInvariant, PTL DEF ChainInv

\* Every segment starts from the hash the one before it ended with.
THEOREM SegmentsAreChained == Spec => []SegmentsChain
BY ChainInvariant, PTL DEF ChainInv
=============================================================================
