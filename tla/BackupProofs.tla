---------------------------- MODULE BackupProofs ----------------------------
(***************************************************************************)
(* The two halves of src/api/src/backup/, which share no state.            *)
(*                                                                         *)
(*   Backups keep to their schedule and keep the newest files, for any     *)
(* number of destinations and runs.                                        *)
(*   A restore leaves no copy behind, no older schema, and always a way    *)
(* back; for any number of admins, files and safety copies, the last for   *)
(* as many admins at a time as copies are kept.                            *)
(***************************************************************************)
EXTENDS Backups, Restore, TLAPS, FiniteSetTheorems, SequenceTheorems

-----------------------------------------------------------------------------
(* Backups: what the worker and "Run now" have in hand.                    *)

Resting == {"idle", "boot"}
AtRow == {"upload", "record", "list", "delete", "clear", "advance"}

\* The rows a process has read and is not done with, the run it has under way,
\* and the runs whose files it is about to delete or has deleted.
RowsIn(r) ==
    (IF r.pc \in Resting THEN {} ELSE r.todo) \union (IF r.pc \in AtRow THEN {r.row} ELSE {})
RunsIn(r) == IF r.pc \in {"upload", "record"} THEN {r.run} ELSE {}
DoomedIn(r) ==
    (IF r.pc \in {"delete", "clear"} THEN r.stale ELSE {}) \union (IF r.pc = "clear" THEN {r.gone} ELSE {})

\* A destination was told a count, and a row that was read is no older than its
\* schedule, and no count it was told is greater than the one that was read.
CountKnown == \A d \in Destinations : Exists(d) => least[d] # Null /\ least[d] <= dest[d].retain
RowsRead ==
    \A p \in Who : \A row \in RowsIn(proc[p]) :
      /\ least[row.d] # Null /\ least[row.d] <= row.retain
      /\ p = "worker" /\ Exists(row.d) => row.schedule = dest[row.d].schedule \/ row.d \in overtaken

\* The next run, enabled or not, is by the present schedule.
NextBySchedule ==
    \A d \in Destinations : Exists(d) /\ dest[d].next # Null =>
      dest[d].next.by = dest[d].schedule \/ d \in overtaken

\* What the worker is still to run was not run since it was due; what was run
\* and is due is in its hands.
NotServedYet ==
    /\ proc["worker"].pc \notin Resting =>
         /\ \A row \in proc["worker"].todo : row.d \notin served
         /\ \A a, b \in proc["worker"].todo : a.d = b.d => a = b
    /\ \A d \in served : Exists(d) /\ dest[d].next # Null /\ dest[d].next.due =>
         proc["worker"].pc \in AtRow /\ proc["worker"].row.d = d

ScheduleInv == CountKnown /\ RowsRead /\ NextBySchedule /\ NotServedYet /\ NextFollowsSchedule

-----------------------------------------------------------------------------
(* Backups: the runs and their files.                                      *)

RunsOwned == \A r \in DOMAIN runs : runs[r] # Null => Exists(runs[r].d)

\* A run under way is nobody else's, not good yet, and not about to be deleted.
RunsUnderWay ==
    /\ \A p \in Who : \A r \in RunsIn(proc[p]) :
         /\ r \in DOMAIN runs
         /\ runs[r] # Null => runs[r].d = proc[p].row.d /\ runs[r].status = "running"
    /\ \A p, q \in Who :
         /\ RunsIn(proc[p]) \intersect RunsIn(proc[q]) # {} => p = q
         /\ RunsIn(proc[p]) \intersect DoomedIn(proc[q]) = {}

\* An upload with an id is on Drive until it is recorded.
UploadsStored ==
    \A p \in Who : Doing(p, "record") /\ proc[p].remote # Null =>
      proc[p].ok /\ proc[p].remote = proc[p].run /\ proc[p].run \in drive

\* As many younger files as are to be kept outlive one that is to be deleted.
Outlived(r, d) == Exists(d) => Cardinality(Younger(r, Good(d))) >= least[d]
DoomedIsOld ==
    \A p \in Who : \A r \in DoomedIn(proc[p]) :
      /\ r \in DOMAIN runs
      /\ runs[r] # Null => runs[r].d = proc[p].row.d /\ runs[r].status = "ok"
      /\ Outlived(r, proc[p].row.d)
GoneIsGone == \A p \in Who : Doing(p, "clear") => proc[p].gone \notin drive

FilesInv ==
    /\ drive \subseteq DOMAIN runs
    /\ RunsOwned
    /\ RunsUnderWay
    /\ UploadsStored
    /\ DoomedIsOld
    /\ GoneIsGone
    /\ NewestAreKept
    /\ FilesAreKnown

BackupsInv == BackupsTypeOK /\ ScheduleInv /\ FilesInv

-----------------------------------------------------------------------------
(* Backups: rows and requests, one at a time.                              *)

LEMMA ProcFields ==
    ASSUME NEW r \in Proc
    PROVE  /\ r.pc \in Resting \union {"next", "no dump"} \union AtRow
           /\ r.pc \notin Resting => r.todo \in SUBSET Row
           /\ r.pc \in AtRow => r.row \in Row
           /\ r.pc \in {"upload", "record"} => r.run \in RunIds
           /\ r.pc = "record" => r.ok \in BOOLEAN /\ r.remote \in RunIds \union {Null}
           /\ r.pc \in {"delete", "clear"} => r.stale \in SUBSET RunIds
           /\ r.pc = "clear" => r.gone \in RunIds
           /\ r.pc = "advance" => r.dumped \in BOOLEAN
           /\ r.pc \in AtRow <=> "row" \in DOMAIN r
<1> USE DEF Resting, AtRow
<1>1. CASE r \in [pc : {"idle", "boot"}]
  BY <1>1
<1>2. CASE r \in [pc : {"next", "no dump"}, todo : SUBSET Row]
  BY <1>2
<1>3. CASE r \in [pc : {"upload"}, todo : SUBSET Row, row : Row, run : RunIds]
  BY <1>3
<1>4. CASE r \in [pc : {"record"}, todo : SUBSET Row, row : Row, run : RunIds, ok : BOOLEAN,
                  remote : RunIds \union {Null}]
  BY <1>4
<1>5. CASE r \in [pc : {"list"}, todo : SUBSET Row, row : Row]
  BY <1>5
<1>6. CASE r \in [pc : {"delete"}, todo : SUBSET Row, row : Row, stale : SUBSET RunIds]
  BY <1>6
<1>7. CASE r \in [pc : {"clear"}, todo : SUBSET Row, row : Row, stale : SUBSET RunIds, gone : RunIds]
  BY <1>7
<1>8. CASE r \in [pc : {"advance"}, todo : SUBSET Row, row : Row, dumped : BOOLEAN]
  BY <1>8
<1> QED
  BY <1>1, <1>2, <1>3, <1>4, <1>5, <1>6, <1>7, <1>8 DEF Proc

LEMMA HandsFull ==
    ASSUME NEW r \in Proc
    PROVE  /\ RowsIn(r) \subseteq Row
           /\ RunsIn(r) \subseteq RunIds
           /\ DoomedIn(r) \subseteq RunIds
           /\ RunsIn(r) # {} \/ DoomedIn(r) # {} => r.row \in RowsIn(r)
BY ProcFields DEF RowsIn, RunsIn, DoomedIn, AtRow, Resting

LEMMA OneProc ==
    ASSUME BackupsTypeOK, NEW p \in Who, NEW r \in Proc, Continue(p, r)
    PROVE  /\ proc'[p] = r
           /\ \A q \in Who \ {p} : proc'[q] = proc[q]
           /\ proc' \in [Who -> Proc]
BY DEF BackupsTypeOK, Continue

LEMMA AtRestIsProc == AtRest \in Proc /\ AtRest.pc = "idle" /\ [pc |-> "boot"] \in Proc
BY DEF AtRest, Proc

LEMMA Destined ==
    ASSUME BackupsTypeOK, NEW d \in Destinations
    PROVE  /\ Exists(d) => /\ dest[d] \in Destination
                           /\ dest[d].kind \in Kind /\ dest[d].schedule \in Schedules
                           /\ dest[d].retain \in Retains /\ dest[d].enabled \in BOOLEAN
                           /\ dest[d].next \in NextRun \union {Null}
                           /\ RowOf(d) \in Row
           /\ least[d] # Null => least[d] \in Nat
           /\ RowOf(d).d = d /\ RowOf(d).schedule = dest[d].schedule /\ RowOf(d).retain = dest[d].retain
BY RetainsAssumption DEF BackupsTypeOK, Exists, Destination, RowOf, Row

LEMMA RowFields ==
    ASSUME NEW row \in Row
    PROVE  row.d \in Destinations /\ row.kind \in Kind /\ row.schedule \in Schedules /\ row.retain \in Retains
BY DEF Row

\* A next run that is scheduled is not due yet.
LEMMA ScheduledNext ==
    ASSUME NEW s \in Schedules
    PROVE  /\ Scheduled(s) \in NextRun /\ Scheduled(s) # Null
           /\ Scheduled(s).by = s /\ ~Scheduled(s).due
<1>1. Scheduled(s) \in NextRun /\ Scheduled(s).by = s /\ ~Scheduled(s).due
  BY DEF Scheduled, NextRun
<1>2. Null \notin NextRun
  BY NullAssumption
<1> QED
  BY <1>1, <1>2

LEMMA RunList ==
    ASSUME BackupsTypeOK
    PROVE  /\ DOMAIN runs = 1..Len(runs) /\ Len(runs) \in Nat
           /\ DOMAIN runs \subseteq RunIds
           /\ \A r \in DOMAIN runs : runs[r] \in Run \union {Null}
           /\ IsFiniteSet(DOMAIN runs)
<1>1. runs \in Seq(Run \union {Null}) /\ Len(runs) <= MaxRuns
  BY DEF BackupsTypeOK
<1>2. DOMAIN runs = 1..Len(runs) /\ Len(runs) \in Nat
  BY <1>1
<1>3. \A r \in DOMAIN runs : runs[r] \in Run \union {Null}
  BY <1>1
<1> QED
  BY <1>1, <1>2, <1>3, FS_Interval, MaxRunsAssumption DEF RunIds

\* A row of backup_runs is written: by Insert, Record, Clear.
LEMMA RunFields ==
    ASSUME NEW x \in Run
    PROVE  /\ x # Null
           /\ x.d \in Destinations /\ x.status \in {"running", "ok", "failed"}
           /\ x.remote \in RunIds \union {Null}
BY NullAssumption DEF Run

LEMMA RunRewritten ==
    ASSUME BackupsTypeOK, NEW r \in DOMAIN runs, NEW x \in Run, runs' = [runs EXCEPT ![r] = x]
    PROVE  /\ runs' \in Seq(Run \union {Null}) /\ Len(runs') = Len(runs)
           /\ DOMAIN runs' = DOMAIN runs
           /\ runs'[r] = x
           /\ \A q \in DOMAIN runs \ {r} : runs'[q] = runs[q]
BY RunList, ExceptSeq DEF BackupsTypeOK

-----------------------------------------------------------------------------
(* Backups: types.                                                         *)

LEMMA InitBackupsTypes == BackupsInit => BackupsTypeOK
<1> SUFFICES ASSUME BackupsInit PROVE BackupsTypeOK
  OBVIOUS
<1>1. PICK old \in SUBSET Destinations, deleted \in SUBSET Destinations, kind \in Kind, s \in Schedules,
           k \in Retains, on \in BOOLEAN :
        /\ dest = [d \in Destinations |->
             IF d \in old THEN [kind |-> kind, schedule |-> s, retain |-> k, enabled |-> on, next |-> Null]
             ELSE Null]
        /\ least = [d \in Destinations |-> IF d \in old \union deleted THEN k ELSE Null]
  BY DEF BackupsInit
<1>2. [kind |-> kind, schedule |-> s, retain |-> k, enabled |-> on, next |-> Null] \in Destination
  BY DEF Destination
<1>3. dest \in [Destinations -> Destination \union {Null}] /\ least \in [Destinations -> Retains \union {Null}]
  BY <1>1, <1>2
<1>4. runs \in Seq(Run \union {Null}) /\ Len(runs) <= MaxRuns
  BY MaxRunsAssumption DEF BackupsInit
<1>5. proc \in [Who -> Proc]
  BY AtRestIsProc DEF BackupsInit
<1> QED
  BY <1>3, <1>4, <1>5 DEF BackupsInit, BackupsTypeOK

\* Steps of a process that leave the destinations alone.
LEMMA ProcStepTypes ==
    ASSUME BackupsTypeOK, NEW p \in Who, NEW r \in Proc, Continue(p, r),
           UNCHANGED <<dest, least, overtaken, edits>>,
           runs' \in Seq(Run \union {Null}) /\ Len(runs') <= MaxRuns,
           drive' \in SUBSET RunIds, served' \in SUBSET Destinations, strays' \in SUBSET RunIds
    PROVE  BackupsTypeOK'
BY OneProc DEF BackupsTypeOK

LEMMA AdminTypes ==
    ASSUME BackupsTypeOK, NEW d \in Destinations, NEW s \in Schedules, NEW k \in Retains \union {0},
           \/ \E kind \in Kind : Create(d, kind, s, k)
           \/ \E on \in BOOLEAN : Update(d, s, k, on)
    PROVE  BackupsTypeOK'
<1>0. edits' \in 0..MaxEdits
  BY MaxEditsAssumption DEF BackupsTypeOK, Create, Update, Edit
<1>1. ASSUME NEW kind \in Kind, Create(d, kind, s, k) PROVE BackupsTypeOK'
  <2>1. k \in Retains
    BY <1>1 DEF Create, ValidCount
  <2>2. PICK row : row = [kind |-> kind, schedule |-> s, retain |-> k, enabled |-> TRUE, next |-> Scheduled(s)]
    OBVIOUS
  <2>3. row \in Destination
    BY <2>1, <2>2, ScheduledNext DEF Destination
  <2>4. dest' = [dest EXCEPT ![d] = row] /\ least' = [least EXCEPT ![d] = k]
    BY <1>1, <2>2 DEF Create
  <2>5. dest' \in [Destinations -> Destination \union {Null}] /\ least' \in [Destinations -> Retains \union {Null}]
    BY <2>1, <2>3, <2>4 DEF BackupsTypeOK
  <2>6. UNCHANGED <<runs, drive, proc, overtaken, served, strays>>
    BY <1>1 DEF Create
  <2> QED
    BY <1>0, <2>5, <2>6 DEF BackupsTypeOK
<1>2. ASSUME NEW on \in BOOLEAN, Update(d, s, k, on) PROVE BackupsTypeOK'
  <2>1. k \in Retains /\ Exists(d)
    BY <1>2 DEF Update, ValidCount
  <2>2. PICK row : row = [kind |-> dest[d].kind, schedule |-> s, retain |-> k, enabled |-> on,
                          next |-> NextOnEdit(d, s, on)]
    OBVIOUS
  <2>3. row \in Destination
    BY <2>1, <2>2, ScheduledNext, Destined DEF Destination, NextOnEdit
  <2>4. dest' = [dest EXCEPT ![d] = row]
    BY <1>2, <2>2 DEF Update, BackupsTypeOK
  <2>5. dest' \in [Destinations -> Destination \union {Null}]
    BY <2>3, <2>4 DEF BackupsTypeOK
  <2>6. least' \in [Destinations -> Retains \union {Null}]
    BY <1>2, <2>1 DEF BackupsTypeOK, Update
  <2>7. UNCHANGED <<runs, drive, proc, served, strays>> /\ overtaken' \in SUBSET Destinations
    BY <1>2 DEF Update, BackupsTypeOK
  <2> QED
    BY <1>0, <2>5, <2>6, <2>7 DEF BackupsTypeOK
<1> QED
  BY <1>1, <1>2

LEMMA DeleteTypes ==
    ASSUME BackupsTypeOK, NEW d \in Destinations, Delete(d)
    PROVE  BackupsTypeOK'
<1>1. dest' \in [Destinations -> Destination \union {Null}]
  BY DEF Delete, BackupsTypeOK
<1>2. runs' \in Seq(Run \union {Null}) /\ Len(runs') = Len(runs)
  <2>1. runs' = [r \in 1..Len(runs) |-> IF runs[r] # Null /\ runs[r].d = d THEN Null ELSE runs[r]]
    BY RunList DEF Delete
  <2>2. runs' \in [1..Len(runs) -> Run \union {Null}] /\ Len(runs) \in Nat
    BY <2>1, RunList
  <2> QED
    BY <2>2, SeqDef
<1>3. UNCHANGED <<drive, proc, marks>> /\ edits' \in 0..MaxEdits
  BY MaxEditsAssumption DEF Delete, Edit, BackupsTypeOK
<1> QED
  BY <1>1, <1>2, <1>3 DEF BackupsTypeOK, marks

LEMMA RowsDueAreRows ==
    ASSUME BackupsTypeOK
    PROVE  {RowOf(d) : d \in Due} \in SUBSET Row
BY Destined DEF Due

\* Boot, the clock, the worker's list, the admin's wish and the failures.
LEMMA ClockTypes ==
    ASSUME BackupsTypeOK,
           \/ Boot \/ Poll \/ HangUp \/ Crash
           \/ \E d \in Destinations : RunNow(d) \/ Tick(d)
    PROVE  BackupsTypeOK'
<1>1. CASE Boot
  <2>1. ASSUME NEW d \in Destinations PROVE dest'[d] \in Destination \union {Null}
    <3>1. CASE Exists(d) /\ dest[d].enabled /\ dest[d].next = Null
      <4>1. dest'[d] = [dest[d] EXCEPT !.next = Scheduled(dest[d].schedule)]
        BY <1>1, <3>1 DEF Boot
      <4> QED
        BY <3>1, <4>1, Destined, ScheduledNext DEF Destination
    <3>2. CASE ~(Exists(d) /\ dest[d].enabled /\ dest[d].next = Null)
      BY <1>1, <3>2 DEF Boot, BackupsTypeOK
    <3> QED
      BY <3>1, <3>2
  <2>2. dest' \in [Destinations -> Destination \union {Null}]
    <3>1. PICK f : f = [d \in Destinations |->
             IF Exists(d) /\ dest[d].enabled /\ dest[d].next = Null
             THEN [dest[d] EXCEPT !.next = Scheduled(dest[d].schedule)] ELSE dest[d]]
      OBVIOUS
    <3>2. dest' = f
      BY <1>1, <3>1 DEF Boot
    <3> QED
      BY <2>1, <3>1, <3>2
  <2>3. proc' \in [Who -> Proc]
    BY <1>1, OneProc, AtRestIsProc DEF Boot, Who
  <2> QED
    BY <1>1, <2>2, <2>3 DEF Boot, BackupsTypeOK, marks
<1>2. CASE Poll
  <2>1. PICK dumped \in BOOLEAN :
          Continue("worker", [pc |-> IF dumped THEN "next" ELSE "no dump", todo |-> {RowOf(d) : d \in Due}])
    BY <1>2 DEF Poll
  <2>2. [pc |-> IF dumped THEN "next" ELSE "no dump", todo |-> {RowOf(d) : d \in Due}] \in Proc
    BY RowsDueAreRows DEF Proc
  <2> QED
    BY <1>2, <2>1, <2>2, ProcStepTypes DEF Poll, BackupsTypeOK, marks, Who
<1>3. CASE HangUp
  <2>1. Unrecorded("manual") \subseteq RunIds
    BY ProcFields DEF Unrecorded, Doing, BackupsTypeOK, Who
  <2> QED
    BY <1>3, <2>1, ProcStepTypes, AtRestIsProc DEF HangUp, BackupsTypeOK, Who
<1>4. CASE Crash
  <2>1. Unrecorded("manual") \subseteq RunIds /\ Unrecorded("worker") \subseteq RunIds
    BY ProcFields DEF Unrecorded, Doing, BackupsTypeOK, Who
  <2>2. proc' \in [Who -> Proc]
    BY <1>4, AtRestIsProc DEF Crash
  <2> QED
    BY <1>4, <2>1, <2>2 DEF Crash, BackupsTypeOK
<1>5. ASSUME NEW d \in Destinations, RunNow(d) PROVE BackupsTypeOK'
  <2>1. [pc |-> "next", todo |-> {RowOf(d)}] \in Proc
    BY <1>5, Destined DEF Proc, RunNow
  <2> QED
    BY <1>5, <2>1, ProcStepTypes DEF RunNow, BackupsTypeOK, marks, Who
<1>6. ASSUME NEW d \in Destinations, Tick(d) PROVE BackupsTypeOK'
  <2>1. PICK row : row = [dest[d] EXCEPT !.next = [dest[d].next EXCEPT !.due = TRUE]]
    OBVIOUS
  <2>2. row \in Destination
    <3>1. dest[d] \in Destination /\ dest[d].next \in NextRun
      BY <1>6, Destined DEF Tick
    <3>2. [dest[d].next EXCEPT !.due = TRUE] \in NextRun
      BY <3>1 DEF NextRun
    <3> QED
      BY <2>1, <3>1, <3>2 DEF Destination
  <2>3. dest' = [dest EXCEPT ![d] = row]
    BY <1>6, <2>1 DEF Tick, BackupsTypeOK
  <2>4. dest' \in [Destinations -> Destination \union {Null}]
    BY <2>2, <2>3 DEF BackupsTypeOK
  <2>5. UNCHANGED <<runs, drive, proc, least, overtaken, strays, edits>> /\ served' \in SUBSET Destinations
    BY <1>6 DEF Tick, BackupsTypeOK
  <2> QED
    BY <2>4, <2>5 DEF BackupsTypeOK
<1> QED
  BY <1>1, <1>2, <1>3, <1>4, <1>5, <1>6

\* Insert writes at most one row, at the end, for a destination that is there.
LEMMA InsertTypes ==
    ASSUME BackupsTypeOK, NEW p \in Who, NEW row \in Row, NEW status \in {"running", "failed"},
           Insert(p, row, status)
    PROVE  /\ runs' \in Seq(Run \union {Null}) /\ Len(runs') <= MaxRuns
           /\ served' \in SUBSET Destinations
           /\ Exists(row.d) => /\ Len(runs') = Len(runs) + 1
                               /\ Len(runs) + 1 \in RunIds
                               /\ \A r \in DOMAIN runs : runs'[r] = runs[r]
                               /\ runs'[Len(runs) + 1] = [d |-> row.d, status |-> status, remote |-> Null]
           /\ ~Exists(row.d) => UNCHANGED <<runs, served>>
<1>1. CASE Exists(row.d)
  <2>1. PICK x : x = [d |-> row.d, status |-> status, remote |-> Null]
    OBVIOUS
  <2>2. x \in Run
    BY <2>1, RowFields DEF Run
  <2>3. runs' = Append(runs, x) /\ Len(runs) < MaxRuns
    BY <1>1, <2>1 DEF Insert
  <2>4. served' \in SUBSET Destinations
    BY <1>1, RowFields DEF Insert, BackupsTypeOK
  <2>5. /\ runs' \in Seq(Run \union {Null}) /\ Len(runs') = Len(runs) + 1
        /\ \A r \in 1..Len(runs) : runs'[r] = runs[r]
        /\ runs'[Len(runs) + 1] = x
    BY <2>2, <2>3, AppendProperties DEF BackupsTypeOK
  <2> QED
    BY <1>1, <2>1, <2>3, <2>4, <2>5, RunList, MaxRunsAssumption DEF RunIds
<1>2. CASE ~Exists(row.d)
  BY <1>2 DEF Insert, BackupsTypeOK
<1> QED
  BY <1>1, <1>2

\* What Start and FailRun make of the process.
Started(p, row) ==
    IF Exists(row.d)
    THEN [pc |-> "upload", todo |-> proc[p].todo \ {row}, row |-> row, run |-> Len(runs) + 1]
    ELSE IF p = "worker"
         THEN [pc |-> "advance", todo |-> proc[p].todo \ {row}, row |-> row, dumped |-> TRUE]
         ELSE AtRest
NoDump(row) ==
    [pc |-> "advance", todo |-> proc["worker"].todo \ {row}, row |-> row, dumped |-> FALSE]

LEMMA StartSteps ==
    ASSUME BackupsTypeOK, NEW p \in Who, Start(p)
    PROVE  \E row \in Row :
             /\ Doing(p, "next") /\ row \in proc[p].todo
             /\ Insert(p, row, "running")
             /\ Started(p, row) \in Proc
             /\ Continue(p, Started(p, row))
             /\ UNCHANGED <<dest, drive, least, overtaken, strays, edits>>
<1>1. PICK row \in proc[p].todo :
        Insert(p, row, "running") /\ Continue(p, Started(p, row))
  BY DEF Start, Started
<1>2. proc[p] \in Proc /\ Doing(p, "next")
  BY DEF Start, BackupsTypeOK
<1>3. proc[p].todo \in SUBSET Row
  BY <1>2, ProcFields DEF Doing, Resting
<1>4. row \in Row
  BY <1>1, <1>3
<1>5. Exists(row.d) => Len(runs) + 1 \in RunIds
  BY <1>1, <1>4, InsertTypes
<1>6. Started(p, row) \in Proc
  BY <1>3, <1>4, <1>5, AtRestIsProc DEF Started, Proc
<1> QED
  BY <1>1, <1>2, <1>4, <1>6 DEF Start

LEMMA FailRunSteps ==
    ASSUME BackupsTypeOK, FailRun
    PROVE  \E row \in Row :
             /\ Doing("worker", "no dump") /\ row \in proc["worker"].todo
             /\ Insert("worker", row, "failed")
             /\ NoDump(row) \in Proc
             /\ Continue("worker", NoDump(row))
             /\ UNCHANGED <<dest, drive, least, overtaken, strays, edits>>
<1>1. PICK row \in proc["worker"].todo :
        Insert("worker", row, "failed") /\ Continue("worker", NoDump(row))
  BY DEF FailRun, NoDump
<1>2. proc["worker"] \in Proc /\ Doing("worker", "no dump")
  BY DEF FailRun, BackupsTypeOK, Who
<1>3. proc["worker"].todo \in SUBSET Row
  BY <1>2, ProcFields DEF Doing, Resting
<1>4. NoDump(row) \in Proc
  BY <1>1, <1>3 DEF NoDump, Proc
<1> QED
  BY <1>1, <1>2, <1>3, <1>4 DEF FailRun

LEMMA StartTypes ==
    ASSUME BackupsTypeOK, \/ \E p \in Who : Start(p)
                          \/ FailRun
    PROVE  BackupsTypeOK'
<1>1. ASSUME NEW p \in Who, Start(p) PROVE BackupsTypeOK'
  <2>1. PICK row \in Row :
          /\ Insert(p, row, "running") /\ Started(p, row) \in Proc /\ Continue(p, Started(p, row))
          /\ UNCHANGED <<dest, drive, least, overtaken, strays, edits>>
    BY <1>1, StartSteps
  <2> QED
    BY <2>1, InsertTypes, ProcStepTypes DEF BackupsTypeOK
<1>2. CASE FailRun
  <2>1. PICK row \in Row :
          /\ Insert("worker", row, "failed") /\ NoDump(row) \in Proc /\ Continue("worker", NoDump(row))
          /\ UNCHANGED <<dest, drive, least, overtaken, strays, edits>>
    BY <1>2, FailRunSteps
  <2> QED
    BY <2>1, InsertTypes, ProcStepTypes DEF BackupsTypeOK, Who
<1> QED
  BY <1>1, <1>2

\* A request that has no run under way and no file to delete.
Quiet(r) == r.pc \notin {"upload", "record", "delete", "clear"}

LEMMA QuietHands ==
    ASSUME NEW r, Quiet(r)
    PROVE  RunsIn(r) = {} /\ DoomedIn(r) = {} /\ r.pc # "record" /\ r.pc # "clear"
BY DEF Quiet, RunsIn, DoomedIn

\* p goes on with its row, or "Run now" with less than it had.
StaysAtRow(p, r) ==
    /\ RowsIn(r) \subseteq RowsIn(proc[p])
    /\ p = "worker" => r.pc \in AtRow /\ r.todo = proc[p].todo /\ r.row = proc[p].row

LEMMA DoneIsNext ==
    ASSUME BackupsTypeOK, NEW p \in Who, proc[p].pc \in AtRow
    PROVE  Done(p, TRUE) \in Proc /\ Quiet(Done(p, TRUE)) /\ StaysAtRow(p, Done(p, TRUE))
<1>1. proc[p].todo \in SUBSET Row /\ proc[p].row \in Row /\ proc[p].pc \notin Resting
  BY ProcFields DEF BackupsTypeOK, AtRow, Resting
<1>2. CASE p = "worker"
  <2>1. PICK r : r = [pc |-> "advance", todo |-> proc[p].todo, row |-> proc[p].row, dumped |-> TRUE]
    OBVIOUS
  <2>2. Done(p, TRUE) = r
    BY <1>2, <2>1 DEF Done
  <2>3. r \in Proc /\ r.pc = "advance" /\ r.todo = proc[p].todo /\ r.row = proc[p].row
    BY <1>1, <2>1 DEF Proc
  <2> QED
    BY <1>1, <2>2, <2>3 DEF Quiet, StaysAtRow, RowsIn, AtRow, Resting
<1>3. CASE p # "worker"
  <2>1. Done(p, TRUE) = AtRest
    BY <1>3 DEF Done
  <2> QED
    BY <1>3, <2>1, AtRestIsProc DEF Quiet, StaysAtRow, RowsIn, AtRow, Resting
<1> QED
  BY <1>2, <1>3

\* The upload: refused or mailed; stored and told; stored and not told.
LEMMA DeliverSteps ==
    ASSUME BackupsTypeOK, NEW p \in Who, Deliver(p)
    PROVE  \E r \in Proc :
             /\ Continue(p, r) /\ StaysAtRow(p, r)
             /\ Doing(p, "upload") /\ r.pc = "record" /\ r.row = proc[p].row /\ r.run = proc[p].run
             /\ \/ r.remote = Null /\ UNCHANGED <<drive, strays>>
                \/ r.remote = r.run /\ r.ok /\ drive' = drive \union {r.run} /\ UNCHANGED strays
                \/ r.remote = Null /\ drive' = drive \union {r.run} /\ strays' = strays \union {r.run}
             /\ UNCHANGED <<dest, runs, least, overtaken, served, edits>>
<1> DEFINE told(ok, id) == [pc |-> "record", todo |-> proc[p].todo, row |-> proc[p].row,
                            run |-> proc[p].run, ok |-> ok, remote |-> id]
<1>1. proc[p].pc = "upload" /\ proc[p].todo \in SUBSET Row /\ proc[p].row \in Row /\ proc[p].run \in RunIds
  BY ProcFields DEF Deliver, Doing, BackupsTypeOK, AtRow, Resting
<1>2. ASSUME NEW ok \in BOOLEAN, NEW id \in RunIds \union {Null}
      PROVE  /\ told(ok, id) \in Proc
             /\ StaysAtRow(p, told(ok, id))
             /\ told(ok, id).pc = "record" /\ told(ok, id).row = proc[p].row
             /\ told(ok, id).run = proc[p].run /\ told(ok, id).ok = ok /\ told(ok, id).remote = id
  <2>1. PICK r : r = told(ok, id)
    OBVIOUS
  <2>2. /\ r \in Proc /\ r.pc = "record" /\ r.todo = proc[p].todo /\ r.row = proc[p].row
        /\ r.run = proc[p].run /\ r.ok = ok /\ r.remote = id
    BY <1>1, <2>1 DEF Proc
  <2>3. StaysAtRow(p, r)
    BY <1>1, <2>2 DEF StaysAtRow, RowsIn, AtRow, Resting
  <2> QED
    BY <2>1, <2>2, <2>3
<1>3. /\ UNCHANGED <<dest, runs, least, overtaken, served, edits>>
      /\ \/ \E ok \in BOOLEAN : Continue(p, told(ok, Null)) /\ UNCHANGED <<drive, strays>>
         \/ /\ drive' = drive \union {proc[p].run}
            /\ Continue(p, told(TRUE, proc[p].run)) /\ UNCHANGED strays
         \/ /\ drive' = drive \union {proc[p].run}
            /\ \E ok \in BOOLEAN : Continue(p, told(ok, Null)) /\ strays' = strays \union {proc[p].run}
  BY DEF Deliver
<1> HIDE DEF told
<1>4. ASSUME NEW ok \in BOOLEAN, Continue(p, told(ok, Null)), UNCHANGED <<drive, strays>>
      PROVE  \E r \in Proc :
               /\ Continue(p, r) /\ StaysAtRow(p, r)
               /\ r.pc = "record" /\ r.row = proc[p].row /\ r.run = proc[p].run
               /\ r.remote = Null /\ UNCHANGED <<drive, strays>>
  BY <1>4, <1>2
<1>5. ASSUME NEW ok \in BOOLEAN, Continue(p, told(ok, Null)), drive' = drive \union {proc[p].run},
             strays' = strays \union {proc[p].run}
      PROVE  \E r \in Proc :
               /\ Continue(p, r) /\ StaysAtRow(p, r)
               /\ r.pc = "record" /\ r.row = proc[p].row /\ r.run = proc[p].run
               /\ r.remote = Null /\ drive' = drive \union {r.run} /\ strays' = strays \union {r.run}
  BY <1>5, <1>2
<1>6. ASSUME Continue(p, told(TRUE, proc[p].run)), drive' = drive \union {proc[p].run}, UNCHANGED strays
      PROVE  \E r \in Proc :
               /\ Continue(p, r) /\ StaysAtRow(p, r)
               /\ r.pc = "record" /\ r.row = proc[p].row /\ r.run = proc[p].run
               /\ r.remote = r.run /\ r.ok /\ drive' = drive \union {r.run} /\ UNCHANGED strays
  BY <1>1, <1>6, <1>2
<1> QED
  BY <1>1, <1>3, <1>4, <1>5, <1>6 DEF Doing

\* The row of the run, if it is there, gets its outcome.
Outcome(p) ==
    [runs[proc[p].run] EXCEPT !.status = IF proc[p].ok THEN "ok" ELSE "failed", !.remote = proc[p].remote]

LEMMA RecordSteps ==
    ASSUME BackupsTypeOK, NEW p \in Who, Record(p), proc[p].run \in DOMAIN runs
    PROVE  /\ \E r \in Proc : Continue(p, r) /\ Quiet(r) /\ StaysAtRow(p, r)
           /\ Doing(p, "record")
           /\ \/ runs[proc[p].run] = Null /\ runs' = runs
              \/ /\ runs[proc[p].run] \in Run
                 /\ Outcome(p) \in Run
                 /\ Outcome(p).d = runs[proc[p].run].d
                 /\ Outcome(p).status = (IF proc[p].ok THEN "ok" ELSE "failed")
                 /\ Outcome(p).remote = proc[p].remote
                 /\ runs' = [runs EXCEPT ![proc[p].run] = Outcome(p)]
           /\ UNCHANGED <<dest, drive, marks, edits>>
<1>1. /\ proc[p].pc = "record" /\ proc[p].pc \in AtRow /\ proc[p].todo \in SUBSET Row /\ proc[p].row \in Row
      /\ proc[p].run \in RunIds /\ proc[p].ok \in BOOLEAN /\ proc[p].remote \in RunIds \union {Null}
  BY ProcFields DEF Record, Doing, BackupsTypeOK, AtRow, Resting
<1>2. \E r \in Proc : Continue(p, r) /\ Quiet(r) /\ StaysAtRow(p, r)
  <2>1. PICK r : r = [pc |-> "list", todo |-> proc[p].todo, row |-> proc[p].row]
    OBVIOUS
  <2>2. r \in Proc /\ Quiet(r) /\ StaysAtRow(p, r)
    <3>1. r \in Proc /\ r.pc = "list" /\ r.todo = proc[p].todo /\ r.row = proc[p].row
      BY <1>1, <2>1 DEF Proc
    <3> QED
      BY <1>1, <3>1 DEF Quiet, StaysAtRow, RowsIn, AtRow, Resting
  <2>3. Continue(p, r) \/ Continue(p, Done(p, TRUE))
    BY <2>1 DEF Record
  <2> QED
    BY <1>1, <2>2, <2>3, DoneIsNext
<1>3. ASSUME runs[proc[p].run] # Null
      PROVE  /\ runs[proc[p].run] \in Run
             /\ Outcome(p) \in Run
             /\ Outcome(p).d = runs[proc[p].run].d
             /\ Outcome(p).status = (IF proc[p].ok THEN "ok" ELSE "failed")
             /\ Outcome(p).remote = proc[p].remote
             /\ runs' = [runs EXCEPT ![proc[p].run] = Outcome(p)]
  <2>1. runs[proc[p].run] \in Run
    BY <1>3, RunList
  <2>2. PICK x : x = runs[proc[p].run]
    OBVIOUS
  <2>3. PICK y : y = [x EXCEPT !.status = IF proc[p].ok THEN "ok" ELSE "failed", !.remote = proc[p].remote]
    OBVIOUS
  <2>4. /\ y \in Run /\ y.d = x.d /\ y.status = (IF proc[p].ok THEN "ok" ELSE "failed")
        /\ y.remote = proc[p].remote
    BY <1>1, <2>1, <2>2, <2>3 DEF Run
  <2>5. y = Outcome(p)
    BY <2>2, <2>3 DEF Outcome
  <2>6. runs' = [runs EXCEPT ![proc[p].run] = y]
    BY <1>3, <2>2, <2>3, RunList DEF Record
  <2> QED
    BY <2>1, <2>2, <2>4, <2>5, <2>6
<1>4. runs[proc[p].run] = Null => runs' = runs
  BY DEF Record
<1> QED
  BY <1>1, <1>2, <1>3, <1>4 DEF Record, Doing

LEMMA GoodRuns ==
    ASSUME BackupsTypeOK
    PROVE  \A d : /\ Good(d) \subseteq DOMAIN runs /\ IsFiniteSet(Good(d))
                  /\ \A r : Younger(r, Good(d)) \subseteq Good(d) /\ IsFiniteSet(Younger(r, Good(d)))
                  /\ \A r : Cardinality(Younger(r, Good(d))) \in Nat
<1> TAKE d
<1>1. Good(d) \subseteq DOMAIN runs
  BY DEF Good
<1>2. IsFiniteSet(Good(d))
  BY <1>1, RunList, FS_Subset
<1>3. \A r : Younger(r, Good(d)) \subseteq Good(d)
  BY DEF Younger
<1> QED
  BY <1>1, <1>2, <1>3, FS_Subset, FS_CardinalityType

\* The list: of good runs, as many younger ones being good as the row says to keep.
LEMMA ListSteps ==
    ASSUME BackupsTypeOK, NEW p \in Who, List(p)
    PROVE  /\ \E r \in Proc :
                /\ Continue(p, r) /\ StaysAtRow(p, r)
                /\ \/ Quiet(r)
                   \/ r.pc = "delete" /\ r.row = proc[p].row /\ r.stale = Stale(proc[p].row)
           /\ Doing(p, "list") /\ proc[p].row \in RowsIn(proc[p])
           /\ UNCHANGED <<dest, runs, drive, marks, edits>>
<1>1. proc[p].pc = "list" /\ proc[p].pc \in AtRow /\ proc[p].todo \in SUBSET Row /\ proc[p].row \in Row
  BY ProcFields DEF List, Doing, BackupsTypeOK, AtRow, Resting
<1>2. PICK r : r = [pc |-> "delete", todo |-> proc[p].todo, row |-> proc[p].row,
                    stale |-> Stale(proc[p].row)]
  OBVIOUS
<1>3. Stale(proc[p].row) \in SUBSET RunIds
  BY GoodRuns, RunList DEF Stale
<1>4. /\ r \in Proc /\ r.pc = "delete" /\ r.todo = proc[p].todo /\ r.row = proc[p].row
      /\ r.stale = Stale(proc[p].row)
  BY <1>1, <1>2, <1>3 DEF Proc
<1>5. StaysAtRow(p, r)
  BY <1>1, <1>4 DEF StaysAtRow, RowsIn, AtRow, Resting
<1>6. Continue(p, r) \/ Continue(p, Done(p, TRUE))
  BY <1>2 DEF List
<1> QED
  BY <1>1, <1>4, <1>5, <1>6, DoneIsNext DEF List, Doing, RowsIn

\* Nothing left; one file deleted; one file left, since Drive refused.
LEMMA DeleteFileSteps ==
    ASSUME BackupsTypeOK, NEW p \in Who, DeleteFile(p)
    PROVE  /\ \E r \in Proc :
                /\ Continue(p, r) /\ StaysAtRow(p, r)
                /\ \/ Quiet(r) /\ UNCHANGED drive
                   \/ /\ r.pc = "clear" /\ r.row = proc[p].row
                      /\ r.gone \in proc[p].stale /\ r.stale \subseteq proc[p].stale
                      /\ drive' = drive \ {r.gone}
                   \/ /\ r.pc = "delete" /\ r.row = proc[p].row /\ r.stale \subseteq proc[p].stale
                      /\ UNCHANGED drive
           /\ Doing(p, "delete")
           /\ UNCHANGED <<dest, runs, marks, edits>>
<1>1. /\ proc[p].pc = "delete" /\ proc[p].pc \in AtRow /\ proc[p].todo \in SUBSET Row /\ proc[p].row \in Row
      /\ proc[p].stale \in SUBSET RunIds /\ proc[p] \in Proc
  BY ProcFields DEF DeleteFile, Doing, BackupsTypeOK, AtRow, Resting
<1>2. CASE Continue(p, Done(p, TRUE)) /\ UNCHANGED drive
  BY <1>1, <1>2, DoneIsNext DEF DeleteFile, Doing
<1>3. ASSUME NEW g \in proc[p].stale, drive' = drive \ {g},
             Continue(p, [pc |-> "clear", todo |-> proc[p].todo, row |-> proc[p].row,
                          stale |-> proc[p].stale \ {g}, gone |-> g])
      PROVE  \E r \in Proc :
                /\ Continue(p, r) /\ StaysAtRow(p, r)
                /\ r.pc = "clear" /\ r.row = proc[p].row
                /\ r.gone \in proc[p].stale /\ r.stale \subseteq proc[p].stale
                /\ drive' = drive \ {r.gone}
  <2>1. PICK r : r = [pc |-> "clear", todo |-> proc[p].todo, row |-> proc[p].row,
                      stale |-> proc[p].stale \ {g}, gone |-> g]
    OBVIOUS
  <2>2. /\ r \in Proc /\ r.pc = "clear" /\ r.todo = proc[p].todo /\ r.row = proc[p].row
        /\ r.gone = g /\ r.stale \subseteq proc[p].stale
    BY <1>1, <2>1 DEF Proc
  <2>3. StaysAtRow(p, r)
    BY <1>1, <2>2 DEF StaysAtRow, RowsIn, AtRow, Resting
  <2> QED
    BY <1>3, <2>1, <2>2, <2>3
<1>4. ASSUME NEW g \in proc[p].stale, UNCHANGED drive,
             Continue(p, [proc[p] EXCEPT !.stale = @ \ {g}])
      PROVE  \E r \in Proc :
                /\ Continue(p, r) /\ StaysAtRow(p, r)
                /\ r.pc = "delete" /\ r.row = proc[p].row /\ r.stale \subseteq proc[p].stale
                /\ UNCHANGED drive
  <2>0. PICK q : q = proc[p]
    OBVIOUS
  <2>1. PICK r : r = [q EXCEPT !.stale = q.stale \ {g}]
    OBVIOUS
  <2>2. q \in [pc : {"delete"}, todo : SUBSET Row, row : Row, stale : SUBSET RunIds]
    BY <1>1, <2>0 DEF Proc
  <2>3. /\ r \in [pc : {"delete"}, todo : SUBSET Row, row : Row, stale : SUBSET RunIds]
        /\ r.pc = "delete" /\ r.todo = q.todo /\ r.row = q.row /\ r.stale \subseteq q.stale
    BY <2>1, <2>2
  <2>4. r \in Proc
    BY <2>3 DEF Proc
  <2>5. StaysAtRow(p, r)
    BY <1>1, <2>0, <2>3 DEF StaysAtRow, RowsIn, AtRow, Resting
  <2>6. Continue(p, r)
    BY <1>4, <2>0, <2>1
  <2> QED
    BY <1>4, <2>0, <2>3, <2>4, <2>5, <2>6
<1>5. \/ Continue(p, Done(p, TRUE)) /\ UNCHANGED drive
      \/ \E g \in proc[p].stale :
           \/ /\ drive' = drive \ {g}
              /\ Continue(p, [pc |-> "clear", todo |-> proc[p].todo, row |-> proc[p].row,
                              stale |-> proc[p].stale \ {g}, gone |-> g])
           \/ UNCHANGED drive /\ Continue(p, [proc[p] EXCEPT !.stale = @ \ {g}])
  BY DEF DeleteFile
<1> QED
  BY <1>1, <1>2, <1>3, <1>4, <1>5 DEF DeleteFile, Doing

\* The run whose file is gone forgets its id.
Forgotten(p) == [runs[proc[p].gone] EXCEPT !.remote = Null]

LEMMA ClearSteps ==
    ASSUME BackupsTypeOK, NEW p \in Who, Clear(p), proc[p].gone \in DOMAIN runs
    PROVE  /\ \E r \in Proc :
                /\ Continue(p, r) /\ StaysAtRow(p, r)
                /\ r.pc = "delete" /\ r.row = proc[p].row /\ r.stale = proc[p].stale
           /\ Doing(p, "clear")
           /\ \/ runs[proc[p].gone] = Null /\ runs' = runs
              \/ /\ runs[proc[p].gone] \in Run
                 /\ Forgotten(p) \in Run
                 /\ Forgotten(p).d = runs[proc[p].gone].d
                 /\ Forgotten(p).status = runs[proc[p].gone].status
                 /\ Forgotten(p).remote = Null
                 /\ runs' = [runs EXCEPT ![proc[p].gone] = Forgotten(p)]
           /\ UNCHANGED <<dest, drive, marks, edits>>
<1>1. /\ proc[p].pc = "clear" /\ proc[p].pc \in AtRow /\ proc[p].todo \in SUBSET Row /\ proc[p].row \in Row
      /\ proc[p].stale \in SUBSET RunIds
  BY ProcFields DEF Clear, Doing, BackupsTypeOK, AtRow, Resting
<1>2. PICK r : r = [pc |-> "delete", todo |-> proc[p].todo, row |-> proc[p].row, stale |-> proc[p].stale]
  OBVIOUS
<1>3. r \in Proc /\ r.pc = "delete" /\ r.todo = proc[p].todo /\ r.row = proc[p].row /\ r.stale = proc[p].stale
  BY <1>1, <1>2 DEF Proc
<1>4. Continue(p, r) /\ StaysAtRow(p, r)
  BY <1>1, <1>2, <1>3 DEF Clear, StaysAtRow, RowsIn, AtRow, Resting
<1>5. ASSUME runs[proc[p].gone] # Null
      PROVE  /\ runs[proc[p].gone] \in Run
             /\ Forgotten(p) \in Run
             /\ Forgotten(p).d = runs[proc[p].gone].d
             /\ Forgotten(p).status = runs[proc[p].gone].status
             /\ Forgotten(p).remote = Null
             /\ runs' = [runs EXCEPT ![proc[p].gone] = Forgotten(p)]
  <2>1. runs[proc[p].gone] \in Run
    BY <1>5, RunList
  <2>2. PICK x : x = runs[proc[p].gone]
    OBVIOUS
  <2>3. PICK y : y = [x EXCEPT !.remote = Null]
    OBVIOUS
  <2>4. y \in Run /\ y.d = x.d /\ y.status = x.status /\ y.remote = Null
    BY <2>1, <2>2, <2>3 DEF Run
  <2>5. y = Forgotten(p)
    BY <2>2, <2>3 DEF Forgotten
  <2>6. runs' = [runs EXCEPT ![proc[p].gone] = y]
    BY <1>5, <2>2, <2>3, RunList DEF Clear
  <2> QED
    BY <2>1, <2>2, <2>4, <2>5, <2>6
<1>6. runs[proc[p].gone] = Null => runs' = runs
  BY DEF Clear
<1> QED
  BY <1>1, <1>3, <1>4, <1>5, <1>6 DEF Clear, Doing

LEMMA AdvanceSteps ==
    ASSUME BackupsTypeOK, Advance
    PROVE  /\ \E r \in Proc :
                /\ Continue("worker", r) /\ Quiet(r)
                /\ r.pc \in {"idle", "next", "no dump"}
                /\ r.pc # "idle" => r.todo = proc["worker"].todo
                /\ RowsIn(r) \subseteq proc["worker"].todo
           /\ Doing("worker", "advance")
           /\ proc["worker"].row \in Row /\ proc["worker"].row \in RowsIn(proc["worker"])
           /\ proc["worker"].todo \subseteq RowsIn(proc["worker"])
           /\ dest' = Advanced(proc["worker"].row)
           /\ dest' \in [Destinations -> Destination \union {Null}]
           /\ UNCHANGED <<runs, drive, marks, edits>>
<1>1. /\ proc["worker"].pc = "advance" /\ proc["worker"].todo \in SUBSET Row
      /\ proc["worker"].row \in Row /\ proc["worker"].dumped \in BOOLEAN
  BY ProcFields DEF Advance, Doing, BackupsTypeOK, AtRow, Resting, Who
<1>2. PICK r : r = [pc |-> IF proc["worker"].dumped THEN "next" ELSE "no dump", todo |-> proc["worker"].todo]
  OBVIOUS
<1>3. r \in Proc /\ r.pc \in {"next", "no dump"} /\ r.todo = proc["worker"].todo
  BY <1>1, <1>2 DEF Proc
<1>4. Quiet(r) /\ RowsIn(r) \subseteq proc["worker"].todo
  BY <1>3 DEF Quiet, RowsIn, AtRow, Resting
<1>5. Quiet(AtRest) /\ RowsIn(AtRest) = {}
  BY AtRestIsProc DEF Quiet, RowsIn, AtRow, Resting
<1>6. Continue("worker", r) \/ Continue("worker", AtRest)
  BY <1>2 DEF Advance
<1>7. dest' \in [Destinations -> Destination \union {Null}]
  <2>1. CASE Exists(proc["worker"].row.d)
    <3>1. PICK row : row = [dest[proc["worker"].row.d] EXCEPT !.next = Scheduled(proc["worker"].row.schedule)]
      OBVIOUS
    <3>2. row \in Destination
      BY <1>1, <2>1, <3>1, Destined, RowFields, ScheduledNext DEF Destination
    <3>3. dest' = [dest EXCEPT ![proc["worker"].row.d] = row]
      BY <2>1, <3>1, <1>1, RowFields DEF Advance, Advanced, BackupsTypeOK
    <3> QED
      BY <3>2, <3>3 DEF BackupsTypeOK
  <2>2. CASE ~Exists(proc["worker"].row.d)
    BY <2>2 DEF Advance, Advanced, BackupsTypeOK
  <2> QED
    BY <2>1, <2>2
<1> QED
  BY <1>1, <1>3, <1>4, <1>5, <1>6, <1>7, AtRestIsProc DEF Advance, Doing, RowsIn, AtRow, Resting

LEMMA NextBackupsTypes ==
    ASSUME BackupsTypeOK, RunsUnderWay, DoomedIsOld, [BackupsNext]_backupsVars
    PROVE  BackupsTypeOK'
<1>1. ASSUME NEW p \in Who, \/ Deliver(p) \/ Record(p) \/ List(p) \/ DeleteFile(p) \/ Clear(p)
      PROVE  BackupsTypeOK'
  <2>1. CASE Deliver(p)
    <3>1. PICK r \in Proc :
            /\ Continue(p, r) /\ Doing(p, "upload") /\ r.run = proc[p].run
            /\ \/ r.remote = Null /\ UNCHANGED <<drive, strays>>
               \/ r.remote = r.run /\ r.ok /\ drive' = drive \union {r.run} /\ UNCHANGED strays
               \/ r.remote = Null /\ drive' = drive \union {r.run} /\ strays' = strays \union {r.run}
            /\ UNCHANGED <<dest, runs, least, overtaken, served, edits>>
      BY <2>1, DeliverSteps
    <3>2. r.run \in RunIds
      BY <3>1, ProcFields DEF Doing, BackupsTypeOK
    <3>3. drive' \in SUBSET RunIds /\ strays' \in SUBSET RunIds
      BY <3>1, <3>2 DEF BackupsTypeOK
    <3> QED
      BY <3>1, <3>3, ProcStepTypes DEF BackupsTypeOK
  <2>2. CASE Record(p)
    <3>1. proc[p].run \in DOMAIN runs
      BY <2>2 DEF Record, Doing, RunsUnderWay, RunsIn
    <3>2. runs' \in Seq(Run \union {Null}) /\ Len(runs') <= MaxRuns
      BY <2>2, <3>1, RecordSteps, RunRewritten DEF BackupsTypeOK
    <3> QED
      BY <2>2, <3>1, <3>2, RecordSteps, ProcStepTypes DEF BackupsTypeOK, marks
  <2>3. CASE List(p)
    BY <2>3, ListSteps, ProcStepTypes DEF BackupsTypeOK, marks
  <2>4. CASE DeleteFile(p)
    <3>1. drive' \in SUBSET RunIds
      BY <2>4, DeleteFileSteps DEF BackupsTypeOK
    <3> QED
      BY <2>4, <3>1, DeleteFileSteps, ProcStepTypes DEF BackupsTypeOK, marks
  <2>5. CASE Clear(p)
    <3>1. proc[p].gone \in DOMAIN runs
      BY <2>5 DEF Clear, Doing, DoomedIsOld, DoomedIn
    <3>2. runs' \in Seq(Run \union {Null}) /\ Len(runs') <= MaxRuns
      BY <2>5, <3>1, ClearSteps, RunRewritten DEF BackupsTypeOK
    <3> QED
      BY <2>5, <3>1, <3>2, ClearSteps, ProcStepTypes DEF BackupsTypeOK, marks
  <2> QED
    BY <1>1, <2>1, <2>2, <2>3, <2>4, <2>5
<1>2. CASE Advance
  <2>1. PICK r \in Proc : Continue("worker", r)
    BY <1>2, AdvanceSteps
  <2>2. proc' \in [Who -> Proc]
    BY <2>1, OneProc DEF Who
  <2> QED
    BY <1>2, <2>2, AdvanceSteps DEF BackupsTypeOK, marks
<1>3. CASE UNCHANGED backupsVars
  BY <1>3 DEF backupsVars, marks, BackupsTypeOK
<1>4. ASSUME \/ Boot \/ Poll \/ HangUp \/ Crash
             \/ \E d \in Destinations : RunNow(d) \/ Tick(d)
      PROVE  BackupsTypeOK'
  BY <1>4, ClockTypes
<1>5. ASSUME FailRun \/ \E p \in Who : Start(p) PROVE BackupsTypeOK'
  BY <1>5, StartTypes
<1>6. ASSUME NEW d \in Destinations, NEW s \in Schedules, NEW k \in Retains \union {0},
             (\E kind \in Kind : Create(d, kind, s, k)) \/ (\E on \in BOOLEAN : Update(d, s, k, on))
      PROVE  BackupsTypeOK'
  BY <1>6, AdminTypes
<1>7. ASSUME NEW d \in Destinations, Delete(d) PROVE BackupsTypeOK'
  BY <1>7, DeleteTypes
<1> QED
  BY <1>1, <1>2, <1>3, <1>4, <1>5, <1>6, <1>7 DEF BackupsNext

-----------------------------------------------------------------------------
(* Backups: the schedule.                                                  *)

LEMMA InitSchedule == BackupsInit => ScheduleInv
<1> SUFFICES ASSUME BackupsInit PROVE ScheduleInv
  OBVIOUS
<1>1. BackupsTypeOK
  BY InitBackupsTypes
<1>2. PICK old \in SUBSET Destinations, deleted \in SUBSET Destinations, kind \in Kind, s \in Schedules,
           k \in Retains, on \in BOOLEAN :
        /\ dest = [d \in Destinations |->
             IF d \in old THEN [kind |-> kind, schedule |-> s, retain |-> k, enabled |-> on, next |-> Null]
             ELSE Null]
        /\ least = [d \in Destinations |-> IF d \in old \union deleted THEN k ELSE Null]
  BY DEF BackupsInit
<1>3. k \in Nat /\ k # Null
  BY RetainsAssumption, NullAssumption
<1>4. CountKnown
  BY <1>2, <1>3 DEF CountKnown, Exists
<1>5. NextBySchedule
  BY <1>2 DEF NextBySchedule, Exists
<1>6. /\ proc["worker"] = [pc |-> "boot"] /\ proc["manual"] = AtRest
      /\ Doing("worker", "boot") /\ served = {}
  BY DEF BackupsInit, Who, Doing
<1>7. \A p \in Who : RowsIn(proc[p]) = {}
  BY <1>6, AtRestIsProc DEF Who, RowsIn, Resting, AtRow
<1>8. RowsRead /\ NotServedYet /\ NextFollowsSchedule
  BY <1>6, <1>7 DEF RowsRead, NotServedYet, NextFollowsSchedule, Resting, Doing
<1> QED
  BY <1>4, <1>5, <1>8 DEF ScheduleInv

\* p goes on with what it has in hand.
LEMMA StaysAtRowSchedule ==
    ASSUME BackupsTypeOK, ScheduleInv, NEW p \in Who, NEW r \in Proc, Continue(p, r), StaysAtRow(p, r),
           p = "worker" => proc[p].pc \in AtRow,
           UNCHANGED <<dest, least, overtaken, served>>
    PROVE  ScheduleInv'
<1>1. proc'[p] = r /\ \A q \in Who \ {p} : proc'[q] = proc[q]
  BY OneProc
<1>2. \A q \in Who : RowsIn(proc'[q]) \subseteq RowsIn(proc[q])
  BY <1>1 DEF StaysAtRow
<1>3. RowsRead'
  BY <1>2 DEF ScheduleInv, RowsRead, Exists
<1>4. CountKnown' /\ NextBySchedule'
  BY DEF ScheduleInv, CountKnown, NextBySchedule, Exists
<1>5. \/ proc'["worker"] = proc["worker"]
      \/ /\ proc["worker"].pc \in AtRow /\ proc'["worker"].pc \in AtRow
         /\ proc'["worker"].todo = proc["worker"].todo /\ proc'["worker"].row = proc["worker"].row
  BY <1>1 DEF StaysAtRow, Who
<1>6. NotServedYet'
  BY <1>5 DEF ScheduleInv, NotServedYet, Exists, AtRow, Resting
<1>7. Doing("worker", "boot") <=> Doing("worker", "boot")'
  BY <1>5 DEF Doing, AtRow
<1>8. NextFollowsSchedule'
  BY <1>7 DEF ScheduleInv, NextFollowsSchedule, Exists
<1> QED
  BY <1>3, <1>4, <1>6, <1>8 DEF ScheduleInv

\* The worker turns to a row of its list.
LEMMA TakesRowSchedule ==
    ASSUME BackupsTypeOK, ScheduleInv, NEW r \in Proc, Continue("worker", r),
           proc["worker"].pc \in {"next", "no dump"}, NEW row \in proc["worker"].todo,
           r.pc \in AtRow, r.row = row, r.todo = proc["worker"].todo \ {row},
           served' \subseteq served \union {row.d},
           UNCHANGED <<dest, least, overtaken>>
    PROVE  ScheduleInv'
<1>1. proc'["worker"] = r /\ \A q \in Who \ {"worker"} : proc'[q] = proc[q]
  BY OneProc DEF Who
<1>2. \A q \in Who : RowsIn(proc'[q]) \subseteq RowsIn(proc[q])
  BY <1>1 DEF RowsIn, Resting, AtRow
<1>3. RowsRead'
  BY <1>2 DEF ScheduleInv, RowsRead, Exists
<1>4. CountKnown' /\ NextBySchedule'
  BY DEF ScheduleInv, CountKnown, NextBySchedule, Exists
<1>5. /\ \A x \in proc["worker"].todo : x.d \notin served
      /\ \A a, b \in proc["worker"].todo : a.d = b.d => a = b
      /\ \A d \in served : ~(Exists(d) /\ dest[d].next # Null /\ dest[d].next.due)
  BY DEF ScheduleInv, NotServedYet, Resting, AtRow
<1>6. \A x \in r.todo : x.d \notin served'
  BY <1>5
<1>7. \A d \in served' : Exists(d)' /\ dest'[d].next # Null /\ dest'[d].next.due => d = row.d
  BY <1>5 DEF Exists
<1>8. NotServedYet'
  BY <1>1, <1>5, <1>6, <1>7 DEF NotServedYet
<1>9. NextFollowsSchedule'
  BY <1>1 DEF ScheduleInv, NextFollowsSchedule, Exists, Doing
<1> QED
  BY <1>3, <1>4, <1>8, <1>9 DEF ScheduleInv

\* Whose row the worker has in hand.
LEMMA HandsSeen ==
    ASSUME BackupsTypeOK, NEW d \in Destinations
    PROVE  InHand(d) <=> \E row \in RowsIn(proc["worker"]) : row.d = d
<1>1. proc["worker"] \in Proc
  BY DEF BackupsTypeOK, Who
<1>2. proc["worker"].pc \in AtRow <=> "row" \in DOMAIN proc["worker"]
  BY <1>1, ProcFields
<1>3. proc["worker"].pc \in AtRow => proc["worker"].pc \notin Resting
  BY DEF AtRow, Resting
<1> QED
  BY <1>2, <1>3 DEF InHand, RowsIn, Resting

\* The row a create or an update leaves, and the smallest count it was told.
Edited(d, s, k, row, low) ==
    /\ dest' = [dest EXCEPT ![d] = row] /\ least' = [least EXCEPT ![d] = low]
    /\ row # Null /\ row.schedule = s /\ row.retain = k
    /\ low # Null /\ low <= k /\ low \in Nat
    /\ row.next # Null => row.next.by = s /\ ~row.next.due
    /\ row.enabled => row.next # Null
    /\ least[d] # Null => low <= least[d]
    /\ UNCHANGED <<proc, served>>
    /\ overtaken' \in {overtaken, overtaken \union {d}, overtaken \ {d}}
    /\ InHand(d) => d \in overtaken' \/ least[d] = Null

LEMMA AdminSchedule ==
    ASSUME BackupsTypeOK, ScheduleInv, NEW d \in Destinations, NEW s \in Schedules, NEW k \in Retains,
           \/ \E kind \in Kind : Create(d, kind, s, k)
           \/ \E on \in BOOLEAN : Update(d, s, k, on)
    PROVE  ScheduleInv'
<1>0. k \in Nat /\ k # Null
  BY RetainsAssumption, NullAssumption
<1>1. PICK row, low : Edited(d, s, k, row, low)
  <2>1. ASSUME NEW kind \in Kind, Create(d, kind, s, k)
        PROVE  \E row, low : Edited(d, s, k, row, low)
    <3>1. PICK row : row = [kind |-> kind, schedule |-> s, retain |-> k, enabled |-> TRUE, next |-> Scheduled(s)]
      OBVIOUS
    <3>2. row \in Destination
      BY <3>1, ScheduledNext DEF Destination
    <3>3. row # Null
      BY <3>2, NullAssumption
    <3>4. row.schedule = s /\ row.retain = k /\ row.next = Scheduled(s)
      BY <3>1
    <3>5. /\ dest' = [dest EXCEPT ![d] = row] /\ least' = [least EXCEPT ![d] = k] /\ least[d] = Null
          /\ UNCHANGED <<proc, served, overtaken>>
      BY <2>1, <3>1 DEF Create
    <3>6. row.next # Null /\ row.next.by = s /\ ~row.next.due
      BY <3>4, ScheduledNext
    <3>7. Edited(d, s, k, row, k)
      BY <1>0, <3>3, <3>4, <3>5, <3>6 DEF Edited
    <3> QED
      BY <3>7
  <2>2. ASSUME NEW on \in BOOLEAN, Update(d, s, k, on)
        PROVE  \E row, low : Edited(d, s, k, row, low)
    <3>0. Exists(d) /\ dest[d].kind \in Kind
      BY <2>2, Destined DEF Update
    <3>1. PICK row : row = [kind |-> dest[d].kind, schedule |-> s, retain |-> k, enabled |-> on,
                            next |-> NextOnEdit(d, s, on)]
      OBVIOUS
    <3>2. row \in Destination
      BY <3>0, <3>1, ScheduledNext DEF Destination, NextOnEdit
    <3>3. row # Null
      BY <3>2, NullAssumption
    <3>4. /\ row.schedule = s /\ row.retain = k /\ row.enabled = on
          /\ row.next # Null => row.next.by = s /\ ~row.next.due
          /\ row.enabled => row.next # Null
      <4>1. row.next = NextOnEdit(d, s, on) /\ row.schedule = s /\ row.retain = k /\ row.enabled = on
        BY <3>1
      <4>2. on => NextOnEdit(d, s, on) = Scheduled(s)
        BY DEF NextOnEdit
      <4>3. ~on => NextOnEdit(d, s, on) = Null
        BY DEF NextOnEdit
      <4> QED
        BY <4>1, <4>2, <4>3, ScheduledNext
    <3>5. least[d] # Null /\ least[d] \in Nat
      BY <3>0, Destined DEF ScheduleInv, CountKnown
    <3>6. PICK low : low = IF k < least[d] THEN k ELSE least[d]
      OBVIOUS
    <3>7. low # Null /\ low <= k /\ low \in Nat /\ low <= least[d]
      BY <1>0, <3>5, <3>6
    <3>8. /\ dest' = [dest EXCEPT ![d] = row] /\ least' = [least EXCEPT ![d] = low]
          /\ UNCHANGED <<proc, served>>
          /\ overtaken' = IF InHand(d) THEN overtaken \union {d} ELSE overtaken \ {d}
      BY <2>2, <3>1, <3>6 DEF Update, BackupsTypeOK
    <3> QED
      BY <3>3, <3>4, <3>7, <3>8 DEF Edited
  <2> QED
    BY <2>1, <2>2
<1>2. /\ dest'[d] = row /\ least'[d] = low
      /\ \A e \in Destinations \ {d} : dest'[e] = dest[e] /\ least'[e] = least[e] /\ (e \in overtaken' <=> e \in overtaken)
  BY <1>1 DEF BackupsTypeOK, Edited
<1>9. /\ row # Null /\ row.schedule = s /\ row.retain = k
      /\ low # Null /\ low <= k /\ low \in Nat
      /\ row.next # Null => row.next.by = s /\ ~row.next.due
      /\ row.enabled => row.next # Null
      /\ least[d] # Null => low <= least[d]
      /\ UNCHANGED <<proc, served>>
      /\ InHand(d) => d \in overtaken' \/ least[d] = Null
  BY <1>1 DEF Edited
<1>3. \A e \in Destinations \ {d} : Exists(e)' <=> Exists(e)
  BY <1>2 DEF Exists
<1>4. CountKnown'
  BY <1>9, <1>2, <1>3 DEF ScheduleInv, CountKnown
<1>5. NextBySchedule'
  BY <1>9, <1>2, <1>3 DEF ScheduleInv, NextBySchedule
<1>6. RowsRead'
  <2>1. SUFFICES ASSUME NEW p \in Who, NEW x \in RowsIn(proc[p])
                 PROVE  /\ least'[x.d] # Null /\ least'[x.d] <= x.retain
                        /\ p = "worker" /\ Exists(x.d)' => x.schedule = dest'[x.d].schedule \/ x.d \in overtaken'
    BY <1>9 DEF RowsRead
  <2>2. /\ least[x.d] # Null /\ least[x.d] <= x.retain
        /\ p = "worker" /\ Exists(x.d) => x.schedule = dest[x.d].schedule \/ x.d \in overtaken
    BY DEF ScheduleInv, RowsRead
  <2>3. x.d \in Destinations /\ x.retain \in Nat
    BY HandsFull, RowFields, RetainsAssumption DEF BackupsTypeOK
  <2>4. CASE x.d = d
    <3>1. p = "worker" => InHand(d)
      BY <2>4, HandsSeen
    <3>2. least[d] \in Nat
      BY <2>2, <2>4, Destined
    <3> QED
      BY <1>9, <1>2, <2>2, <2>3, <2>4, <3>1, <3>2
  <2>5. CASE x.d # d
    BY <1>2, <1>3, <2>2, <2>3, <2>5
  <2> QED
    BY <2>4, <2>5
<1>7. NotServedYet'
  <2>1. \A e \in served : Exists(e)' /\ dest'[e].next # Null /\ dest'[e].next.due =>
           Exists(e) /\ dest[e].next # Null /\ dest[e].next.due
    BY <1>9, <1>2, <1>3 DEF BackupsTypeOK
  <2> QED
    BY <1>9, <2>1 DEF ScheduleInv, NotServedYet
<1>8. NextFollowsSchedule'
  BY <1>9, <1>2, <1>3, <1>5 DEF ScheduleInv, NextFollowsSchedule, NextBySchedule, Doing
<1> QED
  BY <1>4, <1>5, <1>6, <1>7, <1>8 DEF ScheduleInv

LEMMA DeleteSchedule ==
    ASSUME BackupsTypeOK, ScheduleInv, NEW d \in Destinations, Delete(d)
    PROVE  ScheduleInv'
<1>1. /\ UNCHANGED <<proc, least, overtaken, served>>
      /\ \A e \in Destinations : Exists(e)' => Exists(e) /\ dest'[e] = dest[e]
  BY DEF Delete, marks, Exists, BackupsTypeOK
<1>2. \A p \in Who : \A x \in RowsIn(proc[p]) : x.d \in Destinations
  BY HandsFull, RowFields DEF BackupsTypeOK
<1>3. CountKnown' /\ NextBySchedule' /\ NextFollowsSchedule'
  BY <1>1 DEF ScheduleInv, CountKnown, NextBySchedule, NextFollowsSchedule, Doing
<1>4. RowsRead'
  BY <1>1, <1>2 DEF ScheduleInv, RowsRead
<1>5. NotServedYet'
  BY <1>1 DEF ScheduleInv, NotServedYet, BackupsTypeOK
<1> QED
  BY <1>3, <1>4, <1>5 DEF ScheduleInv

LEMMA BootSchedule ==
    ASSUME BackupsTypeOK, ScheduleInv, Boot
    PROVE  ScheduleInv'
<1>1. /\ proc'["worker"] = AtRest /\ \A q \in Who \ {"worker"} : proc'[q] = proc[q]
      /\ UNCHANGED <<least, overtaken, served>>
      /\ proc["worker"].pc = "boot"
  BY OneProc, AtRestIsProc DEF Boot, Who, marks, Doing
<1>2. ASSUME NEW d \in Destinations
      PROVE  /\ Exists(d)' <=> Exists(d)
             /\ Exists(d) => /\ dest'[d].schedule = dest[d].schedule /\ dest'[d].retain = dest[d].retain
                             /\ dest'[d].enabled = dest[d].enabled
                             /\ dest'[d].next \in {dest[d].next, Scheduled(dest[d].schedule)}
                             /\ dest[d].enabled => dest'[d].next # Null
                             /\ dest'[d].next # Null /\ dest'[d].next.due => dest'[d] = dest[d]
  <2>1. CASE Exists(d) /\ dest[d].enabled /\ dest[d].next = Null
    <3>1. PICK row : row = [dest[d] EXCEPT !.next = Scheduled(dest[d].schedule)]
      OBVIOUS
    <3>2. dest'[d] = row
      BY <2>1, <3>1 DEF Boot
    <3>3. dest[d] \in Destination /\ dest[d].schedule \in Schedules
      BY <2>1, Destined
    <3>4. /\ row \in Destination
          /\ row.schedule = dest[d].schedule /\ row.retain = dest[d].retain
          /\ row.enabled = dest[d].enabled /\ row.next = Scheduled(dest[d].schedule)
      BY <3>1, <3>3, ScheduledNext DEF Destination
    <3>5. row # Null
      BY <3>4, NullAssumption
    <3> QED
      BY <2>1, <3>2, <3>3, <3>4, <3>5, ScheduledNext DEF Exists
  <2>2. CASE ~(Exists(d) /\ dest[d].enabled /\ dest[d].next = Null)
    <3>1. dest'[d] = dest[d]
      BY <2>2 DEF Boot
    <3> QED
      BY <2>2, <3>1 DEF Exists
  <2> QED
    BY <2>1, <2>2
<1>3. CountKnown'
  BY <1>1, <1>2 DEF ScheduleInv, CountKnown
<1>4. NextBySchedule'
  BY <1>1, <1>2, Destined, ScheduledNext DEF ScheduleInv, NextBySchedule
<1>5. \A q \in Who : RowsIn(proc'[q]) \subseteq RowsIn(proc[q]) /\ RowsIn(proc[q]) \subseteq Row
  BY <1>1, AtRestIsProc, HandsFull DEF RowsIn, Resting, AtRow, BackupsTypeOK
<1>6. RowsRead'
  BY <1>1, <1>2, <1>5, RowFields DEF ScheduleInv, RowsRead
<1>7. NotServedYet'
  BY <1>1, <1>2, AtRestIsProc DEF ScheduleInv, NotServedYet, Resting, AtRow, BackupsTypeOK
<1>8. NextFollowsSchedule'
  BY <1>2, <1>4 DEF NextFollowsSchedule, NextBySchedule
<1> QED
  BY <1>3, <1>4, <1>6, <1>7, <1>8 DEF ScheduleInv

\* The worker's list, and the one row of "Run now".
Listed(p, r, ds) ==
    /\ Continue(p, r) /\ proc[p] = AtRest
    /\ r.pc \in {"next", "no dump"} /\ r.todo = {RowOf(d) : d \in ds}
    /\ \A d \in ds : Exists(d)
    /\ p = "worker" => ds = Due
    /\ UNCHANGED <<dest, least, overtaken, served>>

LEMMA ListedSchedule ==
    ASSUME BackupsTypeOK, ScheduleInv,
           \/ Poll
           \/ \E d \in Destinations : RunNow(d)
    PROVE  ScheduleInv'
<1>1. PICK p \in Who, r \in Proc, ds \in SUBSET Destinations : Listed(p, r, ds)
  <2>1. CASE Poll
    <3>1. PICK dumped \in BOOLEAN :
            Continue("worker", [pc |-> IF dumped THEN "next" ELSE "no dump", todo |-> {RowOf(d) : d \in Due}])
      BY <2>1 DEF Poll
    <3>2. PICK r : r = [pc |-> IF dumped THEN "next" ELSE "no dump", todo |-> {RowOf(d) : d \in Due}]
      OBVIOUS
    <3>3. r \in Proc /\ r.pc \in {"next", "no dump"} /\ r.todo = {RowOf(d) : d \in Due}
      BY <3>2, RowsDueAreRows DEF Proc
    <3>4. Due \in SUBSET Destinations /\ \A d \in Due : Exists(d)
      BY DEF Due
    <3>5. Listed("worker", r, Due)
      BY <2>1, <3>1, <3>2, <3>3, <3>4 DEF Poll, marks, Listed
    <3> QED
      BY <3>3, <3>4, <3>5 DEF Who
  <2>2. ASSUME NEW d \in Destinations, RunNow(d)
        PROVE  \E p \in Who, r \in Proc, ds \in SUBSET Destinations : Listed(p, r, ds)
    <3>1. PICK r : r = [pc |-> "next", todo |-> {RowOf(d)}]
      OBVIOUS
    <3>2. r \in Proc /\ r.pc = "next" /\ r.todo = {RowOf(e) : e \in {d}}
      BY <2>2, <3>1, Destined DEF Proc, RunNow
    <3>3. Listed("manual", r, {d})
      BY <2>2, <3>1, <3>2 DEF RunNow, marks, Listed
    <3>4. {d} \in SUBSET Destinations /\ "manual" \in Who
      BY DEF Who
    <3> QED
      BY <3>2, <3>3, <3>4
  <2> QED
    BY <2>1, <2>2
<1>9. /\ Continue(p, r) /\ proc[p] = AtRest
      /\ r.pc \in {"next", "no dump"} /\ r.todo = {RowOf(d) : d \in ds}
      /\ \A d \in ds : Exists(d)
      /\ p = "worker" => ds = Due
      /\ UNCHANGED <<dest, least, overtaken, served>>
  BY <1>1 DEF Listed
<1>2. proc'[p] = r /\ \A q \in Who \ {p} : proc'[q] = proc[q]
  BY <1>9, OneProc
<1>3. RowsIn(r) = {RowOf(d) : d \in ds}
  BY <1>9 DEF RowsIn, Resting, AtRow
<1>4. \A d \in ds : /\ RowOf(d).d = d /\ RowOf(d).schedule = dest[d].schedule
                    /\ RowOf(d).retain = dest[d].retain
  BY Destined
<1>5. RowsRead'
  <2>1. SUFFICES ASSUME NEW q \in Who, NEW x \in RowsIn(proc'[q])
                 PROVE  /\ least[x.d] # Null /\ least[x.d] <= x.retain
                        /\ q = "worker" /\ Exists(x.d) => x.schedule = dest[x.d].schedule \/ x.d \in overtaken
    BY <1>9 DEF RowsRead, Exists
  <2>2. CASE q = p
    <3>1. PICK d \in ds : x = RowOf(d)
      BY <1>2, <1>3, <2>2
    <3>2. Exists(d) /\ d \in Destinations
      BY <1>9, <3>1
    <3> QED
      BY <1>4, <3>1, <3>2 DEF ScheduleInv, CountKnown
  <2>3. CASE q # p
    BY <1>2, <2>3 DEF ScheduleInv, RowsRead
  <2> QED
    BY <2>2, <2>3
<1>6. CountKnown' /\ NextBySchedule'
  BY <1>9 DEF ScheduleInv, CountKnown, NextBySchedule, Exists
<1>7. NotServedYet'
  <2>1. CASE p # "worker"
    BY <1>9, <1>2, <2>1 DEF ScheduleInv, NotServedYet, Exists, Who
  <2>2. CASE p = "worker"
    <3>1. \A d \in served : ~(Exists(d) /\ dest[d].next # Null /\ dest[d].next.due)
      BY <1>9, <2>2, AtRestIsProc DEF ScheduleInv, NotServedYet, AtRow
    <3>2. \A d \in ds : d \notin served
      BY <1>9, <2>2, <3>1 DEF Due
    <3>3. proc'["worker"].todo = {RowOf(d) : d \in ds}
      BY <1>9, <1>2, <2>2
    <3>4. \A row \in proc'["worker"].todo : row.d \notin served
      BY <1>4, <3>2, <3>3
    <3>5. \A a, b \in proc'["worker"].todo : a.d = b.d => a = b
      BY <1>4, <3>3
    <3> QED
      BY <1>9, <3>1, <3>4, <3>5 DEF NotServedYet, Exists
  <2> QED
    BY <2>1, <2>2
<1>8. NextFollowsSchedule'
  BY <1>9, <1>2, AtRestIsProc DEF ScheduleInv, NextFollowsSchedule, Exists, Doing, Who
<1> QED
  BY <1>5, <1>6, <1>7, <1>8 DEF ScheduleInv

LEMMA TickSchedule ==
    ASSUME BackupsTypeOK, ScheduleInv, NEW d \in Destinations, Tick(d)
    PROVE  ScheduleInv'
<1>1. PICK row : row = [dest[d] EXCEPT !.next = [dest[d].next EXCEPT !.due = TRUE]]
  OBVIOUS
<1>2. dest[d] \in Destination /\ dest[d].next \in NextRun /\ Exists(d)
  BY Destined DEF Tick
<1>3. PICK n : n = [dest[d].next EXCEPT !.due = TRUE]
  OBVIOUS
<1>4. n \in NextRun /\ n.by = dest[d].next.by
  BY <1>2, <1>3 DEF NextRun
<1>5. /\ row \in Destination /\ row.next = n
      /\ row.schedule = dest[d].schedule /\ row.retain = dest[d].retain /\ row.enabled = dest[d].enabled
  BY <1>1, <1>2, <1>3, <1>4 DEF Destination
<1>6. row # Null /\ n # Null /\ dest[d].next # Null
  BY <1>2, <1>4, <1>5, NullAssumption
<1>7. /\ dest'[d] = row
      /\ \A e \in Destinations \ {d} : dest'[e] = dest[e]
      /\ UNCHANGED <<proc, least, overtaken>> /\ served' = served \ {d}
  BY <1>1 DEF Tick, BackupsTypeOK
<1>8. \A e \in Destinations :
        /\ Exists(e)' <=> Exists(e)
        /\ Exists(e) => /\ dest'[e].schedule = dest[e].schedule /\ dest'[e].retain = dest[e].retain
                        /\ dest'[e].enabled = dest[e].enabled
                        /\ dest'[e].next # Null <=> dest[e].next # Null
                        /\ dest[e].next # Null => dest'[e].next.by = dest[e].next.by
  BY <1>2, <1>4, <1>5, <1>6, <1>7 DEF Exists
<1>9. CountKnown' /\ NextBySchedule' /\ NextFollowsSchedule'
  BY <1>7, <1>8 DEF ScheduleInv, CountKnown, NextBySchedule, NextFollowsSchedule, Doing
<1>10. \A p \in Who : RowsIn(proc[p]) \subseteq Row
  BY HandsFull DEF BackupsTypeOK
<1>11. RowsRead'
  BY <1>7, <1>8, <1>10, RowFields DEF ScheduleInv, RowsRead
<1>12. NotServedYet'
  BY <1>7 DEF ScheduleInv, NotServedYet, Exists, BackupsTypeOK
<1> QED
  BY <1>9, <1>11, <1>12 DEF ScheduleInv

LEMMA CrashSchedule ==
    ASSUME BackupsTypeOK, ScheduleInv, Crash
    PROVE  ScheduleInv'
<1>1. /\ proc'["worker"] = [pc |-> "boot"] /\ proc'["manual"] = AtRest
      /\ served' = {} /\ UNCHANGED <<dest, least, overtaken>>
  BY DEF Crash, Who
<1>2. \A p \in Who : RowsIn(proc'[p]) = {}
  BY <1>1, AtRestIsProc DEF Who, RowsIn, Resting, AtRow
<1>3. proc'["worker"].pc = "boot"
  BY <1>1
<1>4. RowsRead' /\ NotServedYet' /\ NextFollowsSchedule'
  BY <1>1, <1>2, <1>3 DEF RowsRead, NotServedYet, NextFollowsSchedule, Resting, Doing
<1>5. CountKnown' /\ NextBySchedule'
  BY <1>1 DEF ScheduleInv, CountKnown, NextBySchedule, Exists
<1> QED
  BY <1>4, <1>5 DEF ScheduleInv

LEMMA AdvanceSchedule ==
    ASSUME BackupsTypeOK, ScheduleInv, Advance
    PROVE  ScheduleInv'
<1>1. PICK r \in Proc :
        /\ Continue("worker", r)
        /\ r.pc \in {"idle", "next", "no dump"}
        /\ r.pc # "idle" => r.todo = proc["worker"].todo
        /\ RowsIn(r) \subseteq proc["worker"].todo
  BY AdvanceSteps
<1>2. PICK row \in Row : row = proc["worker"].row
  BY AdvanceSteps
<1>3. /\ proc["worker"].pc = "advance"
      /\ row \in RowsIn(proc["worker"]) /\ proc["worker"].todo \subseteq RowsIn(proc["worker"])
      /\ dest' = Advanced(row) /\ UNCHANGED <<least, overtaken, served>>
  BY <1>2, AdvanceSteps DEF Doing, marks
<1>4. proc'["worker"] = r /\ \A q \in Who \ {"worker"} : proc'[q] = proc[q]
  BY <1>1, OneProc DEF Who
<1>5. \A q \in Who : RowsIn(proc'[q]) \subseteq RowsIn(proc[q]) /\ RowsIn(proc[q]) \subseteq Row
  BY <1>1, <1>3, <1>4, HandsFull DEF BackupsTypeOK
<1>6. ASSUME NEW d \in Destinations
      PROVE  /\ Exists(d)' <=> Exists(d)
             /\ Exists(d) =>
                  /\ dest'[d].schedule = dest[d].schedule /\ dest'[d].retain = dest[d].retain
                  /\ dest'[d].enabled = dest[d].enabled
                  /\ dest[d].next # Null => dest'[d].next # Null
                  /\ IF d = row.d
                     THEN dest'[d].next # Null /\ dest'[d].next.by = row.schedule /\ ~dest'[d].next.due
                     ELSE dest'[d].next = dest[d].next
  <2>1. CASE d = row.d /\ Exists(d)
    <3>1. PICK new : new = [dest[d] EXCEPT !.next = Scheduled(row.schedule)]
      OBVIOUS
    <3>2. dest' = [dest EXCEPT ![d] = new]
      BY <1>3, <2>1, <3>1 DEF Advanced, BackupsTypeOK
    <3>3. dest[d] \in Destination /\ row.schedule \in Schedules
      BY <2>1, Destined, RowFields
    <3>4. /\ new \in Destination /\ new.next = Scheduled(row.schedule)
          /\ new.schedule = dest[d].schedule /\ new.retain = dest[d].retain /\ new.enabled = dest[d].enabled
      BY <3>1, <3>3, ScheduledNext DEF Destination
    <3>5. new # Null /\ dest'[d] = new
      BY <3>2, <3>4, NullAssumption DEF BackupsTypeOK
    <3> QED
      BY <2>1, <3>3, <3>4, <3>5, ScheduledNext DEF Exists
  <2>2. CASE ~(d = row.d /\ Exists(d))
    <3>1. dest'[d] = dest[d]
      BY <1>3, <2>2, RowFields DEF Advanced, BackupsTypeOK
    <3> QED
      BY <2>2, <3>1 DEF Exists
  <2> QED
    BY <2>1, <2>2
<1>7. CountKnown'
  BY <1>3, <1>6 DEF ScheduleInv, CountKnown
<1>8. NextBySchedule'
  <2>1. "worker" \in Who
    BY DEF Who
  <2>2. Exists(row.d) => row.schedule = dest[row.d].schedule \/ row.d \in overtaken
    BY <1>3, <2>1 DEF ScheduleInv, RowsRead
  <2> QED
    BY <1>3, <1>6, <2>2 DEF ScheduleInv, NextBySchedule
<1>9. RowsRead'
  BY <1>3, <1>5, <1>6, RowFields DEF ScheduleInv, RowsRead
<1>10. NotServedYet'
  <2>1. \A d \in served : Exists(d) /\ dest[d].next # Null /\ dest[d].next.due => row.d = d
    BY <1>2, <1>3 DEF ScheduleInv, NotServedYet
  <2>2. \A d \in served : ~(Exists(d)' /\ dest'[d].next # Null /\ dest'[d].next.due)
    BY <1>6, <2>1 DEF BackupsTypeOK
  <2>3. r.pc \notin Resting => /\ \A x \in r.todo : x.d \notin served
                               /\ \A a, b \in r.todo : a.d = b.d => a = b
    BY <1>1, <1>3 DEF ScheduleInv, NotServedYet, Resting
  <2> QED
    BY <1>3, <1>4, <2>2, <2>3 DEF NotServedYet
<1>11. NextFollowsSchedule'
  BY <1>3, <1>6, <1>8 DEF ScheduleInv, NextFollowsSchedule, NextBySchedule, Doing
<1> QED
  BY <1>7, <1>8, <1>9, <1>10, <1>11 DEF ScheduleInv

\* Start and FailRun: the worker runs nothing twice for one time.
LEMMA StartSchedule ==
    ASSUME BackupsTypeOK, ScheduleInv, NEW p \in Who, Start(p)
    PROVE  ScheduleInv'
<1>1. PICK row \in Row :
        /\ proc[p].pc = "next" /\ row \in proc[p].todo
        /\ Insert(p, row, "running")
        /\ Started(p, row) \in Proc
        /\ Continue(p, Started(p, row))
        /\ UNCHANGED <<dest, least, overtaken>>
  BY StartSteps DEF Doing
<1>2. PICK r \in Proc : r = Started(p, row)
  BY <1>1
<1>3. \/ r.pc \in AtRow /\ r.row = row /\ r.todo = proc[p].todo \ {row}
      \/ p # "worker" /\ r = AtRest
  <2>1. CASE Exists(row.d)
    <3>1. r = [pc |-> "upload", todo |-> proc[p].todo \ {row}, row |-> row, run |-> Len(runs) + 1]
      BY <1>2, <2>1 DEF Started
    <3> QED
      BY <3>1 DEF AtRow
  <2>2. CASE ~Exists(row.d) /\ p = "worker"
    <3>1. r = [pc |-> "advance", todo |-> proc[p].todo \ {row}, row |-> row, dumped |-> TRUE]
      BY <1>2, <2>2 DEF Started
    <3> QED
      BY <3>1 DEF AtRow
  <2>3. CASE ~Exists(row.d) /\ p # "worker"
    BY <1>2, <2>3 DEF Started
  <2> QED
    BY <2>1, <2>2, <2>3
<1>4. CASE p = "worker"
  <2>1. served' \subseteq served \union {row.d}
    BY <1>1 DEF Insert
  <2> QED
    BY <1>1, <1>2, <1>3, <1>4, <2>1, TakesRowSchedule
<1>5. CASE p # "worker"
  <2>1. RowsIn(r) \subseteq RowsIn(proc[p])
    BY <1>1, <1>3, AtRestIsProc DEF RowsIn, Resting, AtRow
  <2>2. UNCHANGED served
    BY <1>1, <1>5 DEF Insert
  <2> QED
    BY <1>1, <1>2, <1>5, <2>1, <2>2, StaysAtRowSchedule DEF StaysAtRow
<1> QED
  BY <1>4, <1>5

LEMMA FailRunSchedule ==
    ASSUME BackupsTypeOK, ScheduleInv, FailRun
    PROVE  ScheduleInv'
<1>1. PICK row \in Row :
        /\ proc["worker"].pc = "no dump" /\ row \in proc["worker"].todo
        /\ Insert("worker", row, "failed")
        /\ NoDump(row) \in Proc
        /\ Continue("worker", NoDump(row))
        /\ UNCHANGED <<dest, least, overtaken>>
  BY FailRunSteps DEF Doing
<1>2. PICK r \in Proc : r = NoDump(row)
  BY <1>1
<1>3. r.pc \in AtRow /\ r.row = row /\ r.todo = proc["worker"].todo \ {row}
  BY <1>2 DEF NoDump, AtRow
<1>4. served' \subseteq served \union {row.d}
  BY <1>1 DEF Insert
<1> QED
  BY <1>1, <1>2, <1>3, <1>4, TakesRowSchedule

LEMMA NextSchedule ==
    ASSUME BackupsTypeOK, RunsUnderWay, DoomedIsOld, ScheduleInv, [BackupsNext]_backupsVars
    PROVE  ScheduleInv'
<1>1. ASSUME NEW p \in Who, \/ Deliver(p) \/ Record(p) \/ List(p) \/ DeleteFile(p) \/ Clear(p)
      PROVE  ScheduleInv'
  <2>1. PICK r \in Proc : Continue(p, r) /\ StaysAtRow(p, r)
    <3>1. Record(p) => proc[p].run \in DOMAIN runs
      BY DEF Record, Doing, RunsUnderWay, RunsIn
    <3>2. Clear(p) => proc[p].gone \in DOMAIN runs
      BY DEF Clear, Doing, DoomedIsOld, DoomedIn
    <3> QED
      BY <1>1, <3>1, <3>2, DeliverSteps, RecordSteps, ListSteps, DeleteFileSteps, ClearSteps
  <2>2. proc[p].pc \in AtRow /\ UNCHANGED <<dest, least, overtaken, served>>
    BY <1>1 DEF Deliver, Record, List, DeleteFile, Clear, Doing, AtRow, marks
  <2> QED
    BY <2>1, <2>2, StaysAtRowSchedule
<1>2. ASSUME HangUp PROVE ScheduleInv'
  <2>1. StaysAtRow("manual", AtRest)
    BY AtRestIsProc DEF StaysAtRow, RowsIn, Resting, AtRow
  <2> QED
    BY <1>2, <2>1, StaysAtRowSchedule, AtRestIsProc DEF HangUp, Who
<1>3. ASSUME UNCHANGED backupsVars PROVE ScheduleInv'
  BY <1>3 DEF backupsVars, marks, ScheduleInv, CountKnown, RowsRead, NextBySchedule, NotServedYet,
              NextFollowsSchedule, Exists, Doing
<1>4. ASSUME NEW d \in Destinations, NEW s \in Schedules, NEW k \in Retains \union {0},
             (\E kind \in Kind : Create(d, kind, s, k)) \/ (\E on \in BOOLEAN : Update(d, s, k, on))
      PROVE  ScheduleInv'
  <2>1. k \in Retains
    BY <1>4 DEF Create, Update, ValidCount
  <2> QED
    BY <1>4, <2>1, AdminSchedule
<1>5. ASSUME NEW d \in Destinations, Delete(d) \/ Tick(d) PROVE ScheduleInv'
  BY <1>5, DeleteSchedule, TickSchedule
<1>6. ASSUME Poll \/ \E d \in Destinations : RunNow(d) PROVE ScheduleInv'
  BY <1>6, ListedSchedule
<1>7. ASSUME NEW p \in Who, Start(p) PROVE ScheduleInv'
  BY <1>7, StartSchedule
<1>8. ASSUME Boot \/ FailRun \/ Advance \/ Crash PROVE ScheduleInv'
  BY <1>8, BootSchedule, FailRunSchedule, AdvanceSchedule, CrashSchedule
<1> QED
  BY <1>1, <1>2, <1>3, <1>4, <1>5, <1>6, <1>7, <1>8 DEF BackupsNext

\* Nothing is run, by the worker, that was run since it was due.
LEMMA NothingTwice ==
    ASSUME BackupsTypeOK, ScheduleInv, RunsUnderWay, DoomedIsOld, [BackupsNext]_backupsVars,
           NEW n \in DOMAIN runs' \ DOMAIN runs, proc'["worker"] # proc["worker"]
    PROVE  runs'[n].d \notin served
<1>1. ASSUME NEW p \in Who, NEW row \in Row, NEW status \in {"running", "failed"}, Insert(p, row, status)
      PROVE  n = Len(runs) + 1 /\ runs'[n].d = row.d
  <2>1. CASE Exists(row.d)
    <3>1. /\ Len(runs') = Len(runs) + 1 /\ runs' \in Seq(Run \union {Null})
          /\ runs'[Len(runs) + 1] = [d |-> row.d, status |-> status, remote |-> Null]
      BY <1>1, <2>1, InsertTypes
    <3>2. DOMAIN runs' = 1..(Len(runs) + 1) /\ DOMAIN runs = 1..Len(runs) /\ Len(runs) \in Nat
      BY <3>1, RunList
    <3>3. n = Len(runs) + 1
      BY <3>2
    <3> QED
      BY <3>1, <3>3
  <2>2. CASE ~Exists(row.d)
    BY <1>1, <2>2, InsertTypes
  <2> QED
    BY <2>1, <2>2
<1>2. ASSUME NEW p \in Who, Start(p) PROVE runs'[n].d \notin served
  <2>1. PICK row \in Row :
          /\ Doing(p, "next") /\ row \in proc[p].todo
          /\ Insert(p, row, "running") /\ Started(p, row) \in Proc /\ Continue(p, Started(p, row))
    BY <1>2, StartSteps
  <2>2. p = "worker"
    BY <2>1, OneProc DEF Who
  <2> QED
    BY <1>1, <2>1, <2>2 DEF ScheduleInv, NotServedYet, Doing, Resting
<1>3. ASSUME FailRun PROVE runs'[n].d \notin served
  <2>1. PICK row \in Row :
          /\ Doing("worker", "no dump") /\ row \in proc["worker"].todo
          /\ Insert("worker", row, "failed")
    BY <1>3, FailRunSteps
  <2> QED
    BY <1>1, <2>1 DEF ScheduleInv, NotServedYet, Doing, Resting, Who
<1>4. ASSUME DOMAIN runs' = DOMAIN runs PROVE FALSE
  BY <1>4
<1>5. ASSUME NEW p \in Who, Record(p) PROVE FALSE
  <2>1. proc[p].run \in DOMAIN runs
    BY <1>5 DEF Record, Doing, RunsUnderWay, RunsIn
  <2> QED
    BY <1>4, <1>5, <2>1, RecordSteps, RunRewritten
<1>6. ASSUME NEW p \in Who, Clear(p) PROVE FALSE
  <2>1. proc[p].gone \in DOMAIN runs
    BY <1>6 DEF Clear, Doing, DoomedIsOld, DoomedIn
  <2> QED
    BY <1>4, <1>6, <2>1, ClearSteps, RunRewritten
<1>7. ASSUME NEW d \in Destinations, Delete(d) PROVE FALSE
  BY <1>4, <1>7 DEF Delete
<1>8. UNCHANGED runs => FALSE
  BY <1>4
<1>9. CASE UNCHANGED backupsVars
  BY <1>8, <1>9 DEF backupsVars
<1> QED
  BY <1>2, <1>3, <1>5, <1>6, <1>7, <1>8, <1>9
     DEF BackupsNext, RunNow, Tick, Create, Update, Boot, Poll, Advance, HangUp, Crash, Deliver, List, DeleteFile

-----------------------------------------------------------------------------
(* Backups: the files.                                                     *)

LEMMA InitFiles == BackupsInit => FilesInv
<1> SUFFICES ASSUME BackupsInit PROVE FilesInv
  OBVIOUS
<1>1. DOMAIN runs = {} /\ drive = {}
  BY DEF BackupsInit
<1>2. proc["worker"] = [pc |-> "boot"] /\ proc["manual"] = AtRest
  BY DEF BackupsInit, Who
<1>3. \A p \in Who : Quiet(proc[p])
  BY <1>2, AtRestIsProc DEF Who, Quiet
<1>4. \A p \in Who : RunsIn(proc[p]) = {} /\ DoomedIn(proc[p]) = {} /\ ~Doing(p, "record") /\ ~Doing(p, "clear")
  BY <1>3, QuietHands DEF Doing
<1> QED
  BY <1>1, <1>4 DEF FilesInv, RunsOwned, RunsUnderWay, UploadsStored, DoomedIsOld, GoneIsGone,
                    NewestAreKept, FilesAreKnown, Good

\* A destination that is given another next run is still there.
LEMMA NextSet ==
    ASSUME BackupsTypeOK, NEW d \in Destinations, Exists(d), NEW n \in NextRun
    PROVE  [dest[d] EXCEPT !.next = n] # Null
<1>1. PICK row : row = [dest[d] EXCEPT !.next = n]
  OBVIOUS
<1>2. row \in Destination
  BY <1>1, Destined DEF Destination
<1> QED
  BY <1>1, <1>2, NullAssumption

\* No step but Delete takes a destination away, and none raises its count.
DestinationsOn ==
    \A d \in Destinations : /\ Exists(d) => Exists(d)'
                            /\ Exists(d)' /\ Exists(d) => least'[d] <= least[d]
                            /\ Exists(d)' /\ ~Exists(d) => least[d] = Null

LEMMA DestinationsStay ==
    ASSUME BackupsTypeOK, ScheduleInv,
           \/ Boot \/ Advance
           \/ UNCHANGED <<dest, least>>
           \/ \E d \in Destinations :
                \/ Tick(d)
                \/ \E s \in Schedules, k \in Retains \union {0} :
                     \/ \E kind \in Kind : Create(d, kind, s, k)
                     \/ \E on \in BOOLEAN : Update(d, s, k, on)
    PROVE  DestinationsOn
<1>0. \A d \in Destinations : Exists(d) => least[d] \in Nat
  BY Destined DEF ScheduleInv, CountKnown
<1>1. ASSUME UNCHANGED <<dest, least>> PROVE DestinationsOn
  BY <1>0, <1>1 DEF DestinationsOn, Exists
<1>2. ASSUME Boot PROVE DestinationsOn
  <2>1. ASSUME NEW d \in Destinations PROVE Exists(d)' <=> Exists(d)
    <3>1. CASE Exists(d) /\ dest[d].enabled /\ dest[d].next = Null
      <4>1. dest'[d] = [dest[d] EXCEPT !.next = Scheduled(dest[d].schedule)]
        BY <1>2, <3>1 DEF Boot
      <4>2. Scheduled(dest[d].schedule) \in NextRun
        BY <3>1, Destined, ScheduledNext
      <4> QED
        BY <3>1, <4>1, <4>2, NextSet DEF Exists
    <3>2. CASE ~(Exists(d) /\ dest[d].enabled /\ dest[d].next = Null)
      BY <1>2, <3>2 DEF Boot, Exists
    <3> QED
      BY <3>1, <3>2
  <2> QED
    BY <1>0, <1>2, <2>1 DEF DestinationsOn, Boot, marks
<1>3. ASSUME Advance PROVE DestinationsOn
  <2>1. PICK row \in Row : row = proc["worker"].row
    BY <1>3, AdvanceSteps
  <2>2. row.d \in Destinations /\ Scheduled(row.schedule) \in NextRun
    BY RowFields, ScheduledNext
  <2>3. CASE Exists(row.d)
    <3>1. dest' = [dest EXCEPT ![row.d] = [dest[row.d] EXCEPT !.next = Scheduled(row.schedule)]]
      BY <1>3, <2>1, <2>3 DEF Advance, Advanced
    <3>2. [dest[row.d] EXCEPT !.next = Scheduled(row.schedule)] # Null
      BY <2>2, <2>3, NextSet
    <3>3. ASSUME NEW d \in Destinations PROVE Exists(d)' <=> Exists(d)
      BY <2>2, <2>3, <3>1, <3>2 DEF Exists, BackupsTypeOK
    <3>4. UNCHANGED least
      BY <1>3 DEF Advance, marks
    <3> QED
      BY <1>0, <3>3, <3>4 DEF DestinationsOn
  <2>4. CASE ~Exists(row.d)
    BY <1>1, <1>3, <2>1, <2>4 DEF Advance, Advanced, marks
  <2> QED
    BY <2>3, <2>4
<1>4. ASSUME NEW d \in Destinations, Tick(d) PROVE DestinationsOn
  <2>1. PICK n : n = [dest[d].next EXCEPT !.due = TRUE]
    OBVIOUS
  <2>2. Exists(d) /\ dest[d].next \in NextRun
    BY <1>4, Destined DEF Tick
  <2>3. n \in NextRun
    BY <2>1, <2>2 DEF NextRun
  <2>4. dest' = [dest EXCEPT ![d] = [dest[d] EXCEPT !.next = n]]
    BY <1>4, <2>1 DEF Tick
  <2>5. \A e \in Destinations : Exists(e)' <=> Exists(e)
    BY <2>2, <2>3, <2>4, NextSet DEF Exists, BackupsTypeOK
  <2> QED
    BY <1>0, <1>4, <2>5 DEF DestinationsOn, Tick
<1>5. ASSUME NEW d \in Destinations, NEW s \in Schedules, NEW k \in Retains \union {0},
             (\E kind \in Kind : Create(d, kind, s, k)) \/ (\E on \in BOOLEAN : Update(d, s, k, on))
      PROVE  DestinationsOn
  <2>1. k \in Retains /\ k \in Nat
    BY <1>5, RetainsAssumption DEF Create, Update, ValidCount
  <2>2. PICK row, low :
          /\ dest' = [dest EXCEPT ![d] = row] /\ least' = [least EXCEPT ![d] = low] /\ row # Null
          /\ ~Exists(d) => least[d] = Null
          /\ Exists(d) => low <= least[d]
    <3>1. ASSUME NEW kind \in Kind, Create(d, kind, s, k)
          PROVE  \E row, low :
                   /\ dest' = [dest EXCEPT ![d] = row] /\ least' = [least EXCEPT ![d] = low] /\ row # Null
                   /\ ~Exists(d) => least[d] = Null
                   /\ Exists(d) => low <= least[d]
      <4>1. PICK row : row = [kind |-> kind, schedule |-> s, retain |-> k, enabled |-> TRUE, next |-> Scheduled(s)]
        OBVIOUS
      <4>2. row \in Destination
        BY <2>1, <4>1, ScheduledNext DEF Destination
      <4>3. /\ dest' = [dest EXCEPT ![d] = row] /\ least' = [least EXCEPT ![d] = k] /\ row # Null
            /\ ~Exists(d) /\ least[d] = Null
        BY <3>1, <4>1, <4>2, NullAssumption DEF Create
      <4> QED
        BY <4>3
    <3>2. ASSUME NEW on \in BOOLEAN, Update(d, s, k, on)
          PROVE  \E row, low :
                   /\ dest' = [dest EXCEPT ![d] = row] /\ least' = [least EXCEPT ![d] = low] /\ row # Null
                   /\ ~Exists(d) => least[d] = Null
                   /\ Exists(d) => low <= least[d]
      <4>1. Exists(d) /\ dest[d].kind \in Kind
        BY <3>2, Destined DEF Update
      <4>2. PICK row : row = [kind |-> dest[d].kind, schedule |-> s, retain |-> k, enabled |-> on,
                              next |-> NextOnEdit(d, s, on)]
        OBVIOUS
      <4>3. row \in Destination
        BY <2>1, <4>1, <4>2, ScheduledNext, Destined DEF Destination, NextOnEdit
      <4>4. PICK low : low = IF k < least[d] THEN k ELSE least[d]
        OBVIOUS
      <4>5. dest' = [dest EXCEPT ![d] = row] /\ least' = [least EXCEPT ![d] = low] /\ row # Null
        BY <3>2, <4>2, <4>3, <4>4, NullAssumption DEF Update, BackupsTypeOK
      <4>6. low <= least[d]
        BY <1>0, <2>1, <4>1, <4>4
      <4> QED
        BY <4>1, <4>5, <4>6
    <3> QED
      BY <1>5, <3>1, <3>2
  <2> QED
    BY <1>0, <2>2 DEF DestinationsOn, Exists, BackupsTypeOK
<1> QED
  BY <1>1, <1>2, <1>3, <1>4, <1>5

\* What becomes of p's hands when neither the runs nor the files change.
HandsOn(p) ==
    \/ proc'[p] = proc[p]
    \/ /\ Doing(p, "record") /\ proc[p].remote # Null =>
            proc[p].run \in strays' \/ runs[proc[p].run] = Null
       /\ \/ Quiet(proc'[p])
          \/ /\ proc'[p].pc = "delete"
             /\ \A r \in proc'[p].stale :
                  \/ r \in DoomedIn(proc[p]) /\ proc'[p].row = proc[p].row
                  \/ r \in Good(proc'[p].row.d) /\ Outlived(r, proc'[p].row.d)

LEMMA FilesStep ==
    ASSUME BackupsTypeOK, BackupsTypeOK', ScheduleInv, ScheduleInv', FilesInv, UNCHANGED <<runs, drive>>,
           strays \subseteq strays',
           DestinationsOn, \A p \in Who : HandsOn(p)
    PROVE  FilesInv'
<1> USE DEF FilesInv, DestinationsOn
<1>1. \A d : Good(d)' = Good(d)
  BY DEF Good
<1>2. \A d \in Destinations : Exists(d)' /\ Good(d) # {} => Exists(d) /\ least'[d] <= least[d]
  BY DEF Good, RunsOwned
<1>3. ASSUME NEW r \in RunIds, NEW d \in Destinations, Outlived(r, d), least[d] # Null
      PROVE  Outlived(r, d)'
  <2>1. Exists(d)' => Exists(d) /\ least'[d] <= least[d]
    BY <1>3
  <2>2. Cardinality(Younger(r, Good(d))) \in Nat
    BY GoodRuns
  <2>3. Exists(d)' => least[d] \in Nat /\ least'[d] \in Nat
    BY <1>3, <2>1, RetainsAssumption DEF BackupsTypeOK, ScheduleInv, CountKnown, Exists
  <2>4. Younger(r, Good(d))' = Younger(r, Good(d))
    BY <1>1 DEF Younger
  <2> QED
    BY <1>3, <2>1, <2>2, <2>3, <2>4 DEF Outlived
<1>4. ASSUME NEW p \in Who
      PROVE  /\ RunsIn(proc'[p]) \subseteq RunsIn(proc[p])
             /\ RunsIn(proc'[p]) # {} => proc'[p] = proc[p]
             /\ proc'[p].pc \in {"record", "clear"} => proc'[p] = proc[p]
             /\ \A r \in DoomedIn(proc'[p]) :
                  \/ r \in DoomedIn(proc[p]) /\ proc'[p].row = proc[p].row
                  \/ r \in Good(proc'[p].row.d) /\ Outlived(r, proc'[p].row.d)
  <2>1. HandsOn(p)
    OBVIOUS
  <2>2. CASE proc'[p] = proc[p]
    BY <2>2
  <2>3. CASE Quiet(proc'[p])
    BY <2>3, QuietHands
  <2>4. CASE /\ proc'[p].pc = "delete"
             /\ \A r \in proc'[p].stale :
                  \/ r \in DoomedIn(proc[p]) /\ proc'[p].row = proc[p].row
                  \/ r \in Good(proc'[p].row.d) /\ Outlived(r, proc'[p].row.d)
    <3>1. RunsIn(proc'[p]) = {} /\ DoomedIn(proc'[p]) = proc'[p].stale
      BY <2>4 DEF RunsIn, DoomedIn
    <3> QED
      BY <2>4, <3>1
  <2> QED
    BY <2>1, <2>2, <2>3, <2>4 DEF HandsOn
<1>5. drive' \subseteq DOMAIN runs' /\ RunsOwned'
  <2>1. \A r \in DOMAIN runs : runs[r] # Null => runs[r].d \in Destinations
    BY RunList, RunFields
  <2> QED
    BY <2>1 DEF RunsOwned
<1>6. RunsUnderWay'
  <2>1. ASSUME NEW p \in Who, NEW q \in Who, NEW r \in RunsIn(proc'[p]), r \in DoomedIn(proc'[q])
        PROVE  FALSE
    <3>1. r \in RunsIn(proc[p]) /\ r \in DOMAIN runs
      BY <1>4, <2>1 DEF RunsUnderWay
    <3>2. r \in DoomedIn(proc[q]) \/ r \in Good(proc'[q].row.d)
      BY <1>4, <2>1
    <3> QED
      BY <3>1, <3>2 DEF RunsUnderWay, Good
  <2>2. \A p \in Who : \A r \in RunsIn(proc'[p]) :
          r \in DOMAIN runs /\ (runs[r] # Null => runs[r].d = proc'[p].row.d /\ runs[r].status = "running")
    BY <1>4 DEF RunsUnderWay
  <2>3. \A p, q \in Who : RunsIn(proc'[p]) \intersect RunsIn(proc'[q]) # {} => p = q
    BY <1>4 DEF RunsUnderWay
  <2> QED
    BY <2>1, <2>2, <2>3 DEF RunsUnderWay
<1>7. UploadsStored' /\ GoneIsGone'
  BY <1>4 DEF UploadsStored, GoneIsGone, Doing
<1>8. DoomedIsOld'
  <2>1. ASSUME NEW p \in Who, NEW r \in DoomedIn(proc'[p]), NEW d, d = proc'[p].row.d
        PROVE  /\ r \in DOMAIN runs
               /\ runs[r] # Null => runs[r].d = d /\ runs[r].status = "ok"
               /\ Outlived(r, d)'
    <3>1. r \in RunIds /\ d \in Destinations
      BY <2>1, HandsFull, RowFields DEF BackupsTypeOK
    <3>2. CASE r \in DoomedIn(proc[p]) /\ proc'[p].row = proc[p].row
      <4>1. proc[p].row \in RowsIn(proc[p])
        BY <3>2, HandsFull DEF BackupsTypeOK
      <4>2. least[d] # Null
        BY <2>1, <3>2, <4>1 DEF ScheduleInv, RowsRead
      <4>3. /\ r \in DOMAIN runs
            /\ runs[r] # Null => runs[r].d = d /\ runs[r].status = "ok"
            /\ Outlived(r, d)
        BY <2>1, <3>2 DEF DoomedIsOld
      <4>4. Outlived(r, d)'
        BY <1>3, <3>1, <4>2, <4>3
      <4> QED
        BY <4>3, <4>4
    <3>3. CASE r \in Good(proc'[p].row.d) /\ Outlived(r, proc'[p].row.d)
      <4>1. /\ r \in DOMAIN runs /\ runs[r].d = d /\ runs[r].status = "ok"
            /\ runs[r] # Null
        BY <2>1, <3>3 DEF Good
      <4>2. least[d] # Null
        BY <3>1, <4>1 DEF RunsOwned, ScheduleInv, CountKnown
      <4>3. Outlived(r, d)
        BY <2>1, <3>3
      <4>4. Outlived(r, d)'
        BY <1>3, <3>1, <4>2, <4>3
      <4> QED
        BY <4>1, <4>4
    <3> QED
      BY <1>4, <3>2, <3>3
  <2> QED
    BY <2>1 DEF DoomedIsOld
<1>9. NewestAreKept'
  <2>1. SUFFICES ASSUME NEW d \in Destinations, Exists(d)', NEW r \in Good(d),
                        Cardinality(Younger(r, Good(d))) < least'[d]
                 PROVE  r \in drive
    BY <1>1 DEF NewestAreKept, Younger
  <2>2. Exists(d) /\ least'[d] <= least[d]
    BY <1>2, <2>1
  <2>3. least[d] \in Nat /\ least'[d] \in Nat /\ Cardinality(Younger(r, Good(d))) \in Nat
    BY <2>1, <2>2, GoodRuns, RetainsAssumption DEF BackupsTypeOK, ScheduleInv, CountKnown, Exists
  <2> QED
    BY <2>1, <2>2, <2>3 DEF NewestAreKept
<1>10. FilesAreKnown'
  <2>1. SUFFICES ASSUME NEW r \in drive
                 PROVE  \/ r \in strays'
                        \/ runs[r] = Null
                        \/ r \in Good(runs[r].d)
                        \/ \E p \in Who : Doing(p, "record")' /\ proc'[p].run = r /\ proc'[p].remote = r
    BY <1>1 DEF FilesAreKnown
  <2>2. ASSUME NEW p \in Who, Doing(p, "record"), proc[p].run = r, proc[p].remote = r
        PROVE  \/ proc'[p] = proc[p]
               \/ r \in strays' \/ runs[r] = Null
    <3>1. r # Null
      BY NullAssumption DEF BackupsTypeOK
    <3> QED
      BY <2>2, <3>1 DEF HandsOn
  <2> QED
    BY <2>2 DEF FilesAreKnown, Doing
<1> QED
  BY <1>5, <1>6, <1>7, <1>8, <1>9, <1>10

\* Steps after which the runs and the files are as they were.
LEMMA QuietFiles ==
    ASSUME BackupsTypeOK, BackupsTypeOK', ScheduleInv, ScheduleInv', FilesInv,
           \/ Boot \/ Poll \/ HangUp \/ Crash \/ Advance
           \/ UNCHANGED backupsVars
           \/ \E p \in Who : List(p)
           \/ \E d \in Destinations :
                \/ RunNow(d) \/ Tick(d)
                \/ \E s \in Schedules, k \in Retains \union {0} :
                     \/ \E kind \in Kind : Create(d, kind, s, k)
                     \/ \E on \in BOOLEAN : Update(d, s, k, on)
    PROVE  FilesInv'
<1>1. UNCHANGED <<runs, drive>> /\ strays \subseteq strays'
  BY DEF Boot, Poll, HangUp, Crash, Advance, List, RunNow, Tick, Create, Update, backupsVars, marks
<1>2. DestinationsOn
  BY DestinationsStay DEF Poll, HangUp, Crash, List, RunNow, backupsVars, marks
<1>3. ASSUME NEW p \in Who, NEW r \in Proc, Continue(p, r), Quiet(r), ~Doing(p, "record")
      PROVE  \A q \in Who : HandsOn(q)
  BY <1>3, OneProc DEF HandsOn
<1>4. ASSUME UNCHANGED proc PROVE \A q \in Who : HandsOn(q)
  BY <1>4 DEF HandsOn
<1>5. AtRest.pc = "idle" /\ Quiet(AtRest) /\ Quiet([pc |-> "boot"])
  BY AtRestIsProc DEF Quiet
<1>6. CASE Boot
  <2>1. \A q \in Who : HandsOn(q)
    BY <1>3, <1>5, <1>6, AtRestIsProc DEF Boot, Doing, Who
  <2> QED
    BY <1>1, <1>2, <2>1, FilesStep
<1>7. CASE Poll
  <2>1. PICK dumped \in BOOLEAN :
          Continue("worker", [pc |-> IF dumped THEN "next" ELSE "no dump", todo |-> {RowOf(d) : d \in Due}])
    BY <1>7 DEF Poll
  <2>2. PICK r : r = [pc |-> IF dumped THEN "next" ELSE "no dump", todo |-> {RowOf(d) : d \in Due}]
    OBVIOUS
  <2>3. r \in Proc /\ Quiet(r)
    BY <2>2, RowsDueAreRows DEF Proc, Quiet
  <2>4. ~Doing("worker", "record")
    BY <1>5, <1>7 DEF Poll, Doing
  <2>5. \A q \in Who : HandsOn(q)
    BY <1>3, <2>1, <2>2, <2>3, <2>4 DEF Who
  <2> QED
    BY <1>1, <1>2, <2>5, FilesStep
<1>8. ASSUME NEW d \in Destinations, RunNow(d) PROVE FilesInv'
  <2>1. PICK r : r = [pc |-> "next", todo |-> {RowOf(d)}]
    OBVIOUS
  <2>2. RowOf(d) \in Row
    BY <1>8, Destined DEF RunNow
  <2>3. r \in Proc /\ Quiet(r)
    BY <2>1, <2>2 DEF Proc, Quiet
  <2>4. ~Doing("manual", "record")
    BY <1>5, <1>8 DEF RunNow, Doing
  <2>5. Continue("manual", r)
    BY <1>8, <2>1 DEF RunNow
  <2>6. \A q \in Who : HandsOn(q)
    BY <1>3, <2>3, <2>4, <2>5 DEF Who
  <2> QED
    BY <1>1, <1>2, <2>6, FilesStep
<1>9. ASSUME HangUp \/ Crash PROVE FilesInv'
  <2>1. ASSUME NEW p \in Who, Doing(p, "record"), proc[p].remote # Null, Unrecorded(p) \subseteq strays'
        PROVE  proc[p].run \in strays'
    BY <2>1 DEF Unrecorded
  <2>2. ASSUME HangUp PROVE \A q \in Who : HandsOn(q)
    <3>1. proc'["manual"] = AtRest /\ proc'["worker"] = proc["worker"] /\ Unrecorded("manual") \subseteq strays'
      BY <2>2, OneProc, AtRestIsProc DEF HangUp, Who
    <3> QED
      BY <1>5, <2>1, <3>1 DEF HandsOn, Who
  <2>3. ASSUME Crash PROVE \A q \in Who : HandsOn(q)
    <3>1. /\ proc'["manual"] = AtRest /\ proc'["worker"] = [pc |-> "boot"]
          /\ \A q \in Who : Unrecorded(q) \subseteq strays'
      BY <2>3 DEF Crash, Who
    <3> QED
      BY <1>5, <2>1, <3>1 DEF HandsOn, Who
  <2> QED
    BY <1>1, <1>2, <1>9, <2>2, <2>3, FilesStep
<1>10. CASE Advance
  <2>1. PICK r \in Proc : Continue("worker", r) /\ Quiet(r)
    BY <1>10, AdvanceSteps
  <2>2. ~Doing("worker", "record")
    BY <1>10, AdvanceSteps DEF Doing
  <2>3. \A q \in Who : HandsOn(q)
    BY <1>3, <2>1, <2>2 DEF Who
  <2> QED
    BY <1>1, <1>2, <2>3, FilesStep
<1>11. ASSUME NEW p \in Who, List(p) PROVE FilesInv'
  <2>1. PICK r \in Proc :
          /\ Continue(p, r)
          /\ \/ Quiet(r)
             \/ r.pc = "delete" /\ r.row = proc[p].row /\ r.stale = Stale(proc[p].row)
    BY <1>11, ListSteps
  <2>2. ~Doing(p, "record") /\ proc[p].row \in RowsIn(proc[p]) /\ proc[p].row \in Row
    BY <1>11, ListSteps, HandsFull DEF Doing, BackupsTypeOK
  <2>3. ASSUME NEW g \in Stale(proc[p].row)
        PROVE  g \in Good(proc[p].row.d) /\ Outlived(g, proc[p].row.d)
    <3>1. g \in Good(proc[p].row.d) /\ Cardinality(Younger(g, Good(proc[p].row.d))) >= proc[p].row.retain
      BY DEF Stale
    <3>2. least[proc[p].row.d] # Null /\ least[proc[p].row.d] <= proc[p].row.retain
      BY <2>2 DEF ScheduleInv, RowsRead
    <3>3. /\ least[proc[p].row.d] \in Nat /\ proc[p].row.retain \in Nat
          /\ Cardinality(Younger(g, Good(proc[p].row.d))) \in Nat
      BY <2>2, <3>2, RowFields, Destined, GoodRuns, RetainsAssumption
    <3> QED
      BY <3>1, <3>2, <3>3 DEF Outlived
  <2>4. \A q \in Who : HandsOn(q)
    BY <2>1, <2>2, <2>3, OneProc DEF HandsOn
  <2> QED
    BY <1>1, <1>2, <2>4, FilesStep
<1>12. ASSUME UNCHANGED proc PROVE FilesInv'
  BY <1>1, <1>2, <1>4, <1>12, FilesStep
<1> QED
  BY <1>6, <1>7, <1>8, <1>9, <1>10, <1>11, <1>12 DEF Tick, Create, Update, backupsVars

\* Which runs a destination's files are counted from, and what the counts are
\* held against, stay as they are.
SameGood == \A d : Good(d)' = Good(d) /\ (Exists(d)' <=> Exists(d)) /\ least'[d] = least[d]

LEMMA SameCounts ==
    ASSUME SameGood
    PROVE  /\ \A r, d : Outlived(r, d)' <=> Outlived(r, d)
           /\ \A r, d : Younger(r, Good(d))' = Younger(r, Good(d))
<1>1. \A r, d : Younger(r, Good(d))' = Younger(r, Good(d))
  BY DEF SameGood, Younger
<1> QED
  BY <1>1 DEF SameGood, Outlived

LEMMA InsertSteps ==
    ASSUME BackupsTypeOK, NEW p \in Who, NEW row \in Row, NEW status \in {"running", "failed"},
           Insert(p, row, status), Exists(row.d)
    PROVE  \E n \in RunIds :
             /\ n = Len(runs) + 1
             /\ DOMAIN runs' = DOMAIN runs \union {n} /\ n \notin DOMAIN runs
             /\ \A q \in DOMAIN runs : runs'[q] = runs[q]
             /\ runs'[n].d = row.d /\ runs'[n].status = status /\ runs'[n].remote = Null
<1>1. PICK n \in RunIds : n = Len(runs) + 1
  BY InsertTypes
<1>2. /\ runs' \in Seq(Run \union {Null}) /\ Len(runs') = n
      /\ \A q \in DOMAIN runs : runs'[q] = runs[q]
      /\ runs'[n] = [d |-> row.d, status |-> status, remote |-> Null]
  BY <1>1, InsertTypes
<1>3. DOMAIN runs' = 1..n
  BY <1>2
<1>4. DOMAIN runs = 1..Len(runs) /\ Len(runs) \in Nat
  BY RunList
<1>5. DOMAIN runs' = DOMAIN runs \union {n} /\ n \notin DOMAIN runs
  BY <1>1, <1>3, <1>4
<1> QED
  BY <1>1, <1>2, <1>5

\* Start and FailRun: a run is added, which nobody else has in hand.
LEMMA InsertFiles ==
    ASSUME BackupsTypeOK, FilesInv, NEW p \in Who, NEW row \in Row, NEW r \in Proc, Continue(p, r),
           proc[p].pc \in {"next", "no dump"},
           NEW status \in {"running", "failed"}, Insert(p, row, status), Exists(row.d),
           \/ Quiet(r)
           \/ r.pc = "upload" /\ r.row = row /\ r.run = Len(runs) + 1 /\ status = "running",
           UNCHANGED <<dest, least, drive, strays>>
    PROVE  FilesInv'
<1>0. /\ drive \subseteq DOMAIN runs /\ RunsOwned /\ RunsUnderWay /\ UploadsStored /\ DoomedIsOld
      /\ GoneIsGone /\ NewestAreKept /\ FilesAreKnown
  BY DEF FilesInv
<1>1. PICK n \in RunIds :
        /\ n = Len(runs) + 1
        /\ DOMAIN runs' = DOMAIN runs \union {n} /\ n \notin DOMAIN runs
        /\ \A q \in DOMAIN runs : runs'[q] = runs[q]
        /\ runs'[n].d = row.d /\ runs'[n].status = status /\ runs'[n].remote = Null
  BY InsertSteps
<1>2. SameGood
  <2>1. ASSUME NEW d PROVE Good(d)' = Good(d)
    BY <1>1 DEF Good
  <2> QED
    BY <2>1 DEF SameGood, Exists
<1>3. /\ proc'[p] = r
      /\ \A q \in Who \ {p} : proc'[q] = proc[q]
  BY OneProc
<1>4. /\ RunsIn(r) \subseteq {n} /\ DoomedIn(r) = {} /\ r.pc \notin {"record", "clear"}
      /\ RunsIn(r) # {} => r.row = row /\ status = "running"
  <2>1. CASE Quiet(r)
    BY <2>1, QuietHands
  <2>2. CASE r.pc = "upload" /\ r.row = row /\ r.run = Len(runs) + 1 /\ status = "running"
    BY <1>1, <2>2 DEF RunsIn, DoomedIn
  <2> QED
    BY <2>1, <2>2
<1>5. RunsUnderWay'
  <2>1. ASSUME NEW q \in Who, NEW x \in RunsIn(proc'[q])
        PROVE  x \in DOMAIN runs' /\ (runs'[x] # Null => runs'[x].d = proc'[q].row.d /\ runs'[x].status = "running")
    <3>1. CASE q = p
      BY <1>1, <1>3, <1>4, <2>1, <3>1
    <3>2. CASE q # p
      <4>1. proc'[q] = proc[q] /\ x \in RunsIn(proc[q])
        BY <1>3, <2>1, <3>2
      <4>2. x \in DOMAIN runs /\ (runs[x] # Null => runs[x].d = proc[q].row.d /\ runs[x].status = "running")
        BY <1>0, <4>1 DEF RunsUnderWay
      <4> QED
        BY <1>1, <4>1, <4>2
    <3> QED
      BY <3>1, <3>2
  <2>2. \A q \in Who : RunsIn(proc[q]) \subseteq DOMAIN runs /\ DoomedIn(proc[q]) \subseteq DOMAIN runs
    BY <1>0 DEF RunsUnderWay, DoomedIsOld
  <2>3. ASSUME NEW a \in Who, NEW b \in Who
        PROVE  /\ RunsIn(proc'[a]) \intersect RunsIn(proc'[b]) # {} => a = b
               /\ RunsIn(proc'[a]) \intersect DoomedIn(proc'[b]) = {}
    <3>1. CASE a # p /\ b # p
      <4>1. proc'[a] = proc[a] /\ proc'[b] = proc[b]
        BY <1>3, <3>1
      <4> QED
        BY <1>0, <4>1 DEF RunsUnderWay
    <3>2. CASE a = p /\ b # p
      <4>1. proc'[a] = r /\ proc'[b] = proc[b]
        BY <1>3, <3>2
      <4> QED
        BY <1>1, <1>4, <2>2, <4>1
    <3>3. CASE a # p /\ b = p
      <4>1. proc'[a] = proc[a] /\ proc'[b] = r
        BY <1>3, <3>3
      <4> QED
        BY <1>1, <1>4, <2>2, <4>1
    <3>4. CASE a = p /\ b = p
      BY <1>3, <1>4, <3>4
    <3> QED
      BY <3>1, <3>2, <3>3, <3>4
  <2> QED
    BY <2>1, <2>3 DEF RunsUnderWay
<1>6. drive' \subseteq DOMAIN runs' /\ RunsOwned'
  BY <1>0, <1>1, <1>2 DEF RunsOwned, SameGood
<1>7. UploadsStored' /\ GoneIsGone'
  BY <1>0, <1>3, <1>4 DEF UploadsStored, GoneIsGone, Doing
<1>8. DoomedIsOld'
  <2>1. ASSUME NEW q \in Who, NEW x \in DoomedIn(proc'[q]), NEW d, d = proc'[q].row.d
        PROVE  /\ x \in DOMAIN runs'
               /\ runs'[x] # Null => runs'[x].d = d /\ runs'[x].status = "ok"
               /\ Outlived(x, d)'
    <3>1. proc'[q] = proc[q] /\ x \in DoomedIn(proc[q])
      BY <1>3, <1>4, <2>1
    <3>2. /\ x \in DOMAIN runs /\ Outlived(x, d)
          /\ runs[x] # Null => runs[x].d = d /\ runs[x].status = "ok"
      BY <1>0, <2>1, <3>1 DEF DoomedIsOld
    <3> QED
      BY <1>1, <1>2, <3>2, SameCounts
  <2> QED
    BY <2>1 DEF DoomedIsOld
<1>9. NewestAreKept'
  BY <1>0, <1>2, SameCounts DEF NewestAreKept, SameGood
<1>10. FilesAreKnown'
  <2>1. \A q \in Who : Doing(q, "record") => proc'[q] = proc[q]
    BY <1>3 DEF Doing
  <2>2. \A x \in drive : x \in DOMAIN runs /\ runs'[x] = runs[x]
    BY <1>0, <1>1
  <2>3. ASSUME NEW x \in drive
        PROVE  \/ x \in strays \/ runs'[x] = Null \/ x \in Good(runs'[x].d)
               \/ \E q \in Who : Doing(q, "record")' /\ proc'[q].run = x /\ proc'[q].remote = x
    <3>1. ASSUME NEW q \in Who, Doing(q, "record"), proc[q].run = x, proc[q].remote = x
          PROVE  \E z \in Who : Doing(z, "record")' /\ proc'[z].run = x /\ proc'[z].remote = x
      BY <2>1, <3>1 DEF Doing
    <3> QED
      BY <1>0, <2>2, <3>1 DEF FilesAreKnown
  <2> QED
    BY <1>2, <2>3 DEF FilesAreKnown, SameGood
<1> QED
  BY <1>5, <1>6, <1>7, <1>8, <1>9, <1>10 DEF FilesInv

\* Nobody has anything new in hand, and runs keep their destinations.
Shrunk ==
    /\ DOMAIN runs' = DOMAIN runs
    /\ \A x \in DOMAIN runs : runs'[x] # Null =>
         /\ runs[x] # Null /\ runs'[x].d = runs[x].d
         /\ runs[x].status = "ok" => runs'[x].status = "ok"
    /\ \A q \in Who :
         /\ RunsIn(proc'[q]) \subseteq RunsIn(proc[q]) /\ DoomedIn(proc'[q]) \subseteq DoomedIn(proc[q])
         /\ RunsIn(proc'[q]) # {} \/ DoomedIn(proc'[q]) # {} => proc'[q].row = proc[q].row
         /\ \A x \in RunsIn(proc'[q]) : runs'[x] # Null => runs'[x].status = runs[x].status

LEMMA ShrunkHands ==
    ASSUME RunsUnderWay, Shrunk
    PROVE  RunsUnderWay'
<1>1. ASSUME NEW q \in Who, NEW x \in RunsIn(proc'[q])
      PROVE  x \in DOMAIN runs' /\ (runs'[x] # Null => runs'[x].d = proc'[q].row.d /\ runs'[x].status = "running")
  <2>1. x \in RunsIn(proc[q]) /\ proc'[q].row = proc[q].row
    BY <1>1 DEF Shrunk
  <2>2. x \in DOMAIN runs /\ (runs[x] # Null => runs[x].d = proc[q].row.d /\ runs[x].status = "running")
    BY <2>1 DEF RunsUnderWay
  <2> QED
    BY <1>1, <2>1, <2>2 DEF Shrunk
<1>2. ASSUME NEW a \in Who, NEW b \in Who
      PROVE  /\ RunsIn(proc'[a]) \intersect RunsIn(proc'[b]) # {} => a = b
             /\ RunsIn(proc'[a]) \intersect DoomedIn(proc'[b]) = {}
  <2>1. /\ RunsIn(proc'[a]) \subseteq RunsIn(proc[a]) /\ RunsIn(proc'[b]) \subseteq RunsIn(proc[b])
        /\ DoomedIn(proc'[b]) \subseteq DoomedIn(proc[b])
    BY DEF Shrunk
  <2>2. /\ RunsIn(proc[a]) \intersect RunsIn(proc[b]) # {} => a = b
        /\ RunsIn(proc[a]) \intersect DoomedIn(proc[b]) = {}
    BY DEF RunsUnderWay
  <2> QED
    BY <2>1, <2>2
<1> QED
  BY <1>1, <1>2 DEF RunsUnderWay

LEMMA ShrunkDoomed ==
    ASSUME BackupsTypeOK, DoomedIsOld, Shrunk,
           \A x \in RunIds, d \in Destinations : Outlived(x, d) => Outlived(x, d)'
    PROVE  DoomedIsOld'
<1>1. ASSUME NEW q \in Who, NEW x \in DoomedIn(proc'[q]), NEW d, d = proc'[q].row.d
      PROVE  /\ x \in DOMAIN runs'
             /\ runs'[x] # Null => runs'[x].d = d /\ runs'[x].status = "ok"
             /\ Outlived(x, d)'
  <2>1. x \in DoomedIn(proc[q]) /\ d = proc[q].row.d
    BY <1>1 DEF Shrunk
  <2>2. x \in RunIds /\ d \in Destinations
    BY <2>1, HandsFull, RowFields DEF BackupsTypeOK
  <2>3. /\ x \in DOMAIN runs /\ Outlived(x, d)
        /\ runs[x] # Null => runs[x].d = d /\ runs[x].status = "ok"
    BY <2>1 DEF DoomedIsOld
  <2>4. Outlived(x, d)'
    BY <2>2, <2>3
  <2> QED
    BY <2>3, <2>4 DEF Shrunk
<1> QED
  BY <1>1 DEF DoomedIsOld

\* The upload's file belongs to the run under way, which nobody deletes.
LEMMA DeliverFiles ==
    ASSUME BackupsTypeOK, FilesInv, NEW p \in Who, Deliver(p)
    PROVE  FilesInv'
<1>0. /\ drive \subseteq DOMAIN runs /\ RunsOwned /\ RunsUnderWay /\ UploadsStored /\ DoomedIsOld
      /\ GoneIsGone /\ NewestAreKept /\ FilesAreKnown
  BY DEF FilesInv
<1>1. PICK r \in Proc :
        /\ Continue(p, r)
        /\ Doing(p, "upload") /\ r.pc = "record" /\ r.row = proc[p].row /\ r.run = proc[p].run
        /\ \/ r.remote = Null /\ UNCHANGED <<drive, strays>>
           \/ r.remote = r.run /\ r.ok /\ drive' = drive \union {r.run} /\ UNCHANGED strays
           \/ r.remote = Null /\ drive' = drive \union {r.run} /\ strays' = strays \union {r.run}
        /\ UNCHANGED <<dest, runs, least, overtaken, served, edits>>
  BY DeliverSteps
<1>2. /\ proc'[p] = r
      /\ \A q \in Who \ {p} : proc'[q] = proc[q]
  BY <1>1, OneProc
<1>3. SameGood
  BY <1>1 DEF SameGood, Good, Exists
<1>4. RunsIn(r) = RunsIn(proc[p]) /\ DoomedIn(r) = DoomedIn(proc[p]) /\ RunsIn(proc[p]) = {r.run}
  BY <1>1 DEF RunsIn, DoomedIn, Doing
<1>5. Shrunk
  <2>1. ASSUME NEW q \in Who
        PROVE  /\ RunsIn(proc'[q]) = RunsIn(proc[q]) /\ DoomedIn(proc'[q]) = DoomedIn(proc[q])
               /\ proc'[q].row = proc[q].row
    BY <1>1, <1>2, <1>4
  <2> QED
    BY <1>1, <2>1 DEF Shrunk
<1>6. RunsUnderWay' /\ DoomedIsOld'
  BY <1>0, <1>3, <1>5, SameCounts, ShrunkHands, ShrunkDoomed
<1>7. /\ r.run \in DOMAIN runs /\ \A q \in Who : r.run \notin DoomedIn(proc[q])
  BY <1>0, <1>4 DEF RunsUnderWay
<1>8. drive \subseteq drive' /\ drive' \subseteq drive \union {r.run} /\ strays \subseteq strays'
  BY <1>1
<1>9. drive' \subseteq DOMAIN runs' /\ RunsOwned'
  BY <1>0, <1>1, <1>3, <1>7, <1>8 DEF RunsOwned, SameGood
<1>10. UploadsStored'
  <2>1. ASSUME NEW q \in Who, proc'[q].pc = "record", proc'[q].remote # Null
        PROVE  proc'[q].ok /\ proc'[q].remote = proc'[q].run /\ proc'[q].run \in drive'
    <3>1. CASE q = p
      BY <1>1, <1>2, <2>1, <3>1
    <3>2. CASE q # p
      BY <1>0, <1>2, <1>8, <2>1, <3>2 DEF UploadsStored, Doing
    <3> QED
      BY <3>1, <3>2
  <2> QED
    BY <2>1 DEF UploadsStored, Doing
<1>11. GoneIsGone'
  <2>1. ASSUME NEW q \in Who, proc'[q].pc = "clear" PROVE proc'[q].gone \notin drive'
    <3>1. proc'[q] = proc[q]
      BY <1>1, <1>2, <2>1
    <3>2. proc[q].gone \in DoomedIn(proc[q]) /\ proc[q].gone \notin drive
      BY <1>0, <2>1, <3>1 DEF GoneIsGone, DoomedIn, Doing
    <3> QED
      BY <1>7, <1>8, <3>1, <3>2
  <2> QED
    BY <2>1 DEF GoneIsGone, Doing
<1>12. NewestAreKept'
  BY <1>0, <1>3, <1>8, SameCounts DEF NewestAreKept, SameGood
<1>13. FilesAreKnown'
  <2>1. ASSUME NEW x \in drive'
        PROVE  \/ x \in strays' \/ runs[x] = Null \/ x \in Good(runs[x].d)
               \/ \E q \in Who : Doing(q, "record")' /\ proc'[q].run = x /\ proc'[q].remote = x
    <3>1. ASSUME NEW q \in Who, Doing(q, "record"), proc[q].run = x, proc[q].remote = x
          PROVE  \E z \in Who : Doing(z, "record")' /\ proc'[z].run = x /\ proc'[z].remote = x
      BY <1>1, <1>2, <3>1 DEF Doing
    <3>2. CASE x \in drive
      BY <1>0, <1>8, <3>1, <3>2 DEF FilesAreKnown
    <3>3. CASE x = r.run /\ x \notin drive
      <4>1. x \in strays' \/ (r.remote = x /\ Doing(p, "record")')
        BY <1>1, <1>2, <2>1, <3>3 DEF Doing
      <4> QED
        BY <1>2, <3>3, <4>1
    <3> QED
      BY <1>8, <2>1, <3>2, <3>3
  <2> QED
    BY <1>1, <1>3, <2>1 DEF FilesAreKnown, SameGood
<1> QED
  BY <1>6, <1>9, <1>10, <1>11, <1>12, <1>13 DEF FilesInv

\* A file that is deleted has as many younger ones as are to be kept.
LEMMA DeletedFiles ==
    ASSUME BackupsTypeOK, ScheduleInv, FilesInv, NEW p \in Who, Doing(p, "delete"),
           NEW r \in Proc, Continue(p, r),
           r.pc = "clear", r.row = proc[p].row, r.gone \in proc[p].stale, r.stale \subseteq proc[p].stale,
           drive' = drive \ {r.gone}, UNCHANGED <<dest, runs, marks, edits>>
    PROVE  FilesInv'
<1>0. /\ drive \subseteq DOMAIN runs /\ RunsOwned /\ RunsUnderWay /\ UploadsStored /\ DoomedIsOld
      /\ GoneIsGone /\ NewestAreKept /\ FilesAreKnown
  BY DEF FilesInv
<1>1. UNCHANGED <<dest, runs, least, strays>>
  BY DEF marks
<1>2. /\ proc'[p] = r
      /\ \A q \in Who \ {p} : proc'[q] = proc[q]
  BY OneProc
<1>3. SameGood
  BY <1>1 DEF SameGood, Good, Exists
<1>4. /\ RunsIn(r) = {} /\ RunsIn(proc[p]) = {} /\ DoomedIn(r) \subseteq DoomedIn(proc[p])
      /\ r.gone \in DoomedIn(proc[p])
  BY DEF RunsIn, DoomedIn, Doing
<1>5. Shrunk
  <2>1. ASSUME NEW q \in Who
        PROVE  /\ RunsIn(proc'[q]) = RunsIn(proc[q]) /\ DoomedIn(proc'[q]) \subseteq DoomedIn(proc[q])
               /\ proc'[q].row = proc[q].row
    BY <1>2, <1>4
  <2> QED
    BY <1>1, <2>1 DEF Shrunk
<1>6. RunsUnderWay' /\ DoomedIsOld'
  BY <1>0, <1>3, <1>5, SameCounts, ShrunkHands, ShrunkDoomed
<1>7. drive' \subseteq DOMAIN runs' /\ RunsOwned'
  BY <1>0, <1>1, <1>3 DEF RunsOwned, SameGood
<1>8. ASSUME NEW q \in Who, proc'[q].pc = "record"
      PROVE  proc'[q] = proc[q] /\ proc[q].run # r.gone
  <2>1. proc'[q] = proc[q]
    BY <1>2, <1>8
  <2>2. proc[q].run \in RunsIn(proc[q])
    BY <1>8, <2>1 DEF RunsIn
  <2> QED
    BY <1>0, <1>4, <2>1, <2>2 DEF RunsUnderWay
<1>9. UploadsStored'
  BY <1>0, <1>8 DEF UploadsStored, Doing
<1>10. GoneIsGone'
  <2>1. ASSUME NEW q \in Who, proc'[q].pc = "clear" PROVE proc'[q].gone \notin drive'
    BY <1>0, <1>2, <2>1 DEF GoneIsGone, Doing
  <2> QED
    BY <2>1 DEF GoneIsGone, Doing
<1>11. NewestAreKept'
  <2>1. ASSUME NEW d \in Destinations, Exists(d), NEW x \in Good(d),
               Cardinality(Younger(x, Good(d))) < least[d]
        PROVE  x \in drive'
    <3>1. x \in drive
      BY <1>0, <2>1 DEF NewestAreKept
    <3>2. x # r.gone
      <4>1. SUFFICES ASSUME x = r.gone PROVE FALSE
        OBVIOUS
      <4>2. d = proc[p].row.d
        BY <1>0, <1>4, <4>1 DEF DoomedIsOld, Good
      <4>3. Outlived(x, d)
        BY <1>0, <1>4, <4>1, <4>2 DEF DoomedIsOld
      <4>4. Cardinality(Younger(x, Good(d))) >= least[d]
        BY <2>1, <4>3 DEF Outlived
      <4>5. Cardinality(Younger(x, Good(d))) \in Nat
        BY GoodRuns
      <4>6. least[d] \in Nat
        BY <2>1, Destined DEF ScheduleInv, CountKnown
      <4> QED
        BY <2>1, <4>4, <4>5, <4>6
    <3> QED
      BY <3>1, <3>2
  <2> QED
    BY <1>3, <2>1, SameCounts DEF NewestAreKept, SameGood
<1>12. FilesAreKnown'
  <2>1. ASSUME NEW x \in drive'
        PROVE  \/ x \in strays \/ runs[x] = Null \/ x \in Good(runs[x].d)
               \/ \E q \in Who : Doing(q, "record")' /\ proc'[q].run = x /\ proc'[q].remote = x
    <3>1. ASSUME NEW q \in Who, Doing(q, "record"), proc[q].run = x, proc[q].remote = x
          PROVE  \E z \in Who : Doing(z, "record")' /\ proc'[z].run = x /\ proc'[z].remote = x
      BY <1>2, <3>1 DEF Doing
    <3> QED
      BY <1>0, <2>1, <3>1 DEF FilesAreKnown
  <2> QED
    BY <1>1, <1>3, <2>1 DEF FilesAreKnown, SameGood
<1> QED
  BY <1>6, <1>7, <1>9, <1>10, <1>11, <1>12 DEF FilesInv

\* The row of a destination goes with its runs; the files stay.
LEMMA DeleteFiles ==
    ASSUME BackupsTypeOK, FilesInv, NEW d \in Destinations, Delete(d)
    PROVE  FilesInv'
<1>0. /\ drive \subseteq DOMAIN runs /\ RunsOwned /\ RunsUnderWay /\ UploadsStored /\ DoomedIsOld
      /\ GoneIsGone /\ NewestAreKept /\ FilesAreKnown
  BY DEF FilesInv
<1>1. /\ UNCHANGED <<drive, proc, least, strays>>
      /\ DOMAIN runs' = DOMAIN runs
      /\ \A x \in DOMAIN runs : runs'[x] = IF runs[x] # Null /\ runs[x].d = d THEN Null ELSE runs[x]
      /\ dest'[d] = Null /\ \A e \in Destinations \ {d} : dest'[e] = dest[e]
  BY DEF Delete, marks, BackupsTypeOK
<1>2. \A e : e # d => Good(e)' = Good(e)
  BY <1>1 DEF Good
<1>3. \A e \in Destinations : Exists(e)' <=> Exists(e) /\ e # d
  BY <1>1 DEF Exists
<1>4. \A x : \A e \in Destinations \ {d} : Younger(x, Good(e))' = Younger(x, Good(e))
  BY <1>2 DEF Younger
<1>5. \A x \in RunIds, e \in Destinations : Outlived(x, e) => Outlived(x, e)'
  <2>1. ASSUME NEW x \in RunIds, NEW e \in Destinations, Outlived(x, e)
        PROVE  Outlived(x, e)'
    <3>1. CASE dest'[e] # Null
      <4>1. Exists(e) /\ Younger(x, Good(e))' = Younger(x, Good(e)) /\ least'[e] = least[e]
        BY <1>1, <1>3, <1>4, <3>1 DEF Exists
      <4>2. Cardinality(Younger(x, Good(e))) >= least[e]
        BY <2>1, <4>1 DEF Outlived
      <4> QED
        BY <4>1, <4>2 DEF Outlived
    <3>2. CASE dest'[e] = Null
      BY <3>2 DEF Outlived, Exists
    <3> QED
      BY <3>1, <3>2
  <2> QED
    BY <2>1
<1>6. Shrunk
  <2>1. \A q \in Who : \A x \in RunsIn(proc[q]) : x \in DOMAIN runs
    BY <1>0 DEF RunsUnderWay
  <2>2. \A x \in DOMAIN runs : runs'[x] # Null => runs[x] # Null /\ runs'[x] = runs[x]
    BY <1>1
  <2> QED
    BY <1>1, <2>1, <2>2 DEF Shrunk
<1>7. RunsUnderWay' /\ DoomedIsOld'
  BY <1>0, <1>5, <1>6, ShrunkHands, ShrunkDoomed
<1>8. drive' \subseteq DOMAIN runs'
  BY <1>0, <1>1
<1>9. RunsOwned'
  <2>1. ASSUME NEW x \in DOMAIN runs, runs'[x] # Null, NEW e, e = runs'[x].d
        PROVE  dest'[e] # Null
    <3>1. runs[x] # Null /\ e # d /\ e = runs[x].d
      BY <1>1, <2>1
    <3>2. e \in Destinations /\ dest[e] # Null
      BY <1>0, <3>1, RunList, RunFields DEF RunsOwned, Exists
    <3> QED
      BY <1>1, <3>1, <3>2
  <2> QED
    BY <1>1, <2>1 DEF RunsOwned, Exists
<1>10. UploadsStored' /\ GoneIsGone'
  BY <1>0, <1>1 DEF UploadsStored, GoneIsGone, Doing
<1>11. NewestAreKept'
  BY <1>0, <1>1, <1>2, <1>3, <1>4 DEF NewestAreKept
<1>12. FilesAreKnown'
  <2>1. ASSUME NEW x \in drive, x \notin strays, runs'[x] # Null, NEW e, e = runs'[x].d,
               ~\E q \in Who : Doing(q, "record") /\ proc[q].run = x /\ proc[q].remote = x
        PROVE  x \in Good(e)'
    <3>1. x \in DOMAIN runs /\ runs[x] # Null /\ e # d /\ e = runs[x].d
      BY <1>0, <1>1, <2>1
    <3>2. x \in Good(e)
      BY <1>0, <2>1, <3>1 DEF FilesAreKnown
    <3> QED
      BY <1>2, <3>1, <3>2
  <2> QED
    BY <1>1, <2>1 DEF FilesAreKnown, Doing
<1> QED
  BY <1>7, <1>8, <1>9, <1>10, <1>11, <1>12 DEF FilesInv

\* Record: an upload with an id makes the run good, and it is on Drive.
LEMMA RecordFiles ==
    ASSUME BackupsTypeOK, ScheduleInv, FilesInv, NEW p \in Who, Record(p), runs[proc[p].run] # Null
    PROVE  FilesInv'
<1>0. /\ drive \subseteq DOMAIN runs /\ RunsOwned /\ RunsUnderWay /\ UploadsStored /\ DoomedIsOld
      /\ GoneIsGone /\ NewestAreKept /\ FilesAreKnown
  BY DEF FilesInv
<1>1. PICK n : n = proc[p].run
  OBVIOUS
<1>2. /\ proc[p].pc = "record" /\ n \in RunsIn(proc[p])
      /\ n \in DOMAIN runs /\ runs[n].d = proc[p].row.d /\ runs[n].status = "running" /\ runs[n] # Null
  BY <1>0, <1>1 DEF Record, Doing, RunsIn, RunsUnderWay
<1>3. PICK r \in Proc : Continue(p, r) /\ Quiet(r)
  BY <1>1, <1>2, RecordSteps
<1>4. /\ proc'[p] = r
      /\ \A q \in Who \ {p} : proc'[q] = proc[q]
      /\ RunsIn(r) = {} /\ DoomedIn(r) = {} /\ r.pc # "record" /\ r.pc # "clear"
  BY <1>3, OneProc, QuietHands
<1>5. PICK x \in Run :
        /\ x.d = runs[n].d /\ x.remote = proc[p].remote
        /\ x.status = IF proc[p].ok THEN "ok" ELSE "failed"
        /\ runs' = [runs EXCEPT ![n] = x]
  BY <1>1, <1>2, RecordSteps
<1>6. UNCHANGED <<dest, drive, least, strays>>
  BY DEF Record, marks
<1>7. /\ DOMAIN runs' = DOMAIN runs /\ runs'[n] = x /\ x # Null
      /\ \A q \in DOMAIN runs \ {n} : runs'[q] = runs[q]
  BY <1>2, <1>5, RunRewritten, RunFields
<1>8. ASSUME NEW q \in Who, q # p
      PROVE  proc'[q] = proc[q] /\ n \notin RunsIn(proc[q])
  BY <1>0, <1>2, <1>4, <1>8 DEF RunsUnderWay
<1>9. Shrunk
  <2>1. ASSUME NEW q \in Who
        PROVE  /\ RunsIn(proc'[q]) \subseteq RunsIn(proc[q]) /\ DoomedIn(proc'[q]) \subseteq DoomedIn(proc[q])
               /\ RunsIn(proc'[q]) # {} \/ DoomedIn(proc'[q]) # {} => proc'[q].row = proc[q].row
               /\ n \notin RunsIn(proc'[q])
    BY <1>4, <1>8
  <2>2. \A q \in Who : \A y \in RunsIn(proc'[q]) : y \in DOMAIN runs /\ y # n
    BY <1>0, <2>1 DEF RunsUnderWay
  <2>3. \A y \in DOMAIN runs : runs'[y] # Null =>
           /\ runs[y] # Null /\ runs'[y].d = runs[y].d
           /\ runs[y].status = "ok" => runs'[y].status = "ok"
    BY <1>2, <1>5, <1>7
  <2> QED
    BY <1>7, <2>1, <2>2, <2>3 DEF Shrunk
<1>10. \A d : /\ Good(d) \subseteq Good(d)' /\ Good(d)' \subseteq Good(d) \union {n}
              /\ n \in Good(d)' => n \in drive
  <2>1. ASSUME NEW d PROVE Good(d) \subseteq Good(d)' /\ Good(d)' \subseteq Good(d) \union {n}
    BY <1>2, <1>5, <1>7 DEF Good
  <2>2. ASSUME NEW d, n \in Good(d)' PROVE n \in drive
    <3>1. proc[p].remote # Null
      BY <1>5, <1>7, <2>2 DEF Good
    <3> QED
      BY <1>0, <1>1, <1>2, <3>1 DEF UploadsStored, Doing
  <2> QED
    BY <2>1, <2>2
<1>11. ASSUME NEW y, NEW d
       PROVE  /\ Cardinality(Younger(y, Good(d))) \in Nat /\ Cardinality(Younger(y, Good(d))') \in Nat
              /\ Cardinality(Younger(y, Good(d))) <= Cardinality(Younger(y, Good(d))')
  <2>1. Younger(y, Good(d)) \subseteq Younger(y, Good(d))' /\ Younger(y, Good(d))' \subseteq Good(d) \union {n}
    BY <1>10 DEF Younger
  <2>2. IsFiniteSet(Good(d) \union {n})
    BY GoodRuns, FS_AddElement
  <2>3. IsFiniteSet(Younger(y, Good(d))')
    BY <2>1, <2>2, FS_Subset
  <2> QED
    BY <2>1, <2>3, FS_Subset, FS_CardinalityType
<1>12. \A y \in RunIds, d \in Destinations : Outlived(y, d) => Outlived(y, d)'
  <2>1. ASSUME NEW y \in RunIds, NEW d \in Destinations, Outlived(y, d), Exists(d)
        PROVE  Outlived(y, d)'
    <3>1. Cardinality(Younger(y, Good(d))) >= least[d] /\ least[d] \in Nat
      BY <2>1, Destined DEF Outlived, ScheduleInv, CountKnown
    <3> QED
      BY <1>6, <1>11, <3>1 DEF Outlived
  <2>2. ASSUME NEW y \in RunIds, NEW d \in Destinations, ~Exists(d) PROVE Outlived(y, d)'
    BY <1>6, <2>2 DEF Outlived, Exists
  <2> QED
    BY <2>1, <2>2
<1>13. RunsUnderWay' /\ DoomedIsOld'
  BY <1>0, <1>9, <1>12, ShrunkHands, ShrunkDoomed
<1>14. drive' \subseteq DOMAIN runs' /\ RunsOwned'
  BY <1>0, <1>2, <1>5, <1>6, <1>7 DEF RunsOwned, Exists
<1>15. UploadsStored' /\ GoneIsGone'
  <2>1. ASSUME NEW q \in Who, proc'[q].pc \in {"record", "clear"} PROVE proc'[q] = proc[q]
    BY <1>4, <2>1
  <2> QED
    BY <1>0, <1>6, <2>1 DEF UploadsStored, GoneIsGone, Doing
<1>16. NewestAreKept'
  <2>1. ASSUME NEW d \in Destinations, Exists(d), NEW y \in Good(d)',
               Cardinality(Younger(y, Good(d))') < least[d]
        PROVE  y \in drive
    <3>1. CASE y = n
      BY <1>10, <2>1, <3>1
    <3>2. CASE y # n
      <4>1. y \in Good(d) /\ least[d] \in Nat
        BY <1>10, <2>1, <3>2, Destined DEF ScheduleInv, CountKnown
      <4>2. Cardinality(Younger(y, Good(d))) < least[d]
        BY <1>11, <2>1, <4>1
      <4> QED
        BY <1>0, <2>1, <4>1, <4>2 DEF NewestAreKept
    <3> QED
      BY <3>1, <3>2
  <2> QED
    BY <1>6, <2>1 DEF NewestAreKept, Exists
<1>17. FilesAreKnown'
  <2>1. ASSUME NEW y \in drive, y \notin strays, runs'[y] # Null, NEW e, e = runs'[y].d
        PROVE  \/ y \in Good(e)'
               \/ \E q \in Who : proc'[q].pc = "record" /\ proc'[q].run = y /\ proc'[q].remote = y
    <3>1. y \in DOMAIN runs /\ runs[y] # Null /\ e = runs[y].d
      BY <1>0, <1>2, <1>5, <1>7, <2>1
    <3>2. CASE y \in Good(e)
      BY <1>10, <3>2
    <3>3. ASSUME NEW q \in Who, proc[q].pc = "record", proc[q].run = y, proc[q].remote = y
          PROVE  \/ y \in Good(e)'
                 \/ \E z \in Who : proc'[z].pc = "record" /\ proc'[z].run = y /\ proc'[z].remote = y
      <4>1. CASE q # p
        BY <1>8, <3>3, <4>1
      <4>2. CASE q = p
        <5>1. y = n /\ proc[p].remote # Null
          BY <1>1, <3>1, <3>3, <4>2, RunList, NullAssumption
        <5>2. x.status = "ok" /\ x.remote # Null
          BY <1>0, <1>2, <1>5, <5>1 DEF UploadsStored, Doing
        <5> QED
          BY <1>7, <2>1, <3>1, <5>1, <5>2 DEF Good
      <4> QED
        BY <4>1, <4>2
    <3> QED
      BY <1>0, <2>1, <3>1, <3>2, <3>3 DEF FilesAreKnown, Doing
  <2> QED
    BY <1>6, <2>1 DEF FilesAreKnown, Doing
<1> QED
  BY <1>13, <1>14, <1>15, <1>16, <1>17 DEF FilesInv

\* Clear: a file that is gone is not counted any more; the runs before it are
\* outlived by those that outlived it.
LEMMA ClearFiles ==
    ASSUME BackupsTypeOK, ScheduleInv, FilesInv, NEW p \in Who, Clear(p), runs[proc[p].gone] # Null
    PROVE  FilesInv'
<1>0. /\ drive \subseteq DOMAIN runs /\ RunsOwned /\ RunsUnderWay /\ UploadsStored /\ DoomedIsOld
      /\ GoneIsGone /\ NewestAreKept /\ FilesAreKnown
  BY DEF FilesInv
<1>1. PICK g : g = proc[p].gone
  OBVIOUS
<1>2. /\ proc[p].pc = "clear" /\ g \in DoomedIn(proc[p]) /\ g \in DOMAIN runs /\ g \in RunIds
      /\ runs[g].d = proc[p].row.d /\ runs[g].status = "ok" /\ runs[g] # Null
      /\ g \notin drive
  BY <1>0, <1>1, RunList DEF Clear, Doing, DoomedIn, DoomedIsOld, GoneIsGone
<1>3. PICK r \in Proc :
        Continue(p, r) /\ r.pc = "delete" /\ r.row = proc[p].row /\ r.stale = proc[p].stale
  BY <1>1, <1>2, ClearSteps
<1>4. /\ proc'[p] = r
      /\ \A q \in Who \ {p} : proc'[q] = proc[q]
      /\ RunsIn(r) = {} /\ RunsIn(proc[p]) = {} /\ DoomedIn(r) \subseteq DoomedIn(proc[p])
  BY <1>2, <1>3, OneProc DEF RunsIn, DoomedIn
<1>5. PICK x \in Run :
        /\ x.d = runs[g].d /\ x.status = runs[g].status /\ x.remote = Null
        /\ runs' = [runs EXCEPT ![g] = x]
  BY <1>1, <1>2, ClearSteps
<1>6. UNCHANGED <<dest, drive, least, strays>>
  BY DEF Clear, marks
<1>7. /\ DOMAIN runs' = DOMAIN runs /\ runs'[g] = x /\ x # Null
      /\ \A q \in DOMAIN runs \ {g} : runs'[q] = runs[q]
  BY <1>2, <1>5, RunRewritten, RunFields
<1>8. Shrunk
  <2>1. ASSUME NEW q \in Who
        PROVE  /\ RunsIn(proc'[q]) \subseteq RunsIn(proc[q]) /\ DoomedIn(proc'[q]) \subseteq DoomedIn(proc[q])
               /\ proc'[q].row = proc[q].row
    BY <1>3, <1>4
  <2>2. \A q \in Who : \A y \in RunsIn(proc'[q]) : y \in DOMAIN runs
    BY <1>0, <2>1 DEF RunsUnderWay
  <2>3. \A y \in DOMAIN runs : runs'[y] # Null =>
           runs[y] # Null /\ runs'[y].d = runs[y].d /\ runs'[y].status = runs[y].status
    BY <1>2, <1>5, <1>7
  <2> QED
    BY <1>7, <2>1, <2>2, <2>3 DEF Shrunk
<1>9. /\ \A d : Good(d)' = Good(d) \ {g}
      /\ \A d : g \in Good(d) => d = proc[p].row.d
  BY <1>2, <1>5, <1>7 DEF Good
<1>10. ASSUME NEW y \in RunIds, NEW d \in Destinations, Exists(d),
              Cardinality(Younger(y, Good(d))) >= least[d]
       PROVE  Cardinality(Younger(y, Good(d))') >= least[d]
  <2>1. \A z \in Good(d) : z \in Nat
    BY GoodRuns, RunList DEF RunIds
  <2>2. CASE g \notin Good(d) \/ g <= y
    <3>1. Younger(y, Good(d))' = Younger(y, Good(d))
      BY <1>2, <1>9, <2>1, <2>2 DEF Younger, RunIds
    <3> QED
      BY <1>10, <3>1
  <2>3. CASE g \in Good(d) /\ y < g
    <3>1. Cardinality(Younger(g, Good(d))) >= least[d]
      <4>1. d = proc[p].row.d
        BY <1>9, <2>3
      <4>2. Outlived(g, d)
        BY <1>0, <1>2, <4>1 DEF DoomedIsOld
      <4> QED
        BY <1>10, <4>2 DEF Outlived
    <3>2. Younger(g, Good(d)) \subseteq Younger(y, Good(d))'
      BY <1>2, <1>9, <2>1, <2>3 DEF Younger, RunIds
    <3>3. IsFiniteSet(Younger(y, Good(d))')
      <4>1. Younger(y, Good(d))' \subseteq Good(d)
        BY <1>9 DEF Younger
      <4> QED
        BY <4>1, GoodRuns, FS_Subset
    <3>4. /\ Cardinality(Younger(g, Good(d))) \in Nat /\ Cardinality(Younger(y, Good(d))') \in Nat
          /\ Cardinality(Younger(g, Good(d))) <= Cardinality(Younger(y, Good(d))')
      BY <3>2, <3>3, FS_Subset, FS_CardinalityType
    <3>5. least[d] \in Nat
      BY <1>10, Destined DEF ScheduleInv, CountKnown
    <3> QED
      BY <3>1, <3>4, <3>5
  <2> QED
    BY <1>2, <2>2, <2>3 DEF RunIds
<1>11. \A y \in RunIds, d \in Destinations : Outlived(y, d) => Outlived(y, d)'
  <2>1. ASSUME NEW y \in RunIds, NEW d \in Destinations, Outlived(y, d), Exists(d)
        PROVE  Outlived(y, d)'
    <3>1. Cardinality(Younger(y, Good(d))) >= least[d]
      BY <2>1 DEF Outlived
    <3> QED
      BY <1>6, <1>10, <2>1, <3>1 DEF Outlived
  <2>2. ASSUME NEW y \in RunIds, NEW d \in Destinations, ~Exists(d) PROVE Outlived(y, d)'
    BY <1>6, <2>2 DEF Outlived, Exists
  <2> QED
    BY <2>1, <2>2
<1>12. RunsUnderWay' /\ DoomedIsOld'
  BY <1>0, <1>8, <1>11, ShrunkHands, ShrunkDoomed
<1>13. drive' \subseteq DOMAIN runs' /\ RunsOwned'
  BY <1>0, <1>2, <1>5, <1>6, <1>7 DEF RunsOwned, Exists
<1>14. UploadsStored' /\ GoneIsGone'
  <2>1. ASSUME NEW q \in Who, proc'[q].pc \in {"record", "clear"} PROVE proc'[q] = proc[q]
    BY <1>3, <1>4, <2>1
  <2> QED
    BY <1>0, <1>6, <2>1 DEF UploadsStored, GoneIsGone, Doing
<1>15. NewestAreKept'
  <2>1. ASSUME NEW d \in Destinations, Exists(d), NEW y \in Good(d)',
               Cardinality(Younger(y, Good(d))') < least[d]
        PROVE  y \in drive
    <3>1. y \in Good(d) /\ least[d] \in Nat /\ y \in RunIds
      BY <1>9, <2>1, Destined, GoodRuns, RunList DEF ScheduleInv, CountKnown
    <3>2. Cardinality(Younger(y, Good(d))) \in Nat
      BY GoodRuns
    <3>3. Cardinality(Younger(y, Good(d))') \in Nat
      <4>1. Younger(y, Good(d))' \subseteq Good(d)
        BY <1>9 DEF Younger
      <4> QED
        BY <4>1, GoodRuns, FS_Subset, FS_CardinalityType
    <3>4. Cardinality(Younger(y, Good(d))) < least[d]
      BY <1>10, <2>1, <3>1, <3>2, <3>3
    <3> QED
      BY <1>0, <2>1, <3>1, <3>4 DEF NewestAreKept
  <2> QED
    BY <1>6, <2>1 DEF NewestAreKept, Exists
<1>16. FilesAreKnown'
  <2>1. ASSUME NEW y \in drive, y \notin strays, runs'[y] # Null, NEW e, e = runs'[y].d
        PROVE  \/ y \in Good(e)'
               \/ \E q \in Who : proc'[q].pc = "record" /\ proc'[q].run = y /\ proc'[q].remote = y
    <3>1. y \in DOMAIN runs /\ y # g /\ runs[y] # Null /\ e = runs[y].d
      BY <1>0, <1>2, <1>7, <2>1
    <3>2. CASE y \in Good(e)
      BY <1>9, <3>1, <3>2
    <3>3. ASSUME NEW q \in Who, proc[q].pc = "record", proc[q].run = y, proc[q].remote = y
          PROVE  \E z \in Who : proc'[z].pc = "record" /\ proc'[z].run = y /\ proc'[z].remote = y
      BY <1>2, <1>4, <3>3
    <3> QED
      BY <1>0, <2>1, <3>1, <3>2, <3>3 DEF FilesAreKnown, Doing
  <2> QED
    BY <1>6, <2>1 DEF FilesAreKnown, Doing
<1> QED
  BY <1>12, <1>13, <1>14, <1>15, <1>16 DEF FilesInv

LEMMA NextFiles ==
    ASSUME BackupsTypeOK, BackupsTypeOK', ScheduleInv, ScheduleInv', FilesInv, [BackupsNext]_backupsVars
    PROVE  FilesInv'
<1>0. RunsUnderWay /\ DoomedIsOld
  BY DEF FilesInv
<1>1. ASSUME NEW p \in Who, Start(p) PROVE FilesInv'
  <2>1. PICK row \in Row :
          /\ Doing(p, "next") /\ Insert(p, row, "running")
          /\ Started(p, row) \in Proc /\ Continue(p, Started(p, row))
          /\ UNCHANGED <<dest, drive, least, overtaken, strays, edits>>
    BY <1>1, StartSteps
  <2>2. PICK r \in Proc : r = Started(p, row)
    BY <2>1
  <2>3. CASE Exists(row.d)
    <3>1. r = [pc |-> "upload", todo |-> proc[p].todo \ {row}, row |-> row, run |-> Len(runs) + 1]
      BY <2>2, <2>3 DEF Started
    <3>2. r.pc = "upload" /\ r.row = row /\ r.run = Len(runs) + 1
      BY <3>1
    <3> QED
      BY <2>1, <2>2, <2>3, <3>2, InsertFiles DEF Doing
  <2>4. CASE ~Exists(row.d)
    <3>1. Quiet(r)
      <4>1. CASE p = "worker"
        <5>1. r = [pc |-> "advance", todo |-> proc[p].todo \ {row}, row |-> row, dumped |-> TRUE]
          BY <2>2, <2>4, <4>1 DEF Started
        <5> QED
          BY <5>1 DEF Quiet
      <4>2. CASE p # "worker"
        BY <2>2, <2>4, <4>2, AtRestIsProc DEF Started, Quiet
      <4> QED
        BY <4>1, <4>2
    <3>2. \A q \in Who : HandsOn(q)
      BY <2>1, <2>2, <3>1, OneProc DEF HandsOn, Doing
    <3>3. UNCHANGED runs /\ DestinationsOn
      BY <2>1, <2>4, InsertTypes, DestinationsStay
    <3> QED
      BY <2>1, <3>2, <3>3, FilesStep
  <2> QED
    BY <2>3, <2>4
<1>2. ASSUME FailRun PROVE FilesInv'
  <2>1. PICK row \in Row :
          /\ Doing("worker", "no dump") /\ Insert("worker", row, "failed")
          /\ NoDump(row) \in Proc /\ Continue("worker", NoDump(row))
          /\ UNCHANGED <<dest, drive, least, overtaken, strays, edits>>
    BY <1>2, FailRunSteps
  <2>2. PICK r \in Proc : r = NoDump(row)
    BY <2>1
  <2>3. Quiet(r)
    BY <2>2 DEF NoDump, Quiet
  <2>4. CASE Exists(row.d)
    BY <2>1, <2>2, <2>3, <2>4, InsertFiles DEF Doing, Who
  <2>5. CASE ~Exists(row.d)
    <3>1. \A q \in Who : HandsOn(q)
      BY <2>1, <2>2, <2>3, OneProc DEF HandsOn, Doing, Who
    <3>2. UNCHANGED runs /\ DestinationsOn
      BY <2>1, <2>5, InsertTypes, DestinationsStay DEF Who
    <3> QED
      BY <2>1, <3>1, <3>2, FilesStep
  <2> QED
    BY <2>4, <2>5
<1>3. ASSUME NEW p \in Who, Record(p) PROVE FilesInv'
  <2>1. proc[p].run \in DOMAIN runs
    BY <1>0, <1>3 DEF Record, Doing, RunsUnderWay, RunsIn
  <2>2. CASE runs[proc[p].run] = Null
    <3>1. PICK r \in Proc : Continue(p, r) /\ Quiet(r)
      BY <1>3, <2>1, RecordSteps
    <3>2. UNCHANGED <<runs, drive, strays>> /\ DestinationsOn
      BY <1>3, <2>2, DestinationsStay DEF Record, marks
    <3>3. \A q \in Who : HandsOn(q)
      BY <2>2, <3>1, OneProc DEF HandsOn
    <3> QED
      BY <3>2, <3>3, FilesStep
  <2> QED
    BY <1>3, <2>2, RecordFiles
<1>4. ASSUME NEW p \in Who, Clear(p) PROVE FilesInv'
  <2>1. proc[p].gone \in DOMAIN runs /\ proc[p].pc = "clear"
    BY <1>0, <1>4 DEF Clear, Doing, DoomedIsOld, DoomedIn
  <2>2. CASE runs[proc[p].gone] = Null
    <3>1. PICK r \in Proc :
            Continue(p, r) /\ r.pc = "delete" /\ r.row = proc[p].row /\ r.stale = proc[p].stale
      BY <1>4, <2>1, ClearSteps
    <3>2. UNCHANGED <<runs, drive, strays>> /\ DestinationsOn
      BY <1>4, <2>2, DestinationsStay DEF Clear, marks
    <3>3. \A q \in Who : HandsOn(q)
      BY <2>1, <3>1, OneProc DEF HandsOn, Doing, DoomedIn
    <3> QED
      BY <3>2, <3>3, FilesStep
  <2> QED
    BY <1>4, <2>2, ClearFiles
<1>5. ASSUME NEW p \in Who, DeleteFile(p) PROVE FilesInv'
  <2>1. PICK r \in Proc :
          /\ Continue(p, r)
          /\ \/ Quiet(r) /\ UNCHANGED drive
             \/ /\ r.pc = "clear" /\ r.row = proc[p].row
                /\ r.gone \in proc[p].stale /\ r.stale \subseteq proc[p].stale
                /\ drive' = drive \ {r.gone}
             \/ /\ r.pc = "delete" /\ r.row = proc[p].row /\ r.stale \subseteq proc[p].stale
                /\ UNCHANGED drive
    BY <1>5, DeleteFileSteps
  <2>2. Doing(p, "delete") /\ UNCHANGED <<dest, runs, marks, edits>> /\ UNCHANGED <<runs, strays>>
    BY <1>5, DeleteFileSteps DEF marks
  <2>3. CASE /\ drive' = drive
             /\ \/ Quiet(r)
                \/ /\ r.pc = "delete" /\ r.row = proc[p].row
                   /\ r.stale \subseteq proc[p].stale
    <3>1. \A q \in Who : HandsOn(q)
      BY <2>1, <2>2, <2>3, OneProc DEF HandsOn, Doing, DoomedIn
    <3>2. DestinationsOn
      BY <2>2, DestinationsStay DEF marks
    <3> QED
      BY <2>2, <2>3, <3>1, <3>2, FilesStep
  <2>4. CASE /\ r.pc = "clear" /\ r.row = proc[p].row
             /\ r.gone \in proc[p].stale /\ r.stale \subseteq proc[p].stale
             /\ drive' = drive \ {r.gone}
    BY <2>1, <2>2, <2>4, DeletedFiles
  <2> QED
    BY <2>1, <2>3, <2>4
<1>6. ASSUME NEW p \in Who, Deliver(p) PROVE FilesInv'
  BY <1>6, DeliverFiles
<1>7. ASSUME NEW d \in Destinations, Delete(d) PROVE FilesInv'
  BY <1>7, DeleteFiles
<1>8. ASSUME \/ Boot \/ Poll \/ HangUp \/ Crash \/ Advance
             \/ UNCHANGED backupsVars
             \/ \E p \in Who : List(p)
             \/ \E d \in Destinations :
                  \/ RunNow(d) \/ Tick(d)
                  \/ \E s \in Schedules, k \in Retains \union {0} :
                       \/ \E kind \in Kind : Create(d, kind, s, k)
                       \/ \E on \in BOOLEAN : Update(d, s, k, on)
      PROVE  FilesInv'
  BY <1>8, QuietFiles
<1> QED
  BY <1>1, <1>2, <1>3, <1>4, <1>5, <1>6, <1>7, <1>8 DEF BackupsNext

-----------------------------------------------------------------------------
(* Backups: the theorems.                                                  *)

LEMMA BackupsInvariant == BackupsSpec => []BackupsInv
<1>1. BackupsInit => BackupsInv
  BY InitBackupsTypes, InitSchedule, InitFiles DEF BackupsInv
<1>2. BackupsInv /\ [BackupsNext]_backupsVars => BackupsInv'
  <2> SUFFICES ASSUME BackupsInv, [BackupsNext]_backupsVars PROVE BackupsInv'
    OBVIOUS
  <2>1. BackupsTypeOK /\ ScheduleInv /\ FilesInv /\ RunsUnderWay /\ DoomedIsOld
    BY DEF BackupsInv, FilesInv
  <2>2. BackupsTypeOK'
    BY <2>1, NextBackupsTypes
  <2>3. ScheduleInv'
    BY <2>1, NextSchedule
  <2> QED
    BY <2>1, <2>2, <2>3, NextFiles DEF BackupsInv
<1> QED
  BY <1>1, <1>2, PTL DEF BackupsSpec

\* Every row, run and request keeps its form: the deliveries of worker and "Run
\* now", edits, deletions and crashes in any order.
THEOREM BackupsTyped == BackupsSpec => []BackupsTypeOK
<1>1. BackupsInv => BackupsTypeOK
  BY DEF BackupsInv
<1> QED
  BY <1>1, BackupsInvariant, PTL

\* An enabled destination has a next run, by its present schedule unless it was
\* edited while the worker had its row in hand: update writes the next run anew,
\* and advance writes it by the schedule poll had read.
THEOREM ScheduleIsFollowed == BackupsSpec => []NextFollowsSchedule
<1>1. BackupsInv => NextFollowsSchedule
  BY DEF BackupsInv, ScheduleInv
<1> QED
  BY <1>1, BackupsInvariant, PTL

\* However worker and "Run now" prune, and whoever edits the count meanwhile, the
\* newest good files of a destination are on Drive, as many as it was ever told
\* to keep at least: prune deletes only what that many younger ones outlive.
THEOREM NewestStay == BackupsSpec => []NewestAreKept
<1>1. BackupsInv => NewestAreKept
  BY DEF BackupsInv, FilesInv
<1> QED
  BY <1>1, BackupsInvariant, PTL

\* A file on Drive is a run's that can still be pruned, or about to be recorded
\* as one, or belongs to a deleted destination, or is one nobody was told of:
\* clear follows only a deletion that Drive confirmed.
THEOREM FilesStayKnown == BackupsSpec => []FilesAreKnown
<1>1. BackupsInv => FilesAreKnown
  BY DEF BackupsInv, FilesInv
<1> QED
  BY <1>1, BackupsInvariant, PTL

\* The worker adds no run for a destination that it ran since it was last due,
\* whatever was edited or failed since, unless the server died in between.
THEOREM OncePerTick == BackupsSpec => OncePerTime
<1>1. BackupsInv /\ [BackupsNext]_backupsVars =>
        [\A r \in DOMAIN runs' \ DOMAIN runs :
           proc'["worker"] # proc["worker"] => runs'[r].d \notin served]_backupsVars
  <2> SUFFICES ASSUME BackupsInv, [BackupsNext]_backupsVars,
                      NEW r \in DOMAIN runs' \ DOMAIN runs, proc'["worker"] # proc["worker"]
               PROVE  runs'[r].d \notin served
    OBVIOUS
  <2> QED
    BY NothingTwice DEF BackupsInv, FilesInv
<1> QED
  BY <1>1, BackupsInvariant, PTL DEF BackupsSpec, OncePerTime

-----------------------------------------------------------------------------
(* Restore: what holds of requests, copies and databases.                  *)

\* An admin has a file with this content at hand.
FileSaved(c) == (\E f \in Files : f.content = c) \/ c \in held

\* What is uploaded was a file at hand before.
UploadsSaved ==
    /\ \A a \in Admins : req[a].pc # "idle" => FileSaved(req[a].file.content)
    /\ \A o \in orphans : FileSaved(o.file.content)

\* A psql that still loads was cut off since the scratch database was dropped.
LoadingIsStray == \A o \in orphans : o.pc = "loading" => stray

\* Whoever made the scratch database has yet to drop it.
WillCleanUp == {"connect", "loading", "count", "cleanup"}
SomeoneCleansUp == trial # None /\ ~stray => \E a \in Admins : req[a].pc \in WillCleanUp

\* The part of the invariant that says what is there; the rest says what is kept.
RestoreInv ==
    /\ TypeOK
    /\ UploadsSaved
    /\ LoadingIsStray
    /\ SomeoneCleansUp
    /\ SchemaFits

\* What was dumped last is what the database holds, unless the staff has written
\* since or the database was restored from a file.
FreshCopies ==
    \A a \in Admins : At(a, "write") =>
      /\ req[a].copy \in Copy
      /\ req[a].late \/ req[a].copy.content = db.content \/ FileSaved(db.content)

\* A replacement is under way whose copy misses nothing.
InTime ==
    \/ \E a \in Admins : At(a, "live") /\ ~req[a].late
    \/ \E o \in orphans : o.pc = "live" /\ ~o.late

\* Those who have yet to write a copy of something else: each pushes the copy
\* of the database one place towards the end that is pruned.
Overtaking == {a \in Admins : At(a, "write") /\ req[a].copy.content # db.content}
OnDisk ==
    \E i \in DOMAIN safety :
      /\ safety[i].content = db.content
      /\ Len(safety) - i + Cardinality(Overtaking) < KeepSafetyCopies

\* At most as many admins restore at a time as copies are kept.
FewAdmins == IsFiniteSet(Admins) /\ Cardinality(Admins) <= KeepSafetyCopies

CopyKept == FewAdmins /\ InTime => FileSaved(db.content) \/ OnDisk

-----------------------------------------------------------------------------
(* Requests, and the copies on disk.                                       *)

LEMMA Fields ==
    ASSUME NEW r \in Request
    PROVE  /\ r.pc \in {"idle"} \union OnTrial \union Live
           /\ r.pc = "idle" => r = Idle
           /\ r.pc # "idle" => /\ r.file \in File /\ r.confirmed \in BOOLEAN /\ r.ok \in BOOLEAN
                               /\ r.copy \in Copy \union {None} /\ r.late \in BOOLEAN
<1>1. CASE r \in [pc : {"idle"}]
  BY <1>1 DEF Idle
<1>2. CASE r \notin [pc : {"idle"}]
  BY <1>2 DEF Request, OnTrial, Live
<1> QED
  BY <1>1, <1>2

LEMMA IdleIsRequest == Idle \in Request /\ Idle.pc = "idle"
BY DEF Idle, Request

LEMMA Moves ==
    ASSUME NEW r \in Request, r.pc # "idle", NEW pc \in OnTrial \union Live
    PROVE  /\ [r EXCEPT !.pc = pc] \in Request
           /\ [r EXCEPT !.pc = pc].pc = pc
           /\ [r EXCEPT !.pc = pc].file = r.file
           /\ [r EXCEPT !.pc = pc].copy = r.copy
           /\ [r EXCEPT !.pc = pc].late = r.late
BY DEF Request, OnTrial, Live

LEMMA OneRequest ==
    ASSUME TypeOK, NEW a \in Admins, NEW r \in Request, Goto(a, r)
    PROVE  /\ req'[a] = r
           /\ \A b \in Admins \ {a} : req'[b] = req[b]
           /\ req' \in [Admins -> Request]
BY DEF TypeOK, Goto

\* What kept is when c was written behind copies.
Written(copies, c, kept) ==
    /\ kept \in Seq(Copy)
    /\ Len(kept) \in 1..KeepSafetyCopies
    /\ kept[Len(kept)] = c
    /\ \A i \in DOMAIN copies : Len(copies) - i + 1 < KeepSafetyCopies =>
         \E j \in DOMAIN kept : kept[j] = copies[i] /\ Len(kept) - j = Len(copies) - i + 1

\* The newest are kept; each comes closer to the front as others are written.
LEMMA PrunedKeeps ==
    ASSUME NEW copies \in Seq(Copy), Len(copies) <= KeepSafetyCopies, NEW c \in Copy,
           NEW kept, kept = Pruned(Append(copies, c))
    PROVE  Written(copies, c, kept)
<1> DEFINE more == Append(copies, c)
           n == Len(copies)
<1>1. /\ more \in Seq(Copy) /\ Len(more) = n + 1 /\ n \in Nat
      /\ more[n + 1] = c /\ \A i \in 1..n : more[i] = copies[i]
      /\ DOMAIN copies = 1..n
  OBVIOUS
<1> HIDE DEF more
<1>2. CASE Len(more) <= KeepSafetyCopies
  <2>1. kept = more
    BY <1>1, <1>2, KeepAssumption DEF Pruned, more
  <2>2. DOMAIN more = 1..(n + 1)
    BY <1>1
  <2>3. \A i \in DOMAIN copies : i \in DOMAIN more /\ more[i] = copies[i] /\ Len(more) - i = n - i + 1
    BY <1>1, <2>2
  <2>4. Len(more) \in 1..KeepSafetyCopies /\ more[Len(more)] = c
    BY <1>1, <1>2, KeepAssumption
  <2> QED
    BY <1>1, <2>1, <2>3, <2>4 DEF Written
<1>3. CASE Len(more) > KeepSafetyCopies
  <2>1. n = KeepSafetyCopies /\ n >= 1
    <3>1. Len(more) = n + 1 /\ n \in Nat /\ n <= KeepSafetyCopies
      BY <1>1
    <3> HIDE DEF n
    <3> QED
      BY <1>3, <3>1, KeepAssumption
  <2>2. kept = SubSeq(more, 2, n + 1)
    <3>1. Len(more) = n + 1 /\ n \in Nat
      BY <1>1
    <3>2. Len(more) - KeepSafetyCopies + 1 = 2
      BY <2>1, <3>1
    <3> QED
      BY <1>3, <3>1, <3>2 DEF Pruned, more
  <2>3. \A i \in 2..(n + 1) : more[i] \in Copy
    BY <1>1, ElementOfSeq
  <2>4. /\ kept \in Seq(Copy) /\ Len(kept) = n
        /\ \A j \in 1..n : kept[j] = more[j + 1]
    BY <1>1, <2>1, <2>2, <2>3, SubSeqProperties
  <2>5. kept[n] = c
    BY <1>1, <2>1, <2>4
  <2>6. ASSUME NEW i \in DOMAIN copies, n - i + 1 < KeepSafetyCopies
        PROVE  \E j \in DOMAIN kept : kept[j] = copies[i] /\ Len(kept) - j = n - i + 1
    <3>1. i - 1 \in 1..n /\ DOMAIN kept = 1..n
      BY <1>1, <2>1, <2>4, <2>6
    <3>2. kept[i - 1] = copies[i] /\ n - (i - 1) = n - i + 1
      BY <1>1, <2>1, <2>4, <3>1
    <3> QED
      BY <2>4, <3>1, <3>2
  <2> QED
    BY <2>1, <2>4, <2>5, <2>6 DEF Written
<1> QED
  BY <1>1, <1>2, <1>3, KeepAssumption

-----------------------------------------------------------------------------
(* What the steps have in common.                                          *)

\* A request goes on with its file, or is over.
GoesOn(a, r) == r.pc = "idle" \/ (req[a].pc # "idle" /\ r.file = req[a].file)

LEMMA UploadsStay ==
    ASSUME RestoreInv, NEW a \in Admins, NEW r \in Request, Goto(a, r), GoesOn(a, r),
           UNCHANGED <<orphans, held>>
    PROVE  UploadsSaved'
<1>1. \A b \in Admins : req'[b].pc # "idle" => req[b].pc # "idle" /\ req'[b].file = req[b].file
  BY OneRequest DEF RestoreInv, GoesOn
<1> QED
  BY <1>1 DEF RestoreInv, UploadsSaved, FileSaved

LEMMA SchemaStays ==
    ASSUME RestoreInv, NEW a \in Admins, NEW r \in Request, Goto(a, r), req[a].pc # "migrate",
           UNCHANGED <<db, unfinished>>
    PROVE  SchemaFits'
BY OneRequest DEF RestoreInv, SchemaFits, At

\* The scratch database, when it is not touched.
LEMMA TrialStays ==
    ASSUME RestoreInv, NEW a \in Admins, NEW r \in Request, Goto(a, r),
           req[a].pc \in WillCleanUp => r.pc \in WillCleanUp,
           UNCHANGED <<trial, stray, orphans>>
    PROVE  SomeoneCleansUp' /\ LoadingIsStray'
BY OneRequest DEF RestoreInv, SomeoneCleansUp, LoadingIsStray

\* It is dropped, or somebody is loading it, who will clean up or was cut off.
LEMMA TrialDropped ==
    ASSUME RestoreInv, NEW a \in Admins, NEW r \in Request, Goto(a, r), req[a].pc # "loading",
           DropTrial, orphans' = orphans
    PROVE  SomeoneCleansUp' /\ LoadingIsStray' /\ trial' \in {trial, None} /\ stray' \in {stray, FALSE}
<1>1. CASE ~InUse
  BY <1>1 DEF DropTrial, InUse, SomeoneCleansUp, LoadingIsStray
<1>2. CASE InUse
  <2>1. UNCHANGED <<trial, stray>>
    BY <1>2 DEF DropTrial
  <2>2. CASE \E o \in orphans : o.pc = "loading"
    BY <2>1, <2>2 DEF RestoreInv, SomeoneCleansUp, LoadingIsStray
  <2>3. CASE \E b \in Admins : At(b, "loading")
    BY <2>1, <2>3, OneRequest DEF RestoreInv, SomeoneCleansUp, LoadingIsStray, At, WillCleanUp
  <2> QED
    BY <1>2, <2>1, <2>2, <2>3 DEF InUse
<1> QED
  BY <1>1, <1>2

-----------------------------------------------------------------------------
(* The trial.                                                              *)

LEMMA UploadableIsFile ==
    ASSUME TypeOK, NEW file \in Uploadable
    PROVE  file \in File
<1>1. CASE file \in Files
  BY <1>1, FilesAssumption
<1>2. CASE file \notin Files
  <2>1. PICK i \in DOMAIN safety : file = AsFile(safety[i])
    BY <1>2 DEF Uploadable
  <2>2. safety[i] \in Copy
    BY <2>1, ElementOfSeq DEF TypeOK
  <2> QED
    BY <2>1, <2>2 DEF AsFile, Copy, File
<1> QED
  BY <1>1, <1>2

LEMMA UploadKeeps ==
    ASSUME RestoreInv, NEW a \in Admins, NEW file \in Uploadable, NEW confirmed \in BOOLEAN,
           Upload(a, file, confirmed)
    PROVE  RestoreInv'
<1>1. file \in File
  BY UploadableIsFile DEF RestoreInv
<1> DEFINE r == [pc |-> "drop", file |-> file, confirmed |-> confirmed, ok |-> FALSE,
                 copy |-> None, late |-> FALSE]
<1>2. r \in Request /\ r.pc = "drop" /\ r.file = file
  BY <1>1 DEF Request, OnTrial
<1> HIDE DEF r
<1>3. Goto(a, r) /\ req[a].pc = "idle"
  BY DEF Upload, r, Idle
<1>4. /\ req'[a] = r
      /\ \A b \in Admins \ {a} : req'[b] = req[b]
      /\ req' \in [Admins -> Request]
  BY <1>2, <1>3, OneRequest DEF RestoreInv
<1>5. TypeOK'
  <2>1. held' \in SUBSET Content
    BY <1>1 DEF Upload, RestoreInv, TypeOK, File
  <2>2. uploads' \in 0..MaxUploads
    BY MaxUploadsAssumption DEF Upload, RestoreInv, TypeOK
  <2> QED
    BY <1>4, <2>1, <2>2 DEF Upload, RestoreInv, TypeOK
<1>6. UploadsSaved'
  <2>1. FileSaved(file.content)'
    BY DEF Upload, FileSaved
  <2>2. \A c : FileSaved(c) => FileSaved(c)'
    BY DEF Upload, FileSaved
  <2> QED
    BY <1>2, <1>4, <2>1, <2>2 DEF RestoreInv, UploadsSaved, Upload
<1>7. SomeoneCleansUp' /\ LoadingIsStray'
  BY <1>2, <1>3, TrialStays DEF Upload, WillCleanUp
<1>8. SchemaFits'
  BY <1>2, <1>3, SchemaStays DEF Upload
<1> QED
  BY <1>5, <1>6, <1>7, <1>8 DEF RestoreInv

\* Step goes on, with the same request.
LEMMA StepGoesOn ==
    ASSUME TypeOK, NEW a \in Admins, req[a].pc # "idle", NEW pc \in OnTrial \union Live, Step(a, pc)
    PROVE  \E r \in Request : Goto(a, r) /\ GoesOn(a, r) /\ r.pc = pc /\ r.copy = req[a].copy
<1>1. req[a] \in Request
  BY DEF TypeOK
<1> QED
  BY <1>1, Moves DEF Step, GoesOn

LEMMA OverIsOver ==
    ASSUME NEW a \in Admins, Goto(a, Idle)
    PROVE  \E r \in Request : Goto(a, r) /\ GoesOn(a, r) /\ r.pc = "idle"
BY IdleIsRequest DEF GoesOn

LEMMA DropLeftoverKeeps ==
    ASSUME RestoreInv, NEW a \in Admins, DropLeftover(a)
    PROVE  RestoreInv'
<1>1. PICK r \in Request : Goto(a, r) /\ GoesOn(a, r)
  BY StepGoesOn DEF DropLeftover, At, OnTrial, RestoreInv
<1>2. req[a].pc = "drop"
  BY DEF DropLeftover, At
<1>3. SomeoneCleansUp' /\ LoadingIsStray' /\ trial' \in {trial, None} /\ stray' \in {stray, FALSE}
  BY <1>1, <1>2, TrialDropped DEF DropLeftover
<1>4. TypeOK'
  BY <1>1, <1>3, OneRequest DEF DropLeftover, RestoreInv, TypeOK
<1> QED
  BY <1>1, <1>2, <1>3, <1>4, UploadsStay, SchemaStays DEF DropLeftover, RestoreInv

LEMMA CreateTrialKeeps ==
    ASSUME RestoreInv, NEW a \in Admins, CreateTrial(a)
    PROVE  RestoreInv'
<1>1. req[a].pc = "create" /\ UNCHANGED <<db, work, safety, pass, orphans, held, stray, unfinished, uploads>>
  BY DEF CreateTrial, At, ghosts
<1>2. CASE trial = None
  <2>1. PICK r \in Request : Goto(a, r) /\ GoesOn(a, r) /\ r.pc = "connect"
    BY <1>1, <1>2, StepGoesOn DEF CreateTrial, OnTrial, RestoreInv
  <2>2. trial' = Empty
    BY <1>2 DEF CreateTrial
  <2>3. TypeOK'
    BY <1>1, <2>1, <2>2, OneRequest DEF RestoreInv, TypeOK
  <2>4. SomeoneCleansUp' /\ LoadingIsStray'
    BY <1>1, <2>1, OneRequest DEF RestoreInv, SomeoneCleansUp, LoadingIsStray, WillCleanUp
  <2> QED
    BY <1>1, <2>1, <2>3, <2>4, UploadsStay, SchemaStays DEF RestoreInv
<1>3. CASE trial # None
  <2>1. PICK r \in Request : Goto(a, r) /\ GoesOn(a, r)
    BY <1>3, OverIsOver DEF CreateTrial
  <2>2. trial' = trial
    BY <1>3 DEF CreateTrial
  <2>3. TypeOK'
    BY <1>1, <2>1, <2>2, OneRequest DEF RestoreInv, TypeOK
  <2> QED
    BY <1>1, <2>1, <2>2, <2>3, TrialStays, UploadsStay, SchemaStays DEF RestoreInv, WillCleanUp
<1> QED
  BY <1>2, <1>3

LEMMA ConnectKeeps ==
    ASSUME RestoreInv, NEW a \in Admins, Connect(a)
    PROVE  RestoreInv'
<1>1. req[a].pc = "connect" /\ UNCHANGED <<db, work, trial, safety, pass, orphans, held, stray, unfinished, uploads>>
  BY DEF Connect, At, ghosts
<1>2. PICK r \in Request : Goto(a, r) /\ GoesOn(a, r) /\ r.pc \in WillCleanUp
  BY <1>1, StepGoesOn DEF Connect, OnTrial, WillCleanUp, RestoreInv
<1>3. TypeOK'
  BY <1>1, <1>2, OneRequest DEF RestoreInv, TypeOK
<1> QED
  BY <1>1, <1>2, <1>3, TrialStays, UploadsStay, SchemaStays DEF RestoreInv

LEMMA LoadKeeps ==
    ASSUME RestoreInv, NEW a \in Admins, Load(a)
    PROVE  RestoreInv'
<1>1. req[a].pc = "loading" /\ UNCHANGED <<db, work, safety, pass, orphans, held, stray, unfinished, uploads>>
  BY DEF Load, At, ghosts
<1>2. PICK r \in Request : Goto(a, r) /\ GoesOn(a, r) /\ r.pc \in WillCleanUp
  BY <1>1, StepGoesOn DEF Load, OnTrial, WillCleanUp, RestoreInv
<1>3. trial' \in Content \union {None, Empty}
  BY <1>1, Fields DEF Load, RestoreInv, TypeOK, File
<1>4. TypeOK'
  BY <1>1, <1>2, <1>3, OneRequest DEF RestoreInv, TypeOK
<1>5. SomeoneCleansUp' /\ LoadingIsStray'
  BY <1>1, <1>2, OneRequest DEF RestoreInv, SomeoneCleansUp, LoadingIsStray
<1> QED
  BY <1>1, <1>2, <1>4, <1>5, UploadsStay, SchemaStays DEF RestoreInv

LEMMA CountKeeps ==
    ASSUME RestoreInv, NEW a \in Admins, Count(a)
    PROVE  RestoreInv'
<1>1. req[a].pc = "count" /\ UNCHANGED <<db, work, trial, safety, pass, orphans, held, stray, unfinished, uploads>>
  BY DEF Count, At, ghosts
<1>2. PICK r : r = [req[a] EXCEPT !.pc = "cleanup", !.ok = trial # None]
  OBVIOUS
<1>3. req[a] \in Request
  BY DEF RestoreInv, TypeOK
<1>4. r \in Request /\ r.pc = "cleanup" /\ r.file = req[a].file
  BY <1>1, <1>2, <1>3 DEF Request, OnTrial, Live
<1>5. Goto(a, r) /\ GoesOn(a, r) /\ r.pc \in WillCleanUp
  BY <1>1, <1>2, <1>4 DEF Count, GoesOn, WillCleanUp
<1>6. TypeOK'
  BY <1>1, <1>4, <1>5, OneRequest DEF RestoreInv, TypeOK
<1> QED
  BY <1>1, <1>4, <1>5, <1>6, TrialStays, UploadsStay, SchemaStays DEF RestoreInv

LEMMA CleanupKeeps ==
    ASSUME RestoreInv, NEW a \in Admins, Cleanup(a)
    PROVE  RestoreInv'
<1>1. req[a].pc = "cleanup" /\ UNCHANGED <<db, work, safety, pass, orphans, held, unfinished, uploads>>
  BY DEF Cleanup, At
<1>2. PICK r \in Request : Goto(a, r) /\ GoesOn(a, r)
  BY <1>1, StepGoesOn, OverIsOver DEF Cleanup, Live, RestoreInv
<1>3. SomeoneCleansUp' /\ LoadingIsStray' /\ trial' \in {trial, None} /\ stray' \in {stray, FALSE}
  BY <1>1, <1>2, TrialDropped DEF Cleanup
<1>4. TypeOK'
  BY <1>1, <1>2, <1>3, OneRequest DEF RestoreInv, TypeOK
<1> QED
  BY <1>1, <1>2, <1>3, <1>4, UploadsStay, SchemaStays DEF RestoreInv

-----------------------------------------------------------------------------
(* The live restore.                                                       *)

LEMMA DumpKeeps ==
    ASSUME RestoreInv, NEW a \in Admins, Dump(a)
    PROVE  RestoreInv'
<1>1. req[a].pc = "dump" /\ UNCHANGED <<db, work, trial, safety, pass, orphans, held, stray, unfinished, uploads>>
  BY DEF Dump, At, ghosts
<1>2. PICK r \in Request : Goto(a, r) /\ GoesOn(a, r)
  <2>1. CASE Goto(a, Idle)
    BY <2>1, OverIsOver
  <2>2. CASE ~Goto(a, Idle)
    <3>1. PICK copy : copy = [content |-> db.content, old |-> db.old, pass |-> pass]
      OBVIOUS
    <3>2. copy \in Copy
      BY <2>2, <3>1 DEF Dump, RestoreInv, TypeOK, Database, Copy
    <3>3. PICK r : r = [req[a] EXCEPT !.pc = "write", !.late = FALSE, !.copy = copy]
      OBVIOUS
    <3>4. req[a] \in Request
      BY DEF RestoreInv, TypeOK
    <3>5. r \in Request /\ r.file = req[a].file
      BY <1>1, <3>2, <3>3, <3>4 DEF Request, OnTrial, Live
    <3>6. Goto(a, r)
      BY <2>2, <3>1, <3>3 DEF Dump
    <3> QED
      BY <1>1, <3>5, <3>6 DEF GoesOn
  <2> QED
    BY <2>1, <2>2
<1>3. TypeOK'
  BY <1>1, <1>2, OneRequest DEF RestoreInv, TypeOK
<1> QED
  BY <1>1, <1>2, <1>3, TrialStays, UploadsStay, SchemaStays DEF RestoreInv, WillCleanUp

LEMMA WriteCopyKeeps ==
    ASSUME RestoreInv, FreshCopies, NEW a \in Admins, WriteCopy(a)
    PROVE  RestoreInv'
<1>1. req[a].pc = "write" /\ UNCHANGED <<db, work, trial, pass, orphans, held, stray, unfinished, uploads>>
  BY DEF WriteCopy, At, ghosts
<1>2. PICK r \in Request : Goto(a, r) /\ GoesOn(a, r)
  <2>1. CASE Goto(a, Idle)
    BY <2>1, OverIsOver
  <2>2. CASE ~Goto(a, Idle)
    <3>1. PICK r : r = [req[a] EXCEPT !.pc = "live", !.copy = None]
      OBVIOUS
    <3>2. req[a] \in Request
      BY DEF RestoreInv, TypeOK
    <3>3. r \in Request /\ r.file = req[a].file
      BY <1>1, <3>1, <3>2 DEF Request, OnTrial, Live
    <3>4. Goto(a, r)
      BY <2>2, <3>1 DEF WriteCopy
    <3> QED
      BY <1>1, <3>3, <3>4 DEF GoesOn
  <2> QED
    BY <2>1, <2>2
<1>3. safety' \in Seq(Copy) /\ Len(safety') <= KeepSafetyCopies
  <2>1. req[a].copy \in Copy
    BY <1>1 DEF FreshCopies, At
  <2>2. CASE safety' = Pruned(Append(safety, req[a].copy))
    BY <2>1, <2>2, PrunedKeeps, KeepAssumption DEF RestoreInv, TypeOK, Written
  <2> QED
    BY <2>2 DEF WriteCopy, RestoreInv, TypeOK
<1>4. TypeOK'
  BY <1>1, <1>2, <1>3, OneRequest DEF RestoreInv, TypeOK
<1> QED
  BY <1>1, <1>2, <1>4, TrialStays, UploadsStay, SchemaStays DEF RestoreInv, WillCleanUp

LEMMA ContentsOfFile ==
    ASSUME NEW file \in File
    PROVE  Contents(file) \in Database /\ Contents(file).content = file.content
BY DEF Contents, File, Database

LEMMA ReplaceKeeps ==
    ASSUME RestoreInv, NEW a \in Admins, Replace(a)
    PROVE  RestoreInv'
<1>1. req[a].pc = "live" /\ UNCHANGED <<work, trial, safety, pass, orphans, held, stray, unfinished, uploads>>
  BY DEF Replace, At, ghosts
<1>2. CASE db' = Contents(req[a].file) /\ Goto(a, [req[a] EXCEPT !.pc = "migrate"])
  <2>1. PICK r \in Request : Goto(a, r) /\ GoesOn(a, r) /\ r.pc = "migrate"
    BY <1>1, <1>2, StepGoesOn DEF Step, Live, RestoreInv
  <2>2. db' \in Database
    BY <1>1, <1>2, Fields, ContentsOfFile DEF RestoreInv, TypeOK
  <2>3. TypeOK'
    BY <1>1, <2>1, <2>2, OneRequest DEF RestoreInv, TypeOK
  <2>4. SchemaFits'
    BY <2>1, OneRequest DEF RestoreInv, SchemaFits, At
  <2> QED
    BY <1>1, <2>1, <2>3, <2>4, TrialStays, UploadsStay DEF RestoreInv, WillCleanUp
<1>3. CASE db' = db /\ Goto(a, Idle)
  <2>1. PICK r \in Request : Goto(a, r) /\ GoesOn(a, r)
    BY <1>3, OverIsOver
  <2>2. TypeOK'
    BY <1>1, <1>3, <2>1, OneRequest DEF RestoreInv, TypeOK
  <2> QED
    BY <1>1, <1>3, <2>1, <2>2, TrialStays, UploadsStay, SchemaStays DEF RestoreInv, WillCleanUp
<1> QED
  BY <1>2, <1>3 DEF Replace

LEMMA Migrated ==
    ASSUME TypeOK
    PROVE  /\ [db EXCEPT !.old = FALSE] \in Database
           /\ [db EXCEPT !.old = FALSE].old = FALSE
           /\ [db EXCEPT !.old = FALSE].content = db.content
BY DEF TypeOK, Database

LEMMA MigrateKeeps ==
    ASSUME RestoreInv, NEW a \in Admins, Migrate(a)
    PROVE  RestoreInv'
<1>1. req[a].pc = "migrate" /\ UNCHANGED <<work, trial, safety, pass, orphans, held, stray, uploads>>
  BY DEF Migrate, At
<1>2. PICK r \in Request : Goto(a, r) /\ GoesOn(a, r)
  BY <1>1, StepGoesOn, OverIsOver DEF Migrate, Live, RestoreInv
<1>3. /\ db' \in Database /\ unfinished' \in BOOLEAN
      /\ db'.old => unfinished'
  BY Migrated DEF Migrate, RestoreInv, TypeOK
<1>4. TypeOK'
  BY <1>1, <1>2, <1>3, OneRequest DEF RestoreInv, TypeOK
<1>5. SchemaFits'
  BY <1>3 DEF SchemaFits
<1> QED
  BY <1>1, <1>2, <1>4, <1>5, TrialStays, UploadsStay DEF RestoreInv, WillCleanUp

-----------------------------------------------------------------------------
(* Around it.                                                              *)

LEMMA ExitKeeps ==
    ASSUME RestoreInv, Exit
    PROVE  RestoreInv'
<1>1. TypeOK'
  BY Migrated, IdleIsRequest DEF Exit, RestoreInv, TypeOK
<1>2. UploadsSaved' /\ LoadingIsStray' /\ SomeoneCleansUp' /\ SchemaFits'
  BY Migrated, IdleIsRequest
  DEF Exit, RestoreInv, UploadsSaved, LoadingIsStray, SomeoneCleansUp, SchemaFits
<1> QED
  BY <1>1, <1>2 DEF RestoreInv

LEMMA DropKeeps ==
    ASSUME RestoreInv, NEW a \in Admins, Drop(a)
    PROVE  RestoreInv'
<1>1. /\ req[a] \in Request /\ req[a].pc # "idle"
      /\ UNCHANGED <<db, work, trial, safety, pass, held, uploads>>
      /\ stray' = TRUE
  BY Fields DEF Drop, RestoreInv, TypeOK
<1>2. /\ req'[a] = Idle
      /\ \A b \in Admins \ {a} : req'[b] = req[b]
      /\ req' \in [Admins -> Request]
  BY OneRequest, IdleIsRequest DEF Drop, RestoreInv
<1>3. ASSUME NEW o \in orphans'
      PROVE  o \in Orphan /\ FileSaved(o.file.content)
  <2>1. CASE o \in orphans
    BY <2>1 DEF RestoreInv, TypeOK, UploadsSaved
  <2>2. CASE o \notin orphans
    <3>1. /\ o = [pc |-> req[a].pc, file |-> req[a].file, late |-> req[a].late]
          /\ req[a].pc \in {"loading", "live"}
      BY <1>3, <2>2 DEF Drop
    <3> QED
      BY <1>1, <3>1, Fields DEF Orphan, RestoreInv, UploadsSaved
  <2> QED
    BY <2>1, <2>2
<1>4. TypeOK'
  BY <1>1, <1>2, <1>3 DEF Drop, RestoreInv, TypeOK
<1>5. UploadsSaved'
  BY <1>1, <1>2, <1>3, IdleIsRequest DEF RestoreInv, UploadsSaved, FileSaved
<1>6. SchemaFits'
  BY <1>1, <1>2 DEF Drop, RestoreInv, SchemaFits, At
<1> QED
  BY <1>1, <1>4, <1>5, <1>6 DEF RestoreInv, LoadingIsStray, SomeoneCleansUp

LEMMA RunsOnKeeps ==
    ASSUME RestoreInv, NEW o \in orphans, RunsOn(o)
    PROVE  RestoreInv'
<1>1. /\ o \in Orphan
      /\ orphans' = orphans \ {o}
      /\ UNCHANGED <<work, safety, pass, req, held, stray, uploads>>
  BY DEF RunsOn, RestoreInv, TypeOK
<1>2. UploadsSaved' /\ LoadingIsStray'
  BY <1>1 DEF RestoreInv, UploadsSaved, FileSaved, LoadingIsStray
<1>3. CASE o.pc = "loading"
  <2>1. /\ UNCHANGED <<db, unfinished>>
        /\ trial' \in Content \union {None, Empty}
        /\ stray
    BY <1>1, <1>3 DEF RunsOn, RestoreInv, TypeOK, LoadingIsStray, Orphan, File
  <2>2. TypeOK'
    BY <1>1, <2>1 DEF RestoreInv, TypeOK
  <2> QED
    BY <1>1, <1>2, <2>1, <2>2 DEF RestoreInv, SomeoneCleansUp, SchemaFits, At
<1>4. CASE o.pc # "loading"
  <2>1. /\ trial' = trial
        /\ db' = IF o.file.loads THEN Contents(o.file) ELSE db
        /\ unfinished' = (unfinished \/ o.file.loads)
        /\ o.file \in File
    BY <1>1, <1>4 DEF RunsOn, Orphan
  <2>2. TypeOK'
    BY <1>1, <2>1, ContentsOfFile DEF RestoreInv, TypeOK
  <2>3. SomeoneCleansUp'
    BY <1>1, <2>1 DEF RestoreInv, SomeoneCleansUp
  <2>4. SchemaFits'
    BY <1>1, <2>1 DEF RestoreInv, SchemaFits, At
  <2> QED
    BY <1>2, <2>2, <2>3, <2>4 DEF RestoreInv
<1> QED
  BY <1>3, <1>4

\* What becomes of requests and orphans when the staff writes.
LEMMA WorkMarks ==
    ASSUME TypeOK, Work
    PROVE  /\ req' \in [Admins -> Request]
           /\ \A a \in Admins : /\ req'[a].pc = req[a].pc
                                /\ req[a].pc # "idle" =>
                                     req'[a].file = req[a].file /\ req'[a].copy = req[a].copy
                                /\ req[a].pc \in {"write", "live"} => req'[a].late
           /\ \A o \in orphans' : /\ o \in Orphan /\ o.late
                                  /\ \E p \in orphans : o.pc = p.pc /\ o.file = p.file
<1>1. ASSUME NEW a \in Admins
      PROVE  /\ req'[a] \in Request
             /\ req'[a].pc = req[a].pc
             /\ req[a].pc # "idle" => req'[a].file = req[a].file /\ req'[a].copy = req[a].copy
             /\ req[a].pc \in {"write", "live"} => req'[a].late
  <2>1. req[a] \in Request
    BY DEF TypeOK
  <2>2. CASE req[a].pc \in {"write", "live"}
    <3>1. req'[a] = [req[a] EXCEPT !.late = TRUE]
      BY <2>2 DEF Work
    <3> QED
      BY <2>1, <2>2, <3>1 DEF Request, OnTrial, Live
  <2>3. CASE req[a].pc \notin {"write", "live"}
    <3>1. req'[a] = req[a]
      BY <2>3 DEF Work
    <3> QED
      BY <2>1, <2>3, <3>1
  <2> QED
    BY <2>2, <2>3
<1>2. ASSUME NEW o \in orphans'
      PROVE  /\ o \in Orphan /\ o.late
             /\ \E p \in orphans : o.pc = p.pc /\ o.file = p.file
  <2>1. PICK p \in orphans : o = [p EXCEPT !.late = TRUE]
    BY <1>2 DEF Work
  <2>2. p \in Orphan
    BY DEF TypeOK
  <2> QED
    BY <2>1, <2>2 DEF Orphan
<1>3. req' = [a \in Admins |-> req'[a]]
  BY DEF Work
<1> QED
  BY <1>1, <1>2, <1>3

LEMMA WorkKeeps ==
    ASSUME RestoreInv, Work
    PROVE  RestoreInv'
<1>1. /\ UNCHANGED <<trial, safety, pass, held, stray, unfinished, uploads>>
      /\ work' \in 0..MaxWork
      /\ db' \in Database /\ db'.old = db.old
  BY MaxWorkAssumption DEF Work, ghosts, RestoreInv, TypeOK, Database, Content
<1>2. TypeOK'
  BY <1>1, WorkMarks DEF RestoreInv, TypeOK
<1>3. UploadsSaved'
  BY <1>1, WorkMarks DEF RestoreInv, UploadsSaved, FileSaved
<1>4. LoadingIsStray' /\ SomeoneCleansUp'
  BY <1>1, WorkMarks DEF RestoreInv, LoadingIsStray, SomeoneCleansUp
<1>5. SchemaFits'
  BY <1>1, WorkMarks DEF RestoreInv, SchemaFits, At
<1> QED
  BY <1>2, <1>3, <1>4, <1>5 DEF RestoreInv

LEMMA SetPassphraseKeeps ==
    ASSUME RestoreInv, NEW p \in Passes, SetPassphrase(p)
    PROVE  RestoreInv'
<1>1. TypeOK'
  BY DEF SetPassphrase, ghosts, RestoreInv, TypeOK
<1> QED
  BY <1>1 DEF SetPassphrase, ghosts, RestoreInv, UploadsSaved, FileSaved, LoadingIsStray,
              SomeoneCleansUp, SchemaFits, At

-----------------------------------------------------------------------------
(* The way back.                                                           *)

\* The content of the database changes by a restore from a file at hand; the
\* staff's writes are a case of their own.
Restored == db'.content = db.content \/ FileSaved(db.content)'

LEMMA FilesStaySaved ==
    ASSUME held \subseteq held', NEW c, FileSaved(c)
    PROVE  FileSaved(c)'
BY DEF FileSaved

LEMMA FreshStays ==
    ASSUME FreshCopies, Restored, held \subseteq held',
           \A a \in Admins : req'[a].pc = "write" => req'[a] = req[a]
    PROVE  FreshCopies'
BY FilesStaySaved DEF FreshCopies, Restored, At, FileSaved

LEMMA KeptStays ==
    ASSUME TypeOK, CopyKept, InTime' => InTime, held \subseteq held',
           safety' = safety, db'.content = db.content, Overtaking' \subseteq Overtaking
    PROVE  CopyKept'
<1> SUFFICES ASSUME FewAdmins, InTime PROVE FileSaved(db.content)' \/ OnDisk'
  BY DEF CopyKept
<1>1. CASE FileSaved(db.content)
  BY <1>1, FilesStaySaved DEF FileSaved
<1>2. CASE OnDisk
  <2>1. IsFiniteSet(Overtaking)
    BY FS_Subset DEF Overtaking, FewAdmins
  <2>2. /\ Cardinality(Overtaking') <= Cardinality(Overtaking)
        /\ Cardinality(Overtaking') \in Nat /\ Cardinality(Overtaking) \in Nat
    BY <2>1, FS_Subset, FS_CardinalityType
  <2>3. PICK i \in DOMAIN safety : /\ safety[i].content = db.content
                                   /\ Len(safety) - i + Cardinality(Overtaking) < KeepSafetyCopies
    BY <1>2 DEF OnDisk
  <2>4. i \in Nat /\ Len(safety) \in Nat
    BY <2>3 DEF TypeOK
  <2>5. Len(safety) - i + Cardinality(Overtaking') < KeepSafetyCopies
    BY <2>2, <2>3, <2>4, KeepAssumption
  <2> QED
    BY <2>3, <2>5 DEF OnDisk
<1> QED
  BY <1>1, <1>2 DEF CopyKept

\* A request moves on to something else than its replacement.
LEMMA MovesAside ==
    ASSUME RestoreInv, FreshCopies, CopyKept,
           NEW a \in Admins, NEW r \in Request, Goto(a, r), r.pc \notin {"write", "live"},
           held \subseteq held', safety' = safety, orphans' = orphans, Restored
    PROVE  FreshCopies' /\ CopyKept'
<1>1. /\ req'[a] = r
      /\ \A b \in Admins \ {a} : req'[b] = req[b]
  BY OneRequest DEF RestoreInv
<1>2. FreshCopies'
  BY <1>1, FreshStays
<1>3. CASE FileSaved(db.content)'
  BY <1>2, <1>3 DEF CopyKept
<1>4. CASE db'.content = db.content
  <2>1. InTime' => InTime
    BY <1>1 DEF InTime, At
  <2>2. Overtaking' \subseteq Overtaking
    BY <1>1, <1>4 DEF Overtaking, At
  <2> QED
    BY <1>2, <1>4, <2>1, <2>2, KeptStays DEF RestoreInv
<1> QED
  BY <1>2, <1>3, <1>4 DEF Restored

\* What the loaded file, the passphrase and the orphans do not concern.
LEMMA Aside ==
    ASSUME RestoreInv, FreshCopies, CopyKept,
           UNCHANGED <<req, safety, held>>, orphans' \subseteq orphans, Restored
    PROVE  FreshCopies' /\ CopyKept'
<1>1. /\ \A a \in Admins : req'[a] = req[a]
      /\ held \subseteq held' /\ safety' = safety
  OBVIOUS
<1>2. FreshCopies'
  BY <1>1, FreshStays
<1>3. CASE FileSaved(db.content)'
  BY <1>2, <1>3 DEF CopyKept
<1>4. CASE db'.content = db.content
  <2>1. InTime' => InTime
    BY <1>1 DEF InTime, At
  <2>2. Overtaking' \subseteq Overtaking
    BY <1>1, <1>4 DEF Overtaking, At
  <2> QED
    BY <1>1, <1>2, <1>4, <2>1, <2>2, KeptStays DEF RestoreInv
<1> QED
  BY <1>2, <1>3, <1>4 DEF Restored

LEMMA DumpFresh ==
    ASSUME RestoreInv, FreshCopies, CopyKept, NEW a \in Admins, Dump(a)
    PROVE  FreshCopies' /\ CopyKept'
<1>1. req[a].pc = "dump" /\ UNCHANGED <<db, safety, orphans, held>>
  BY DEF Dump, At, ghosts
<1>2. CASE Goto(a, Idle)
  BY <1>1, <1>2, IdleIsRequest, MovesAside DEF Restored
<1>3. CASE ~Goto(a, Idle)
  <2>1. PICK copy : copy = [content |-> db.content, old |-> db.old, pass |-> pass]
    OBVIOUS
  <2>2. copy \in Copy /\ copy.content = db.content
    BY <1>3, <2>1 DEF Dump, RestoreInv, TypeOK, Database, Copy
  <2>3. PICK r : r = [req[a] EXCEPT !.pc = "write", !.late = FALSE, !.copy = copy]
    OBVIOUS
  <2>4. req[a] \in Request
    BY DEF RestoreInv, TypeOK
  <2>5. r \in Request /\ r.pc = "write" /\ r.copy = copy
    BY <1>1, <2>2, <2>3, <2>4 DEF Request, OnTrial, Live
  <2>6. Goto(a, r)
    BY <1>3, <2>1, <2>3 DEF Dump
  <2>7. /\ req'[a] = r
        /\ \A b \in Admins \ {a} : req'[b] = req[b]
    BY <2>5, <2>6, OneRequest DEF RestoreInv
  <2>8. FreshCopies'
    BY <1>1, <2>2, <2>5, <2>7 DEF FreshCopies, FileSaved, At
  <2>9. InTime' => InTime
    BY <1>1, <2>5, <2>7 DEF InTime, At
  <2>10. Overtaking' \subseteq Overtaking
    BY <1>1, <2>2, <2>5, <2>7 DEF Overtaking, At
  <2> QED
    BY <1>1, <2>8, <2>9, <2>10, KeptStays DEF RestoreInv
<1> QED
  BY <1>2, <1>3

\* The copy goes to the end; those behind the database's own copy were written
\* by requests that no longer have one to write.
LEMMA WriteCopyFresh ==
    ASSUME RestoreInv, FreshCopies, CopyKept, NEW a \in Admins, WriteCopy(a)
    PROVE  FreshCopies' /\ CopyKept'
<1>1. req[a].pc = "write" /\ UNCHANGED <<db, orphans, held>>
  BY DEF WriteCopy, At, ghosts
<1>2. CASE Goto(a, Idle) /\ safety' = safety
  BY <1>1, <1>2, IdleIsRequest, MovesAside DEF Restored
<1>3. CASE /\ safety' = Pruned(Append(safety, req[a].copy))
           /\ Goto(a, [req[a] EXCEPT !.pc = "live", !.copy = None])
  <2>1. PICK r : r = [req[a] EXCEPT !.pc = "live", !.copy = None]
    OBVIOUS
  <2>2. req[a] \in Request
    BY DEF RestoreInv, TypeOK
  <2>3. r \in Request /\ r.pc = "live" /\ r.late = req[a].late
    BY <1>1, <2>1, <2>2 DEF Request, OnTrial, Live
  <2>4. /\ req'[a] = r
        /\ \A b \in Admins \ {a} : req'[b] = req[b]
    BY <1>3, <2>1, <2>3, OneRequest DEF RestoreInv
  <2>5. PICK c \in Copy : c = req[a].copy
    BY <1>1 DEF FreshCopies, At
  <2>6. FreshCopies'
    BY <1>1, <2>3, <2>4, FreshStays DEF Restored
  <2>7. /\ Len(safety') \in 1..KeepSafetyCopies
        /\ DOMAIN safety' = 1..Len(safety')
        /\ safety'[Len(safety')] = c
        /\ \A i \in DOMAIN safety : Len(safety) - i + 1 < KeepSafetyCopies =>
             \E j \in DOMAIN safety' : safety'[j] = safety[i] /\ Len(safety') - j = Len(safety) - i + 1
    <3>1. safety \in Seq(Copy) /\ Len(safety) <= KeepSafetyCopies
      BY DEF RestoreInv, TypeOK
    <3>2. PICK kept : kept = Pruned(Append(safety, c))
      OBVIOUS
    <3>3. Written(safety, c, kept)
      BY <3>1, <3>2, PrunedKeeps
    <3>4. safety' = kept
      BY <1>3, <2>5, <3>2
    <3> QED
      BY <3>3, <3>4 DEF Written
  <2>8. Overtaking' = Overtaking \ {a}
    BY <1>1, <2>3, <2>4 DEF Overtaking, At
  <2>9. FewAdmins => IsFiniteSet(Overtaking) /\ IsFiniteSet(Overtaking')
    BY <2>8, FS_Subset DEF Overtaking, FewAdmins
  <2>10. CASE FileSaved(db.content)
    BY <1>1, <2>6, <2>10 DEF CopyKept, FileSaved
  <2>11. CASE c.content = db.content
    <3> SUFFICES ASSUME FewAdmins PROVE OnDisk'
      BY <2>6 DEF CopyKept
    <3>1. Cardinality(Overtaking') < Cardinality(Admins)
      <4>1. Overtaking' \subseteq Admins /\ a \in Admins \ Overtaking'
        BY <2>8 DEF Overtaking
      <4>2. Overtaking' # Admins
        BY <4>1
      <4> QED
        BY <4>1, <4>2, FS_Subset, FS_CardinalityType DEF FewAdmins
    <3>2. Cardinality(Overtaking') \in Nat /\ Cardinality(Admins) \in Nat
      BY <2>9, FS_CardinalityType DEF FewAdmins
    <3>3. Len(safety') - Len(safety') + Cardinality(Overtaking') < KeepSafetyCopies
      BY <2>7, <3>1, <3>2, KeepAssumption DEF FewAdmins
    <3> QED
      BY <1>1, <2>7, <2>11, <3>3 DEF OnDisk
  <2>12. CASE c.content # db.content /\ ~FileSaved(db.content)
    <3> SUFFICES ASSUME FewAdmins, InTime' PROVE OnDisk'
      BY <2>6 DEF CopyKept
    <3>1. req[a].late
      BY <1>1, <2>5, <2>12 DEF FreshCopies, At
    <3>2. InTime
      BY <1>1, <2>3, <2>4, <3>1 DEF InTime, At
    <3>3. PICK i \in DOMAIN safety : /\ safety[i].content = db.content
                                     /\ Len(safety) - i + Cardinality(Overtaking) < KeepSafetyCopies
      BY <2>12, <3>2 DEF CopyKept, OnDisk
    <3>4. a \in Overtaking
      BY <1>1, <2>5, <2>12 DEF Overtaking, At
    <3>5. /\ Cardinality(Overtaking') = Cardinality(Overtaking) - 1
          /\ Cardinality(Overtaking) \in Nat /\ Cardinality(Overtaking') \in Nat
      BY <2>8, <2>9, <3>4, FS_RemoveElement, FS_CardinalityType
    <3>6. i \in Nat /\ Len(safety) \in Nat
      BY <3>3 DEF RestoreInv, TypeOK
    <3>7. Len(safety) - i + 1 < KeepSafetyCopies
      BY <3>3, <3>5, <3>6, KeepAssumption
    <3>8. PICK j \in DOMAIN safety' :
            safety'[j] = safety[i] /\ Len(safety') - j = Len(safety) - i + 1
      BY <2>7, <3>7
    <3>9. Len(safety') - j + Cardinality(Overtaking') < KeepSafetyCopies
      BY <3>3, <3>5, <3>6, <3>8, KeepAssumption
    <3> QED
      BY <1>1, <3>3, <3>8, <3>9 DEF OnDisk
  <2> QED
    BY <2>10, <2>11, <2>12
<1> QED
  BY <1>2, <1>3 DEF WriteCopy

LEMMA LiveFresh ==
    ASSUME RestoreInv, FreshCopies, CopyKept, NEW a \in Admins,
           Replace(a) \/ Migrate(a)
    PROVE  FreshCopies' /\ CopyKept'
<1>1. req[a].pc \in {"live", "migrate"} /\ UNCHANGED <<safety, orphans, held>>
  BY DEF Replace, Migrate, At, ghosts
<1>2. PICK r \in Request : Goto(a, r) /\ r.pc \notin {"write", "live"}
  BY <1>1, StepGoesOn, IdleIsRequest DEF Replace, Migrate, Step, Live, RestoreInv
<1>3. Restored
  <2>1. CASE Replace(a) /\ db' = Contents(req[a].file)
    <3>1. db'.content = req[a].file.content
      BY <2>1 DEF Contents
    <3>2. FileSaved(req[a].file.content)
      BY <1>1 DEF RestoreInv, UploadsSaved
    <3> QED
      BY <1>1, <3>1, <3>2 DEF Restored, FileSaved
  <2>2. CASE db' = db \/ Migrate(a)
    BY <2>2, Migrated DEF Migrate, Restored, RestoreInv
  <2> QED
    BY <2>1, <2>2 DEF Replace
<1> QED
  BY <1>1, <1>2, <1>3, MovesAside

\* The other steps of a request; a psql that is left behind carries its mark on.
LEMMA RequestFresh ==
    ASSUME RestoreInv, FreshCopies, CopyKept, NEW a \in Admins,
           \/ DropLeftover(a) \/ CreateTrial(a) \/ Connect(a) \/ Load(a) \/ Count(a) \/ Cleanup(a)
           \/ \E file \in Uploadable, confirmed \in BOOLEAN : Upload(a, file, confirmed)
    PROVE  FreshCopies' /\ CopyKept'
<1>1. UNCHANGED <<db, safety, orphans>> /\ held \subseteq held'
  BY DEF DropLeftover, CreateTrial, Connect, Load, Count, Cleanup, Upload, ghosts
<1>2. req[a] \in Request
  BY DEF RestoreInv, TypeOK
<1>3. ASSUME NEW pc \in OnTrial \union {"dump"}, Step(a, pc), req[a].pc # "idle"
      PROVE  \E r \in Request : Goto(a, r) /\ r.pc \notin {"write", "live"}
  BY <1>3, StepGoesOn DEF OnTrial, Live, RestoreInv
<1>4. PICK r \in Request : Goto(a, r) /\ r.pc \notin {"write", "live"}
  <2>1. CASE DropLeftover(a) \/ CreateTrial(a) \/ Connect(a) \/ Load(a) \/ Cleanup(a)
    BY <1>3, <2>1, IdleIsRequest
    DEF DropLeftover, CreateTrial, Connect, Load, Cleanup, At, OnTrial
  <2>2. CASE Count(a)
    <3>1. PICK r : r = [req[a] EXCEPT !.pc = "cleanup", !.ok = trial # None]
      OBVIOUS
    <3>2. r \in Request /\ r.pc = "cleanup" /\ Goto(a, r)
      BY <1>2, <2>2, <3>1 DEF Count, At, Request, OnTrial, Live
    <3> QED
      BY <3>2
  <2>3. CASE \E file \in Uploadable, confirmed \in BOOLEAN : Upload(a, file, confirmed)
    <3>1. PICK file \in Uploadable, confirmed \in BOOLEAN : Upload(a, file, confirmed)
      BY <2>3
    <3>2. PICK r : r = [pc |-> "drop", file |-> file, confirmed |-> confirmed, ok |-> FALSE,
                        copy |-> None, late |-> FALSE]
      OBVIOUS
    <3>3. r \in Request /\ r.pc = "drop"
      BY <3>2, UploadableIsFile DEF RestoreInv, Request, OnTrial
    <3> QED
      BY <3>1, <3>2, <3>3 DEF Upload
  <2> QED
    BY <2>1, <2>2, <2>3
<1> QED
  BY <1>1, <1>4, MovesAside DEF Restored

LEMMA DropFresh ==
    ASSUME RestoreInv, FreshCopies, CopyKept, NEW a \in Admins, Drop(a)
    PROVE  FreshCopies' /\ CopyKept'
<1>1. UNCHANGED <<db, safety, held>>
  BY DEF Drop
<1>2. /\ req'[a] = Idle
      /\ \A b \in Admins \ {a} : req'[b] = req[b]
  BY OneRequest, IdleIsRequest DEF Drop, RestoreInv
<1>3. \A o \in orphans' : o \in orphans \/ (o.pc = req[a].pc /\ o.late = req[a].late)
  BY DEF Drop
<1>4. InTime' => InTime
  BY <1>2, <1>3, IdleIsRequest DEF InTime, At
<1>5. FreshCopies'
  BY <1>1, <1>2, IdleIsRequest, FreshStays DEF Restored
<1>6. Overtaking' \subseteq Overtaking
  BY <1>1, <1>2, IdleIsRequest DEF Overtaking, At
<1> QED
  BY <1>1, <1>4, <1>5, <1>6, KeptStays DEF RestoreInv

\* Whatever the staff writes, those under way are marked.
LEMMA WorkFresh ==
    ASSUME RestoreInv, FreshCopies, Work
    PROVE  FreshCopies' /\ CopyKept'
<1>1. FreshCopies'
  BY WorkMarks DEF RestoreInv, FreshCopies, At
<1>2. ~InTime'
  BY WorkMarks DEF RestoreInv, InTime, At
<1> QED
  BY <1>1, <1>2 DEF CopyKept

LEMMA ExitFresh ==
    ASSUME Exit
    PROVE  FreshCopies' /\ CopyKept'
BY IdleIsRequest DEF Exit, FreshCopies, CopyKept, InTime, At

LEMMA AroundFresh ==
    ASSUME RestoreInv, FreshCopies, CopyKept,
           \/ \E o \in orphans : RunsOn(o)
           \/ \E p \in Passes : SetPassphrase(p)
           \/ UNCHANGED vars
    PROVE  FreshCopies' /\ CopyKept'
<1>1. UNCHANGED <<req, safety, held>> /\ orphans' \subseteq orphans
  BY DEF RunsOn, SetPassphrase, vars, ghosts
<1>2. CASE \E o \in orphans : RunsOn(o)
  <2>1. PICK o \in orphans : RunsOn(o)
    BY <1>2
  <2>2. db' = db \/ db'.content = o.file.content
    BY <2>1 DEF RunsOn, Contents
  <2>3. FileSaved(o.file.content)
    BY DEF RestoreInv, UploadsSaved
  <2>4. Restored
    BY <1>1, <2>2, <2>3 DEF Restored, FileSaved
  <2> QED
    BY <1>1, <2>4, Aside
<1>3. CASE UNCHANGED db
  BY <1>1, <1>3, Aside DEF Restored
<1> QED
  BY <1>2, <1>3 DEF SetPassphrase, vars

-----------------------------------------------------------------------------

Invariant == RestoreInv /\ FreshCopies /\ CopyKept

LEMMA InitRestore == Init => Invariant
<1> SUFFICES ASSUME Init PROVE Invariant
  OBVIOUS
<1>1. TypeOK
  <2>1. safety \in Seq(Copy) /\ Len(safety) = 0
    BY DEF Init
  <2>2. db \in Database /\ work \in 0..MaxWork /\ uploads \in 0..MaxUploads
    BY MaxWorkAssumption, MaxUploadsAssumption DEF Init, Database, Content
  <2>3. req \in [Admins -> Request]
    BY IdleIsRequest DEF Init
  <2>4. Len(safety) <= KeepSafetyCopies
    BY <2>1, KeepAssumption
  <2>5. /\ trial \in Content \union {None, Empty}
        /\ pass \in Passes \union {None}
        /\ orphans \in SUBSET Orphan
        /\ held \in SUBSET Content
        /\ stray \in BOOLEAN /\ unfinished \in BOOLEAN
    BY DEF Init
  <2> QED
    BY <2>1, <2>2, <2>3, <2>4, <2>5 DEF TypeOK
<1>2. UploadsSaved /\ LoadingIsStray /\ SomeoneCleansUp /\ SchemaFits
  BY IdleIsRequest DEF Init, UploadsSaved, LoadingIsStray, SomeoneCleansUp, SchemaFits
<1>3. FreshCopies /\ CopyKept
  BY IdleIsRequest DEF Init, FreshCopies, CopyKept, InTime, At
<1> QED
  BY <1>1, <1>2, <1>3 DEF Invariant, RestoreInv

LEMMA NextRestore == Invariant /\ [Next]_vars => Invariant'
<1> SUFFICES ASSUME Invariant, [Next]_vars PROVE Invariant'
  OBVIOUS
<1> USE DEF Invariant
<1>1. ASSUME NEW a \in Admins,
             \/ \E file \in Uploadable, confirmed \in BOOLEAN : Upload(a, file, confirmed)
             \/ DropLeftover(a) \/ CreateTrial(a) \/ Connect(a) \/ Load(a) \/ Count(a) \/ Cleanup(a)
      PROVE  Invariant'
  BY <1>1, UploadKeeps, DropLeftoverKeeps, CreateTrialKeeps, ConnectKeeps, LoadKeeps, CountKeeps,
     CleanupKeeps, RequestFresh
<1>2. ASSUME NEW a \in Admins, Dump(a) PROVE Invariant'
  BY <1>2, DumpKeeps, DumpFresh
<1>3. ASSUME NEW a \in Admins, WriteCopy(a) PROVE Invariant'
  BY <1>3, WriteCopyKeeps, WriteCopyFresh
<1>4. ASSUME NEW a \in Admins, Replace(a) \/ Migrate(a) PROVE Invariant'
  BY <1>4, ReplaceKeeps, MigrateKeeps, LiveFresh
<1>5. ASSUME NEW a \in Admins, Drop(a) PROVE Invariant'
  BY <1>5, DropKeeps, DropFresh
<1>6. CASE Exit
  BY <1>6, ExitKeeps, ExitFresh
<1>7. CASE Work
  BY <1>7, WorkKeeps, WorkFresh
<1>8. ASSUME NEW o \in orphans, RunsOn(o) PROVE Invariant'
  BY <1>8, RunsOnKeeps, AroundFresh
<1>9. ASSUME NEW p \in Passes, SetPassphrase(p) PROVE Invariant'
  BY <1>9, SetPassphraseKeeps, AroundFresh
<1>10. CASE UNCHANGED vars
  <2>1. RestoreInv'
    BY <1>10 DEF vars, ghosts, RestoreInv, TypeOK, UploadsSaved, FileSaved, LoadingIsStray,
                 SomeoneCleansUp, SchemaFits, At
  <2> QED
    BY <1>10, <2>1, AroundFresh
<1> QED
  BY <1>1, <1>2, <1>3, <1>4, <1>5, <1>6, <1>7, <1>8, <1>9, <1>10 DEF Next

\* The invariant the theorems rest on.
THEOREM RestoreInvariant == Spec => []Invariant
BY InitRestore, NextRestore, PTL DEF Spec

\* The types, and that no more safety copies are kept than KEEP_SAFETY_COPIES.
THEOREM RestoreIsTyped == Spec => []TypeOK
<1>1. Invariant => TypeOK
  BY DEF Invariant, RestoreInv
<1> QED
  BY <1>1, RestoreInvariant, PTL

\* trial always drops its scratch database: while nobody is at it, nothing is in
\* it, unless a request was cut off.
THEOREM ScratchIsEmpty == Spec => []NothingLeftBehind
<1>1. Invariant => NothingLeftBehind
  BY IdleIsRequest DEF Invariant, RestoreInv, SomeoneCleansUp, NothingLeftBehind, WillCleanUp
<1> QED
  BY <1>1, RestoreInvariant, PTL

\* restore runs the migrations over what it restored, and so does a restart.
THEOREM SchemaIsTheServers == Spec => []SchemaFits
<1>1. Invariant => SchemaFits
  BY DEF Invariant, RestoreInv
<1> QED
  BY <1>1, RestoreInvariant, PTL

\* What a restore replaces is in a safety copy or in a file at hand, as long as no
\* more admins restore at a time than copies are kept: prune_safety_copies may
\* else take a copy before its restore is over.
THEOREM AlwaysAWayBack == ASSUME FewAdmins PROVE Spec => WayBack
<1>1. Invariant /\ InTime => Saved(db.content)
  BY DEF Invariant, CopyKept, OnDisk, FileSaved, Saved
<1>2. ASSUME Invariant, [Next]_vars
      PROVE  [/\ \A a \in Admins : At(a, "live") /\ req'[a].pc = "migrate" => req[a].late \/ Saved(db.content)
              /\ \A o \in orphans \ orphans' :
                   o.pc = "live" /\ db' # db /\ work' = work => o.late \/ Saved(db.content)]_vars
  BY <1>1, <1>2 DEF InTime
<1> QED
  BY <1>2, RestoreInvariant, PTL DEF Spec, WayBack
=============================================================================
