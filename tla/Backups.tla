-------------------------------- MODULE Backups --------------------------------
(***************************************************************************)
(* Scheduled backups (src/api/src/backup/mod.rs, destination.rs, drive.rs, *)
(* routes/backup_admin.rs, migration 0018).                                *)
(*                                                                         *)
(* One worker backs up to every destination that is due; "Run now" does    *)
(* the same for one destination inside a request.  After a good run, older *)
(* files of the destination beyond its retain_count are deleted at Drive.  *)
(* Each statement and each call to Drive is a step of its own; the server  *)
(* may die, and the request be dropped, between any two.                   *)
(*                                                                         *)
(* A file is known by the run that uploaded it.  Left out: what is in a    *)
(* dump, the copies of a run's outcome in the destination's own row, and   *)
(* schedules that never fire, which create and update refuse.              *)
(***************************************************************************)
EXTENDS Naturals, Sequences, FiniteSets

CONSTANTS
    Destinations,
    Schedules,
    Retains,        \* the retain_counts that create and update accept
    MaxRuns,        \* bound: rows in backup_runs
    MaxEdits,       \* bound: changes on the admin page
    Null

ASSUME RetainsAssumption == Retains \subseteq Nat \ {0}
ASSUME MaxRunsAssumption == MaxRuns \in Nat
ASSUME MaxEditsAssumption == MaxEdits \in Nat

VARIABLES
    dest,       \* dest[d]: the row in backup_destinations
    runs,       \* backup_runs, by started_at
    drive,      \* the files on Drive
    proc,       \* the worker and the request of "Run now"
    least,      \* least[d]: the smallest retain_count it ever had
    overtaken,  \* destinations edited while the worker had their row in hand
    served,     \* destinations run since they were last due
    strays,     \* files of which the program was never told
    edits       \* changes made so far

\* Not in the program.
marks == <<least, overtaken, served, strays>>
backupsVars == <<dest, runs, drive, proc, marks, edits>>

RunIds == 1..MaxRuns
NextRun == [by : Schedules, due : BOOLEAN]
Kind == {"google_drive", "email"}
Destination == [kind : Kind, schedule : Schedules, retain : Retains, enabled : BOOLEAN,
                next : NextRun \union {Null}]
Run == [d : Destinations, status : {"running", "ok", "failed"}, remote : RunIds \union {Null}]
Row == [d : Destinations, kind : Kind, schedule : Schedules, retain : Retains]
Who == {"worker", "manual"}

ASSUME NullAssumption == Null \notin Destination \union NextRun \union Run \union RunIds \union Retains

Proc ==
    [pc : {"idle", "boot"}]
    \union [pc : {"next", "no dump"}, todo : SUBSET Row]
    \union [pc : {"upload"}, todo : SUBSET Row, row : Row, run : RunIds]
    \union [pc : {"record"}, todo : SUBSET Row, row : Row, run : RunIds, ok : BOOLEAN,
            remote : RunIds \union {Null}]
    \union [pc : {"list"}, todo : SUBSET Row, row : Row]
    \union [pc : {"delete"}, todo : SUBSET Row, row : Row, stale : SUBSET RunIds]
    \union [pc : {"clear"}, todo : SUBSET Row, row : Row, stale : SUBSET RunIds, gone : RunIds]
    \union [pc : {"advance"}, todo : SUBSET Row, row : Row, dumped : BOOLEAN]

BackupsTypeOK ==
    /\ dest \in [Destinations -> Destination \union {Null}]
    /\ runs \in Seq(Run \union {Null}) /\ Len(runs) <= MaxRuns
    /\ drive \in SUBSET RunIds
    /\ proc \in [Who -> Proc]
    /\ least \in [Destinations -> Retains \union {Null}]
    /\ overtaken \in SUBSET Destinations
    /\ served \in SUBSET Destinations
    /\ strays \in SUBSET RunIds
    /\ edits \in 0..MaxEdits

AtRest == [pc |-> "idle"]

\* Some destinations may be older than the worker, without a next run, and some
\* deleted; some of the changes may have been made before.
BackupsInit ==
    /\ \E old, deleted \in SUBSET Destinations, kind \in Kind, s \in Schedules, k \in Retains,
          on \in BOOLEAN :
         /\ dest = [d \in Destinations |->
              IF d \in old THEN [kind |-> kind, schedule |-> s, retain |-> k, enabled |-> on, next |-> Null]
              ELSE Null]
         /\ least = [d \in Destinations |-> IF d \in old \union deleted THEN k ELSE Null]
    /\ runs = <<>>
    /\ drive = {}
    /\ proc = [p \in Who |-> IF p = "worker" THEN [pc |-> "boot"] ELSE AtRest]
    /\ overtaken = {} /\ served = {} /\ strays = {}
    /\ edits \in 0..MaxEdits

Doing(p, pc) == proc[p].pc = pc
Continue(p, r) == proc' = [proc EXCEPT ![p] = r]
RowOf(d) == [d |-> d, kind |-> dest[d].kind, schedule |-> dest[d].schedule, retain |-> dest[d].retain]
Exists(d) == dest[d] # Null

\* reschedule: the first time of the schedule after now.
Scheduled(s) == [by |-> s, due |-> FALSE]

\* Where p goes when it is done with its row: the worker advances the schedule.
Done(p, dumped) ==
    IF p = "worker" THEN [pc |-> "advance", todo |-> proc[p].todo, row |-> proc[p].row, dumped |-> dumped]
    ELSE AtRest

-----------------------------------------------------------------------------
(* The admin page.                                                         *)

Edit == edits < MaxEdits /\ edits' = edits + 1

\* create and update refuse other counts; the form may well send 0.
ValidCount(k) == k \in Retains

\* create, once per destination; it is scheduled at once.
Create(d, kind, s, k) ==
    /\ Edit /\ ValidCount(k) /\ ~Exists(d) /\ least[d] = Null
    /\ dest' = [dest EXCEPT ![d] = [kind |-> kind, schedule |-> s, retain |-> k, enabled |-> TRUE,
                                    next |-> Scheduled(s)]]
    /\ least' = [least EXCEPT ![d] = k]
    /\ UNCHANGED <<runs, drive, proc, overtaken, served, strays>>

\* Does the worker hold a row of d that it read before?
InHand(d) ==
    /\ proc["worker"].pc \notin {"idle", "boot"}
    /\ \/ \E row \in proc["worker"].todo : row.d = d
       \/ "row" \in DOMAIN proc["worker"] /\ proc["worker"].row.d = d

\* Mutant of NextOnEdit: the old time stands as long as there is one.
NextOnEditKept(d, s, on) ==
    IF ~on THEN Null ELSE IF dest[d].next # Null THEN dest[d].next ELSE Scheduled(s)

\* update computes the next run on every edit.
NextOnEdit(d, s, on) == IF on THEN Scheduled(s) ELSE Null

Update(d, s, k, on) ==
    /\ Edit /\ ValidCount(k) /\ Exists(d)
    /\ dest' = [dest EXCEPT ![d] = [kind |-> @.kind, schedule |-> s, retain |-> k, enabled |-> on,
                                    next |-> NextOnEdit(d, s, on)]]
    /\ least' = [least EXCEPT ![d] = IF k < @ THEN k ELSE @]
    /\ overtaken' = IF InHand(d) THEN overtaken \union {d} ELSE overtaken \ {d}
    /\ UNCHANGED <<runs, drive, proc, served, strays>>

\* delete takes the history along; the files stay.
Delete(d) ==
    /\ Edit /\ Exists(d)
    /\ dest' = [dest EXCEPT ![d] = Null]
    /\ runs' = [r \in DOMAIN runs |-> IF runs[r] # Null /\ runs[r].d = d THEN Null ELSE runs[r]]
    /\ UNCHANGED <<drive, proc, marks>>

\* run_now.  Without a dump it ends in an error, and nothing is written.
RunNow(d) ==
    /\ proc["manual"] = AtRest /\ Exists(d)
    /\ Continue("manual", [pc |-> "next", todo |-> {RowOf(d)}])
    /\ UNCHANGED <<dest, runs, drive, marks, edits>>

-----------------------------------------------------------------------------
(* The worker, and what it shares with "Run now".                          *)

\* run_worker at boot: what has no next run gets one.
Boot ==
    /\ Doing("worker", "boot")
    /\ dest' = [d \in Destinations |->
         IF Exists(d) /\ dest[d].enabled /\ dest[d].next = Null
         THEN [dest[d] EXCEPT !.next = Scheduled(dest[d].schedule)] ELSE dest[d]]
    /\ Continue("worker", AtRest)
    /\ UNCHANGED <<runs, drive, marks, edits>>

\* The clock reaches the next run of d.
Tick(d) ==
    /\ Exists(d) /\ dest[d].next # Null /\ ~dest[d].next.due
    /\ Len(runs) < MaxRuns
    /\ dest' = [dest EXCEPT ![d].next.due = TRUE]
    /\ served' = served \ {d}
    /\ UNCHANGED <<runs, drive, proc, least, overtaken, strays, edits>>

Due == {d \in Destinations :
          Exists(d) /\ dest[d].enabled /\ dest[d].next # Null /\ dest[d].next.due}

\* poll reads what is due and builds one artefact for all, or fails to.
Poll ==
    /\ proc["worker"] = AtRest /\ Due # {}
    /\ \E dumped \in BOOLEAN :
         Continue("worker", [pc |-> IF dumped THEN "next" ELSE "no dump", todo |-> {RowOf(d) : d \in Due}])
    /\ UNCHANGED <<dest, runs, drive, marks, edits>>

\* A row for the run of row.d, unless the destination was deleted.
Insert(p, row, status) ==
    IF Exists(row.d)
    THEN /\ Len(runs) < MaxRuns
         /\ runs' = Append(runs, [d |-> row.d, status |-> status, remote |-> Null])
         /\ served' = IF p = "worker" THEN served \union {row.d} ELSE served
    ELSE UNCHANGED <<runs, served>>

\* run_once begins.
Start(p) ==
    /\ Doing(p, "next")
    /\ \E row \in proc[p].todo :
         LET todo == proc[p].todo \ {row}
         IN  /\ Insert(p, row, "running")
             /\ Continue(p,
                  IF Exists(row.d)
                  THEN [pc |-> "upload", todo |-> todo, row |-> row, run |-> Len(runs) + 1]
                  ELSE IF p = "worker"
                       THEN [pc |-> "advance", todo |-> todo, row |-> row, dumped |-> TRUE]
                       ELSE AtRest)
    /\ UNCHANGED <<dest, drive, least, overtaken, strays, edits>>

\* poll when there is no dump: every destination gets a failed run.
FailRun ==
    /\ Doing("worker", "no dump")
    /\ \E row \in proc["worker"].todo :
         /\ Insert("worker", row, "failed")
         /\ Continue("worker", [pc |-> "advance", todo |-> proc["worker"].todo \ {row}, row |-> row,
                                dumped |-> FALSE])
    /\ UNCHANGED <<dest, drive, least, overtaken, strays, edits>>

\* The upload, or the mail.  A mail has no id.  Drive may refuse, or store the
\* file and its answer get lost or be unreadable.
Deliver(p) ==
    /\ Doing(p, "upload")
    /\ LET r == proc[p].run
           outcome(ok, id) == Continue(p, [pc |-> "record", todo |-> proc[p].todo, row |-> proc[p].row,
                                           run |-> r, ok |-> ok, remote |-> id])
       IN  \/ outcome(FALSE, Null) /\ UNCHANGED <<drive, strays>>
           \/ proc[p].row.kind = "email" /\ outcome(TRUE, Null) /\ UNCHANGED <<drive, strays>>
           \/ /\ proc[p].row.kind = "google_drive"
              /\ drive' = drive \union {r}
              /\ \/ outcome(TRUE, r) /\ UNCHANGED strays
                 \/ \E ok \in BOOLEAN : outcome(ok, Null) /\ strays' = strays \union {r}
    /\ UNCHANGED <<dest, runs, least, overtaken, served, edits>>

\* run_once ends: the run's row, if it is still there.  Then prune, unless the
\* run failed or it was a mail, which cannot be deleted.
Record(p) ==
    /\ Doing(p, "record")
    /\ LET r == proc[p].run
       IN  runs' = IF runs[r] = Null THEN runs
                   ELSE [runs EXCEPT ![r].status = IF proc[p].ok THEN "ok" ELSE "failed",
                                     ![r].remote = proc[p].remote]
    /\ Continue(p,
         IF proc[p].ok /\ proc[p].row.kind = "google_drive"
         THEN [pc |-> "list", todo |-> proc[p].todo, row |-> proc[p].row]
         ELSE Done(p, TRUE))
    /\ UNCHANGED <<dest, drive, marks, edits>>

\* The runs of d whose file the program knows.
Good(d) == {r \in DOMAIN runs :
              runs[r] # Null /\ runs[r].d = d /\ runs[r].status = "ok" /\ runs[r].remote # Null}
Younger(r, S) == {q \in S : q > r}

\* Mutant of Stale: the oldest are kept.
StaleYoungest(row) ==
    {r \in Good(row.d) : Cardinality({q \in Good(row.d) : q < r}) >= row.retain}

\* prune: those beyond the retain_count that was read, counted from the newest.
Stale(row) == {r \in Good(row.d) : Cardinality(Younger(r, Good(row.d))) >= row.retain}

\* The key to Drive may be gone by now.
List(p) ==
    /\ Doing(p, "list")
    /\ \/ Continue(p, Done(p, TRUE))
       \/ Continue(p, [pc |-> "delete", todo |-> proc[p].todo, row |-> proc[p].row,
                       stale |-> Stale(proc[p].row)])
    /\ UNCHANGED <<dest, runs, drive, marks, edits>>

\* Mutant of DeleteFile: the row is cleared even when Drive refuses.
DeleteFileAnyway(p) ==
    /\ Doing(p, "delete")
    /\ \/ /\ proc[p].stale = {}
          /\ Continue(p, Done(p, TRUE)) /\ UNCHANGED drive
       \/ \E r \in proc[p].stale :
            /\ \/ drive' = drive \ {r}
               \/ UNCHANGED drive
            /\ Continue(p, [pc |-> "clear", todo |-> proc[p].todo, row |-> proc[p].row,
                            stale |-> proc[p].stale \ {r}, gone |-> r])
    /\ UNCHANGED <<dest, runs, marks, edits>>

\* A file that is not there any more counts as deleted; after an error it is left.
DeleteFile(p) ==
    /\ Doing(p, "delete")
    /\ \/ /\ proc[p].stale = {}
          /\ Continue(p, Done(p, TRUE)) /\ UNCHANGED drive
       \/ \E r \in proc[p].stale :
            \/ /\ drive' = drive \ {r}
               /\ Continue(p, [pc |-> "clear", todo |-> proc[p].todo, row |-> proc[p].row,
                               stale |-> proc[p].stale \ {r}, gone |-> r])
            \/ UNCHANGED drive /\ Continue(p, [proc[p] EXCEPT !.stale = @ \ {r}])
    /\ UNCHANGED <<dest, runs, marks, edits>>

Clear(p) ==
    /\ Doing(p, "clear")
    /\ LET r == proc[p].gone
       IN  runs' = IF runs[r] = Null THEN runs ELSE [runs EXCEPT ![r].remote = Null]
    /\ Continue(p, [pc |-> "delete", todo |-> proc[p].todo, row |-> proc[p].row, stale |-> proc[p].stale])
    /\ UNCHANGED <<dest, drive, marks, edits>>

\* Mutant of Advanced: only a good run moves the schedule on.
AdvancedIfOk(row) ==
    IF Exists(row.d) /\ \E r \in DOMAIN runs : r = Len(runs) /\ runs[r] # Null /\ runs[r].status = "ok"
    THEN [dest EXCEPT ![row.d].next = Scheduled(row.schedule)] ELSE dest

\* Always on, whatever came of the run, by the schedule that was read.
Advanced(row) ==
    IF Exists(row.d) THEN [dest EXCEPT ![row.d].next = Scheduled(row.schedule)] ELSE dest

Advance ==
    /\ Doing("worker", "advance")
    /\ dest' = Advanced(proc["worker"].row)
    /\ Continue("worker",
         IF proc["worker"].todo = {} THEN AtRest
         ELSE [pc |-> IF proc["worker"].dumped THEN "next" ELSE "no dump",
               todo |-> proc["worker"].todo])
    /\ UNCHANGED <<runs, drive, marks, edits>>

\* A file that was stored but not recorded is not known to anyone.
Unrecorded(p) == IF Doing(p, "record") /\ proc[p].remote # Null THEN {proc[p].run} ELSE {}

\* The browser of "Run now" goes away.
HangUp ==
    /\ proc["manual"] # AtRest
    /\ strays' = strays \union Unrecorded("manual")
    /\ Continue("manual", AtRest)
    /\ UNCHANGED <<dest, runs, drive, least, overtaken, served, edits>>

\* The server dies and starts again.  What was due is due again.
Crash ==
    /\ \E p \in Who : proc[p] # AtRest
    /\ strays' = strays \union Unrecorded("worker") \union Unrecorded("manual")
    /\ proc' = [p \in Who |-> IF p = "worker" THEN [pc |-> "boot"] ELSE AtRest]
    /\ served' = {}
    /\ UNCHANGED <<dest, runs, drive, least, overtaken, edits>>

BackupsNext ==
    \/ \E d \in Destinations :
         \/ Delete(d) \/ RunNow(d) \/ Tick(d)
         \/ \E s \in Schedules, k \in Retains \union {0} :
              \/ \E kind \in Kind : Create(d, kind, s, k)
              \/ \E on \in BOOLEAN : Update(d, s, k, on)
    \/ Boot \/ Poll \/ FailRun \/ Advance \/ HangUp \/ Crash
    \/ \E p \in Who :
         \/ Start(p) \/ Deliver(p) \/ Record(p)
         \/ List(p) \/ DeleteFile(p) \/ Clear(p)

BackupsSpec == BackupsInit /\ [][BackupsNext]_backupsVars

-----------------------------------------------------------------------------
(* Properties.                                                             *)

\* An enabled destination has a next run, and by its present schedule; only an
\* edit while the worker had the destination's row in hand may be overtaken by
\* the worker (update: "leaving a stale next_run_at would fire the old schedule
\* one more time").
NextFollowsSchedule ==
    ~Doing("worker", "boot") =>
      \A d \in Destinations :
        Exists(d) /\ dest[d].enabled =>
          /\ dest[d].next # Null
          /\ dest[d].next.by = dest[d].schedule \/ d \in overtaken

\* However worker and "Run now" prune at a time, and whoever changes the count
\* meanwhile: the newest files of a destination, as many as it was ever told to
\* keep at least, are on Drive.
NewestAreKept ==
    \A d \in Destinations : Exists(d) =>
      \A r \in Good(d) : Cardinality(Younger(r, Good(d))) < least[d] => r \in drive

\* A file on Drive can still be pruned: its run is ok and has its id, or is
\* about to get it.  Others belong to a deleted destination or are strays.
FilesAreKnown ==
    \A r \in drive :
      \/ r \in strays
      \/ runs[r] = Null
      \/ r \in Good(runs[r].d)
      \/ \E p \in Who : Doing(p, "record") /\ proc[p].run = r /\ proc[p].remote = r

\* A destination is not backed up twice for one time of its schedule, unless the
\* server died in between (poll: "must not become a hot loop").
OncePerTime ==
    [][\A r \in DOMAIN runs' \ DOMAIN runs :
         proc'["worker"] # proc["worker"] => runs'[r].d \notin served]_backupsVars
=============================================================================
