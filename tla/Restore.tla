-------------------------------- MODULE Restore --------------------------------
(***************************************************************************)
(* Restoring the database from an uploaded backup                          *)
(* (src/api/src/backup/restore.rs, routes/restore.rs).                     *)
(*                                                                         *)
(* A file is first loaded into a scratch database, of which the server has *)
(* one for all requests.  A confirmed upload then writes a safety copy of  *)
(* the live database and replaces it in one transaction, runs the          *)
(* migrations over it, and the server exits to start afresh.  Each command *)
(* is a step; the staff goes on working in between, other admins upload    *)
(* files too, and a browser that goes away leaves a psql running.          *)
(*                                                                         *)
(* A database is known by its content, and by whether its schema is the    *)
(* server's.  Files that do not decrypt, or are no dump of this program's, *)
(* are refused before anything happens and are left out.  So are two       *)
(* safety copies within a second, which have one name.                     *)
(***************************************************************************)
EXTENDS Naturals, Sequences

CONSTANTS
    Admins,
    Files,              \* backups at hand: [content, old, loads]
    Passes,             \* passphrases
    KeepSafetyCopies,
    MaxWork,            \* bound: how often the staff writes
    MaxUploads,         \* bound: how many files are uploaded
    None, Empty

ASSUME KeepAssumption == KeepSafetyCopies \in Nat \ {0}
ASSUME MaxWorkAssumption == MaxWork \in Nat
ASSUME MaxUploadsAssumption == MaxUploads \in Nat

VARIABLES
    db,         \* the live database
    work,       \* how often the staff has written
    trial,      \* the scratch database: its content, or None
    safety,     \* the safety copies on disk, by name
    pass,       \* the passphrase file
    req,        \* req[a]: the upload of admin a
    orphans,    \* psql processes whose request is gone
    uploads,    \* how many files were uploaded
    held,       \* the contents of those that were safety copies
    stray,      \* a request was cut off since the scratch database was last dropped
    unfinished  \* a live restore was cut off before its migrations

\* Not in the program.
ghosts == <<held, stray, unfinished>>
vars == <<db, work, trial, safety, pass, req, orphans, uploads, ghosts>>

Content == 0..MaxWork \union {f.content : f \in Files}
Database == [content : Content, old : BOOLEAN]
File == [content : Content, old : BOOLEAN, loads : BOOLEAN]
Copy == [content : Content, old : BOOLEAN, pass : Passes]

OnTrial == {"drop", "create", "connect", "loading", "count", "cleanup"}
Live == {"dump", "write", "live", "migrate", "log"}
Request ==
    [pc : {"idle"}]
    \union [pc : OnTrial \union Live, file : File, confirmed : BOOLEAN, ok : BOOLEAN,
            copy : Copy \union {None}, late : BOOLEAN]
Orphan == [pc : {"loading", "live"}, file : File, late : BOOLEAN]

ASSUME FilesAssumption == Files \subseteq File

TypeOK ==
    /\ db \in Database
    /\ work \in 0..MaxWork
    /\ trial \in Content \union {None, Empty}
    /\ safety \in Seq(Copy) /\ Len(safety) <= KeepSafetyCopies
    /\ pass \in Passes \union {None}
    /\ req \in [Admins -> Request]
    /\ orphans \in SUBSET Orphan
    /\ uploads \in 0..MaxUploads
    /\ held \in SUBSET Content
    /\ stray \in BOOLEAN /\ unfinished \in BOOLEAN

Idle == [pc |-> "idle"]

Init ==
    /\ db = [content |-> 0, old |-> FALSE]
    /\ work = 0
    /\ trial = None
    /\ safety = <<>>
    /\ pass \in Passes \union {None}
    /\ req = [a \in Admins |-> Idle]
    /\ orphans = {} /\ uploads = 0 /\ held = {}
    /\ stray = FALSE /\ unfinished = FALSE

At(a, pc) == req[a].pc = pc
Goto(a, r) == req' = [req EXCEPT ![a] = r]
Step(a, pc) == Goto(a, [req[a] EXCEPT !.pc = pc])

-----------------------------------------------------------------------------
(* The trial.                                                              *)

\* upload: a backup, or a safety copy that was downloaded, with the right passphrase.
Upload(a, file, confirmed) ==
    /\ uploads < MaxUploads /\ uploads' = uploads + 1
    /\ req[a] = Idle /\ pass # None
    /\ Goto(a, [pc |-> "drop", file |-> file, confirmed |-> confirmed, ok |-> FALSE,
                copy |-> None, late |-> FALSE])
    /\ held' = IF file \in Files THEN held ELSE held \union {file.content}
    /\ UNCHANGED <<db, work, trial, safety, pass, orphans, stray, unfinished>>

\* A copy, as a file.
AsFile(copy) == [content |-> copy.content, old |-> copy.old, loads |-> TRUE]

Uploadable == Files \union {AsFile(safety[i]) : i \in {j \in DOMAIN safety : safety[j].pass = pass}}

\* Who is connected to the scratch database; it cannot be dropped meanwhile.
InUse == (\E a \in Admins : At(a, "loading")) \/ (\E o \in orphans : o.pc = "loading")

\* "drop database if exists", whose failure is ignored.
DropTrial ==
    IF InUse THEN UNCHANGED <<trial, stray>> ELSE trial' = None /\ stray' = FALSE

DropLeftover(a) ==
    /\ At(a, "drop")
    /\ DropTrial
    /\ Step(a, "create")
    /\ UNCHANGED <<db, work, safety, pass, orphans, held, unfinished, uploads>>

CreateTrial(a) ==
    /\ At(a, "create")
    /\ IF trial = None THEN trial' = Empty /\ Step(a, "connect")
       ELSE Goto(a, Idle) /\ UNCHANGED trial
    /\ UNCHANGED <<db, work, safety, pass, orphans, ghosts, uploads>>

\* psql connects; the database may have been dropped by another request.
Connect(a) ==
    /\ At(a, "connect")
    /\ Step(a, IF trial = None THEN "cleanup" ELSE "loading")
    /\ UNCHANGED <<db, work, trial, safety, pass, orphans, ghosts, uploads>>

\* In one transaction, which fails where tables are there already.
Loads(file) == trial = Empty /\ file.loads

Load(a) ==
    /\ At(a, "loading")
    /\ IF Loads(req[a].file)
       THEN trial' = req[a].file.content /\ Step(a, "count")
       ELSE UNCHANGED trial /\ Step(a, "cleanup")
    /\ UNCHANGED <<db, work, safety, pass, orphans, ghosts, uploads>>

\* count_rows, of whatever is in the scratch database by now.
Count(a) ==
    /\ At(a, "count")
    /\ Goto(a, [req[a] EXCEPT !.pc = "cleanup", !.ok = trial # None])
    /\ UNCHANGED <<db, work, trial, safety, pass, orphans, ghosts, uploads>>

\* Mutant of Cleanup: after a failure the scratch database stays.
CleanupIfOk(a) ==
    /\ At(a, "cleanup")
    /\ IF req[a].ok THEN DropTrial ELSE UNCHANGED <<trial, stray>>
    /\ IF req[a].ok /\ req[a].confirmed THEN Step(a, "dump") ELSE Goto(a, Idle)
    /\ UNCHANGED <<db, work, safety, pass, orphans, held, unfinished, uploads>>

\* Always dropped; then an inspection is over.
Cleanup(a) ==
    /\ At(a, "cleanup")
    /\ DropTrial
    /\ IF req[a].ok /\ req[a].confirmed THEN Step(a, "dump") ELSE Goto(a, Idle)
    /\ UNCHANGED <<db, work, safety, pass, orphans, held, unfinished, uploads>>

-----------------------------------------------------------------------------
(* The live restore.                                                       *)

\* safety_copy: pg_dump and encryption, which may fail.
Dump(a) ==
    /\ At(a, "dump")
    /\ \/ /\ pass # None
          /\ Goto(a, [req[a] EXCEPT !.pc = "write", !.late = FALSE,
                      !.copy = [content |-> db.content, old |-> db.old, pass |-> pass]])
       \/ Goto(a, Idle)
    /\ UNCHANGED <<db, work, trial, safety, pass, orphans, ghosts, uploads>>

\* Mutant of Pruned: the newest go.
PrunedNewest(copies) ==
    IF Len(copies) > KeepSafetyCopies THEN SubSeq(copies, 1, KeepSafetyCopies) ELSE copies

\* prune_safety_copies
Pruned(copies) ==
    IF Len(copies) > KeepSafetyCopies
    THEN SubSeq(copies, Len(copies) - KeepSafetyCopies + 1, Len(copies)) ELSE copies

WriteCopy(a) ==
    /\ At(a, "write")
    /\ \/ /\ safety' = Pruned(Append(safety, req[a].copy))
          /\ Goto(a, [req[a] EXCEPT !.pc = "live", !.copy = None])
       \/ Goto(a, Idle) /\ UNCHANGED safety
    /\ UNCHANGED <<db, work, trial, pass, orphans, ghosts, uploads>>

Contents(file) == [content |-> file.content, old |-> file.old]

\* psql, in one transaction.
Replace(a) ==
    /\ At(a, "live")
    /\ \/ /\ req[a].file.loads
          /\ db' = Contents(req[a].file)
          /\ Goto(a, [req[a] EXCEPT !.pc = "migrate"])
       \/ Goto(a, Idle) /\ UNCHANGED db
    /\ UNCHANGED <<work, trial, safety, pass, orphans, ghosts, uploads>>

\* Mutant of Migrate: left to the next deploy.
MigrateLater(a) ==
    /\ At(a, "migrate")
    /\ Step(a, "log")
    /\ UNCHANGED <<db, work, trial, safety, pass, orphans, ghosts, uploads>>

\* If they fail, the server stays up over the restored database.
Migrate(a) ==
    /\ At(a, "migrate")
    /\ \/ /\ db' = [db EXCEPT !.old = FALSE]
          /\ Step(a, "log")
          /\ unfinished' = FALSE
       \/ /\ Goto(a, Idle)
          /\ unfinished' = TRUE
          /\ UNCHANGED db
    /\ UNCHANGED <<work, trial, safety, pass, orphans, held, stray, uploads>>

-----------------------------------------------------------------------------
(* Around it.                                                              *)

\* The server exits, two seconds after a restore or for any other reason, and
\* starts again, which runs the migrations.
Exit ==
    /\ db' = [db EXCEPT !.old = FALSE]
    /\ req' = [a \in Admins |-> Idle]
    /\ orphans' = {}
    /\ stray' = (trial # None)
    /\ unfinished' = FALSE
    /\ UNCHANGED <<work, trial, safety, pass, held, uploads>>

\* The browser of a goes away.  A psql that was started runs on.
Drop(a) ==
    /\ req[a] # Idle
    /\ orphans' = IF req[a].pc \in {"loading", "live"}
                  THEN orphans \union {[pc |-> req[a].pc, file |-> req[a].file, late |-> req[a].late]}
                  ELSE orphans
    /\ Goto(a, Idle)
    /\ stray' = TRUE
    /\ unfinished' = (unfinished \/ req[a].pc \in {"live", "migrate"})
    /\ UNCHANGED <<db, work, trial, safety, pass, held, uploads>>

\* It ends; when it replaced the live database, nobody runs the migrations.
RunsOn(o) ==
    /\ o \in orphans
    /\ orphans' = orphans \ {o}
    /\ IF o.pc = "loading"
       THEN /\ trial' = IF Loads(o.file) THEN o.file.content ELSE trial
            /\ UNCHANGED <<db, unfinished>>
       ELSE /\ db' = IF o.file.loads THEN Contents(o.file) ELSE db
            /\ unfinished' = (unfinished \/ o.file.loads)
            /\ UNCHANGED trial
    /\ UNCHANGED <<work, safety, pass, req, held, stray, uploads>>

\* The staff writes; restores that have dumped the database already miss it.
Work ==
    /\ work < MaxWork
    /\ work' = work + 1
    /\ db' = [db EXCEPT !.content = work + 1]
    /\ req' = [a \in Admins |-> IF req[a].pc \in {"write", "live"}
                                THEN [req[a] EXCEPT !.late = TRUE] ELSE req[a]]
    /\ orphans' = {[o EXCEPT !.late = TRUE] : o \in orphans}
    /\ UNCHANGED <<trial, safety, pass, ghosts, uploads>>

SetPassphrase(p) ==
    /\ pass' = p
    /\ UNCHANGED <<db, work, trial, safety, req, orphans, ghosts, uploads>>

Next ==
    \/ \E a \in Admins :
         \/ \E file \in Uploadable, confirmed \in BOOLEAN : Upload(a, file, confirmed)
         \/ DropLeftover(a) \/ CreateTrial(a) \/ Connect(a) \/ Load(a) \/ Count(a) \/ Cleanup(a)
         \/ Dump(a) \/ WriteCopy(a) \/ Replace(a) \/ Migrate(a) \/ Drop(a)
    \/ Exit \/ Work
    \/ \E o \in orphans : RunsOn(o)
    \/ \E p \in Passes : SetPassphrase(p)

Spec == Init /\ [][Next]_vars

-----------------------------------------------------------------------------
(* Properties.                                                             *)

Saved(c) == (\E f \in Files : f.content = c) \/ c \in held \/ \E i \in DOMAIN safety : safety[i].content = c

\* Whatever a restore replaces can be got back, from a safety copy or from a
\* file that was uploaded: also when several restores run at a time and prune
\* each other's copies.  Only what was written after the copy is lost.
WayBack ==
    [][/\ \A a \in Admins : At(a, "live") /\ req'[a].pc = "migrate" => req[a].late \/ Saved(db.content)
       /\ \A o \in orphans \ orphans' :
            o.pc = "live" /\ db' # db /\ work' = work => o.late \/ Saved(db.content)]_vars

\* No copy of the data stays in the scratch database, however uploads get into
\* each other's way, unless one was cut off (trial: "Always cleaned up, including
\* on failure").
NothingLeftBehind == (\A a \in Admins : req[a] = Idle) => trial = None \/ stray

\* The server's schema is that of the database, except on the way to the
\* migrations and when a restore did not get to them.
SchemaFits == db.old => unfinished \/ \E a \in Admins : At(a, "migrate")
=============================================================================
