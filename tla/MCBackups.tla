------------------------------ MODULE MCBackups ------------------------------
(***************************************************************************)
(* Backups on small instances, for TLC: two destinations that nobody       *)
(* changes, or one that is made, changed and deleted.                      *)
(***************************************************************************)
EXTENDS Backups, TLC

Never(d) == dest[d] = Null /\ least[d] # Null

MCInit ==
    /\ BackupsInit
    /\ \/ edits = MaxEdits /\ \A d \in Destinations : Exists(d)
       \/ edits = 0 /\ \E d \in Destinations : Never(d)

MCSpec == MCInit /\ [][BackupsNext]_backupsVars

Alike == Permutations(Schedules) \union Permutations(Destinations)
=============================================================================
