------------------------------ MODULE MCRestore ------------------------------
(***************************************************************************)
(* Restore on a small instance, for TLC.                                   *)
(***************************************************************************)
EXTENDS Restore, TLC

CONSTANTS Yesterday, Torn

\* An older backup, and one that does not load.
Backups == {[content |-> Yesterday, old |-> TRUE, loads |-> TRUE],
            [content |-> Torn, old |-> FALSE, loads |-> FALSE]}

Alike == Permutations(Admins) \union Permutations(Passes)
=============================================================================
