----------------------------- MODULE MCOutboxes -----------------------------
(***************************************************************************)
(* Outboxes on a small instance, for TLC.                                  *)
(***************************************************************************)
EXTENDS Outboxes

Tries == [q \in Queue |-> 2]
=============================================================================
