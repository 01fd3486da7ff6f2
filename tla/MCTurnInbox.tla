----------------------------- MODULE MCTurnInbox -----------------------------
(* Small instances of TurnInbox for TLC. *)
EXTENDS TurnInbox, TLC
=============================================================================
