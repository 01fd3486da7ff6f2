---------------------------- MODULE MCTaskKernel ----------------------------
(* Small instances of TaskKernel for TLC. *)
EXTENDS TaskKernel, TLC

TaskSymmetry == Permutations(Task \ Background) \cup Permutations(Background)
==============================================================================
