--------------------------- MODULE MCJsonlStorage ---------------------------
(* Small instances of JsonlStorage for TLC. *)
EXTENDS JsonlStorage, TLC

StorageSymmetry == Permutations(Task)

\* The tasks some commit creates, the one under way included.
Used ==
  {t \in Task : mem.task[t].status # "absent"}
    \cup IF op.stage = "append" THEN op.batch.create ELSE {}

\* Two tasks share a log of three commits, one task has a log of five to itself.
LogBound == Cardinality(Used) <= 1 \/ Len(main) <= 2
=============================================================================
