---------------------------- MODULE AtomicStorage ----------------------------
(***************************************************************************)
(* What JsonlStorage of packages/agent/src/harness/pico3 promises to the   *)
(* session over it: a table that commits change one batch at a time, that  *)
(* an open storage serves, and that a stop at any instant leaves as the    *)
(* last commit left it.  JsonlStorage, with its files, implements this.    *)
(***************************************************************************)
EXTENDS Naturals

CONSTANT Task             \* the identifiers of the tasks

VARIABLES tables,         \* what has been committed
          served          \* what the open storage answers; Closed when it is not open

Closed == [open |-> FALSE]

\* A batch of writes: tasks created, patched and ended, and sticky-doc ops.
Batch == [create : SUBSET Task, patch : SUBSET Task, end : SUBSET Task,
          sticky : {"none", "delta", "base"}]

Empty == [seq |-> 0, sticky |-> {},
          task |-> [t \in Task |-> [status |-> "absent", value |-> 0]]]

\* The tables after batch b, in the order of its writes.  The value of a patch
\* is the commit that made it; a task's end clears it.
Apply(tb, b) ==
  LET s == tb.seq + 1
      Touched(t) == IF t \in b.end THEN [status |-> "terminal", value |-> 0]
                    ELSE IF t \in b.patch THEN [status |-> "live", value |-> s]
                    ELSE IF t \in b.create THEN [status |-> "live", value |-> 0]
                    ELSE tb.task[t]
  IN  [seq    |-> s,
       sticky |-> CASE b.sticky = "none"  -> tb.sticky
                    [] b.sticky = "delta" -> tb.sticky \cup {s}
                    [] b.sticky = "base"  -> {s},
       task   |-> [t \in Task |-> Touched(t)]]

\* The batches a session hands over: a task is created once, patched and
\* ended while it is live; only a live task is known to the session.
Accepts(tb, b) ==
  /\ \A t \in b.create : tb.task[t].status = "absent"
  /\ \A t \in b.patch : tb.task[t].status = "live" \/ t \in b.create
  /\ \A t \in b.end : tb.task[t].status = "live"

Init == tables = Empty /\ served = Closed

Open == served = Closed /\ served' = [open |-> TRUE, tables |-> tables] /\ UNCHANGED tables

\* A commit that is acknowledged, or one whose caller only learns that the
\* storage stopped: such a batch is there as a whole or not at all.  (A batch
\* need only be looked for when the sequence number says that there is one.)
Commit == /\ served # Closed
          /\ tables'.seq = tables.seq + 1
          /\ LET before == tables
                 after  == tables'
             IN \E b \in Batch : Accepts(before, b) /\ after = Apply(before, b)
          /\ served' \in {[open |-> TRUE, tables |-> tables'], Closed}

Stop == served' = Closed /\ UNCHANGED tables

Next == Open \/ Commit \/ Stop

Spec == Init /\ [][Next]_<<tables, served>>
==============================================================================
