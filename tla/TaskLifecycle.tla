---------------------------- MODULE TaskLifecycle ----------------------------
(***************************************************************************)
(* What the durable task kernel of packages/agent/src/harness/pico3        *)
(* promises about the stored record of a task, with no scheduler, process  *)
(* or crash in sight.  A record is created pending, starts once, is marked *)
(* for abort at most once, and gets its outcome once.  TaskKernel, the     *)
(* kernel itself, is shown to implement this specification.                *)
(***************************************************************************)
CONSTANT Task           \* the identifiers of the tasks

VARIABLE rec            \* the stored records

Status == {"absent", "pending", "running", "terminal"}

Outcome == {"none", "completed", "failed", "aborted", "faulted", "orphaned"}

Record == [status  : Status,
           abort   : BOOLEAN,
           outcome : Outcome,
           after   : SUBSET Task]

Init == rec = [t \in Task |-> [status |-> "absent", abort |-> FALSE,
                               outcome |-> "none", after |-> {}]]

Over(t) == rec[t].status = "terminal"

Create(t) == /\ rec[t].status = "absent"
             /\ \E deps \in SUBSET {d \in Task : rec[d].status # "absent"} :
                  rec'[t] = [rec[t] EXCEPT !.status = "pending", !.after = deps]

\* A task starts when what it waits for is over, or to be aborted.
Start(t) == /\ rec[t].status = "pending"
            /\ rec[t].abort \/ \A d \in rec[t].after : Over(d)
            /\ rec'[t] = [rec[t] EXCEPT !.status = "running"]

Mark(t) == /\ rec[t].status \in {"pending", "running"}
           /\ rec'[t] = [rec[t] EXCEPT !.abort = TRUE]

\* A declared outcome needs an unmarked task, "aborted" a marked one; a
\* contract fault can end either, and an orphan never ran in this process.
MayEnd(t, o) ==
  \/ o \in {"completed", "failed"} /\ rec[t].status = "running" /\ ~rec[t].abort
  \/ o = "aborted" /\ rec[t].status = "running" /\ rec[t].abort
  \/ o = "faulted" /\ rec[t].status = "running"
  \/ o = "orphaned" /\ rec[t].status \in {"pending", "running"}

End(t) == \E o \in Outcome \ {"none"} :
            /\ MayEnd(t, o)
            /\ rec'[t] = [rec[t] EXCEPT !.status = "terminal", !.outcome = o]

\* One commit of the store may move several records.
Next == /\ DOMAIN rec' = Task
        /\ \A t \in Task : \/ rec'[t] = rec[t]
                           \/ Create(t)
                           \/ Start(t)
                           \/ Mark(t)
                           \/ End(t)

Spec == Init /\ [][Next]_rec
==============================================================================
