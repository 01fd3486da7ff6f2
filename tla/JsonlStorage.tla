----------------------------- MODULE JsonlStorage -----------------------------
(***************************************************************************)
(* The files of a session directory, packages/agent/src/harness/pico3/     *)
(* jsonl.ts: main.jsonl, one task-<id>.jsonl per live task and one         *)
(* sticky-<conversation>.jsonl.  A commit appends to the sidecars first    *)
(* and to main last; a crash or a failed append can come after every step, *)
(* and open() repairs and replays what it finds.                           *)
(*                                                                         *)
(* A record keeps the number of its commit and what replay looks for in    *)
(* its writes.  A line that a stop cut short is a record with number 0,    *)
(* and so is the malformed line that an append after it would make.        *)
(***************************************************************************)
EXTENDS Naturals, SequencesExt

CONSTANTS Task,          \* task identifiers; a task's sidecar goes by its name
          Sticky,        \* the conversation's sticky sidecar
          Main,          \* main.jsonl
          MaxSeq,        \* bound: commits
          PatchAndEnd    \* whether one batch may both patch a task and end it

ASSUME StorageAssumption ==
  Task \cap {Sticky, Main} = {} /\ Sticky # Main /\ MaxSeq \in Nat /\ PatchAndEnd \in BOOLEAN

VARIABLES main,          \* main.jsonl: the commit log
          sidecar,       \* the sidecar files; a missing file is an empty one
          up,            \* a process has the storage open
          mem,           \* its tables and this.seq
          op             \* the commit under way

vars == <<main, sidecar, up, mem, op>>

Sidecar == Task \cup {Sticky}

MainRecord == [seq : 0..MaxSeq, refs : SUBSET Sidecar, create : SUBSET Task, end : SUBSET Task]
SidecarRecord == [seq : 0..MaxSeq, base : BOOLEAN]

TornMain == [seq |-> 0, refs |-> {}, create |-> {}, end |-> {}]
Torn == [seq |-> 0, base |-> FALSE]

NoOp == [stage |-> "none"]

Records(file) == {file[i] : i \in DOMAIN file}

-------------------------------------------------------------------------------
(***************************************************************************)
(* replay(): what the files mc (main) and sc (the sidecars) stand for.     *)
(***************************************************************************)
Confirmed(mc, f, r) == \E m \in Records(mc) : m.seq = r.seq /\ f \in m.refs

\* The sequence numbers of f's confirmed records.
ConfirmedSeqs(mc, sc, f) == {r.seq : r \in {q \in Records(sc[f]) : Confirmed(mc, f, q)}}

\* The commits that ended task t (replay keeps the last) and those that created it.
Ends(mc, t) == {m.seq : m \in {q \in Records(mc) : t \in q.end}}
Creations(mc, t) == {m.seq : m \in {q \in Records(mc) : t \in q.create}}

Malformed(file) ==
  \E i, j \in DOMAIN file : i < j /\ (file[i].seq = 0 \/ file[j].seq <= file[i].seq)

\* The reasons for which replay() throws, once torn tails are cut.
ReplayFails(mc, sc) ==
  \/ Malformed(mc)
  \/ \E f \in Sidecar :
       \/ Malformed(sc[f])
       \/ \E i, j \in DOMAIN sc[f] :            \* confirmed after an unconfirmed tail
            i < j /\ ~Confirmed(mc, f, sc[f][i]) /\ Confirmed(mc, f, sc[f][j])
       \/ \E m \in Records(mc) :                \* a published record is missing
            /\ f \in m.refs
            /\ m.seq \notin ConfirmedSeqs(mc, sc, f)
            /\ ~(f = Sticky /\ sc[f] # <<>> /\ Head(sc[f]).base /\ m.seq < Head(sc[f]).seq)
            /\ ~(f \in Task /\ \E e \in Ends(mc, f) : m.seq < e)
  \/ \E t \in Task : \E p \in ConfirmedSeqs(mc, sc, t) :   \* a patch for an unknown task
       \A c \in Creations(mc, t) : c > p

\* Faulty variant of ReplayedTask: a leftover patch survives the task's end.
ResurrectedTask(mc, sc, t) ==
  LET patched == ConfirmedSeqs(mc, sc, t)
  IN  [status |-> IF Ends(mc, t) # {} THEN "terminal"
                  ELSE IF Creations(mc, t) # {} THEN "live" ELSE "absent",
       value  |-> IF patched = {} THEN 0 ELSE Max(patched)]

\* Of one commit the main record is applied first, then its sidecars.  A patch
\* leaves the status alone: after an end it only brings a value back.
ReplayedTask(mc, sc, t) ==
  LET ended   == Ends(mc, t)
      patched == {p \in ConfirmedSeqs(mc, sc, t) : \A e \in ended : p >= e}
  IN  [status |-> IF ended # {} THEN "terminal"
                  ELSE IF Creations(mc, t) # {} THEN "live" ELSE "absent",
       value  |-> IF patched = {} THEN 0 ELSE Max(patched)]

\* The sticky ops from the last base on.
ReplayedSticky(mc, sc) ==
  LET records == {r \in Records(sc[Sticky]) : Confirmed(mc, Sticky, r)}
  IN  {r.seq : r \in {q \in records : \A b \in records : b.base => b.seq <= q.seq}}

Replayed(mc, sc) ==
  [seq    |-> IF mc = <<>> THEN 0 ELSE Last(mc).seq,
   sticky |-> ReplayedSticky(mc, sc),
   task   |-> [t \in Task |-> ReplayedTask(mc, sc, t)]]

-------------------------------------------------------------------------------
(***************************************************************************)
(* open(): torn tails are cut, then unconfirmed ones; the files replayed;  *)
(* leftover task sidecars removed.  A crash can cut it short anywhere.     *)
(***************************************************************************)
TruncateTorn(file) ==
  IF file # <<>> /\ Last(file).seq = 0 THEN Front(file) ELSE file

\* Faulty variant of TruncateUnconfirmed: the tail is skipped, not cut.
KeepUnconfirmed(f, file) == file

TruncateUnconfirmed(f, file) ==
  LET confirmed == {i \in DOMAIN file : Confirmed(TruncateTorn(main), f, file[i])}
  IN  SubSeq(file, 1, Max({0} \cup confirmed))

Whole == [f \in Sidecar |-> TruncateTorn(sidecar[f])]
Repaired == [f \in Sidecar |-> TruncateUnconfirmed(f, Whole[f])]

\* The task sidecars of terminal and unknown tasks.
Leftover(tables) == {t \in Task : tables.task[t].status # "live"}

Without(files, S) == [f \in Sidecar |-> IF f \in S THEN <<>> ELSE files[f]]

Open ==
  /\ ~up
  /\ ~ReplayFails(TruncateTorn(main), Whole)
  /\ up' = TRUE
  /\ main' = TruncateTorn(main)
  /\ mem' = Replayed(main', Repaired)
  /\ sidecar' = Without(Repaired, Leftover(mem'))
  /\ UNCHANGED op

OpenInterrupted ==
  /\ ~up
  /\ \/ \E S \in SUBSET (Sidecar \cup {Main}) :
          /\ main' = IF Main \in S THEN TruncateTorn(main) ELSE main
          /\ sidecar' = [f \in Sidecar |-> IF f \in S THEN Whole[f] ELSE sidecar[f]]
     \/ /\ ~ReplayFails(TruncateTorn(main), Whole)
        /\ main' = TruncateTorn(main)
        /\ \/ \E S \in SUBSET Sidecar :
                sidecar' = [f \in Sidecar |-> IF f \in S THEN Repaired[f] ELSE Whole[f]]
           \/ \E S \in SUBSET Leftover(Replayed(main', Repaired)) :
                sidecar' = Without(Repaired, S)
  /\ UNCHANGED <<up, mem, op>>

-------------------------------------------------------------------------------
(***************************************************************************)
(* commit(): stage, append to the sidecars, publish in main, apply, retire *)
(* the sidecars of ended tasks.                                            *)
(***************************************************************************)
Tables == [seq : 0..MaxSeq, sticky : SUBSET (0..MaxSeq),
           task : [Task -> [status : {"absent", "live", "terminal"}, value : 0..MaxSeq]]]

Atomic == INSTANCE AtomicStorage WITH
  tables <- Replayed(TruncateTorn(main), sidecar),
  served <- IF up THEN [open |-> TRUE, tables |-> mem] ELSE [open |-> FALSE]

Batches == {b \in Atomic!Batch : PatchAndEnd \/ b.patch \cap b.end = {}}

\* The sidecars a batch is written to.
Refs(b) == b.patch \cup IF b.sticky = "none" THEN {} ELSE {Sticky}

\* Faulty variant of BeginCommit: every sidecar gets a record.
BeginEverywhere(b) ==
  /\ up /\ op = NoOp /\ mem.seq < MaxSeq
  /\ Atomic!Accepts(mem, b)
  /\ op' = [stage |-> "append", batch |-> b, left |-> Sidecar]
  /\ UNCHANGED <<main, sidecar, up, mem>>

BeginCommit(b) ==
  /\ up /\ op = NoOp /\ mem.seq < MaxSeq
  /\ Atomic!Accepts(mem, b)
  /\ op' = [stage |-> "append", batch |-> b, left |-> Refs(b)]
  /\ UNCHANGED <<main, sidecar, up, mem>>

\* The sidecars whose append may come next: the sticky one after the tasks'.
NextAppend == IF op.left \subseteq {Sticky} THEN op.left ELSE op.left \ {Sticky}

AppendSidecar(f) ==
  /\ op.stage = "append" /\ f \in NextAppend
  /\ sidecar' = [sidecar EXCEPT ![f] =
       Append(@, [seq |-> mem.seq + 1, base |-> f = Sticky /\ op.batch.sticky = "base"])]
  /\ op' = [op EXCEPT !.left = @ \ {f}]
  /\ UNCHANGED <<main, up, mem>>

\* The publication point.
AppendMain ==
  main' = Append(main, [seq |-> mem.seq + 1, refs |-> Refs(op.batch),
                        create |-> op.batch.create, end |-> op.batch.end])

Publish ==
  /\ op.stage = "append" /\ op.left = {}
  /\ AppendMain
  /\ mem' = Atomic!Apply(mem, op.batch)
  /\ op' = IF op.batch.end = {} THEN NoOp ELSE [stage |-> "retire", left |-> op.batch.end]
  /\ UNCHANGED <<sidecar, up>>

\* retireTaskSidecar: an unlink that fails is ignored.
RetireTaskSidecar(t) ==
  /\ op.stage = "retire" /\ t \in op.left
  /\ sidecar' \in {sidecar, Without(sidecar, {t})}
  /\ op' = IF op.left = {t} THEN NoOp ELSE [op EXCEPT !.left = @ \ {t}]
  /\ UNCHANGED <<main, up, mem>>

\* truncate(): the sticky sidecar is rewritten from its last base and renamed
\* into place; without a base, or with one in the first line, it is left alone.
Truncate ==
  /\ up /\ op = NoOp
  /\ LET bases == {i \in DOMAIN sidecar[Sticky] : sidecar[Sticky][i].base}
     IN  /\ bases # {} /\ Max(bases) > 1
         /\ sidecar' = [sidecar EXCEPT ![Sticky] = SubSeq(@, Max(bases), Len(@))]
  /\ UNCHANGED <<main, up, mem, op>>

-------------------------------------------------------------------------------
(***************************************************************************)
(* The process goes: a crash, a close, or a failed append, after which the *)
(* session closes the storage for good.                                    *)
(***************************************************************************)
Stopped == up' = FALSE /\ op' = NoOp /\ mem' = Replayed(<<>>, [f \in Sidecar |-> <<>>])

Stop == up /\ Stopped /\ UNCHANGED <<main, sidecar>>

\* In the middle of an append, whose line is not complete.
StopInAppend ==
  /\ up /\ op.stage = "append" /\ Stopped
  /\ IF op.left = {}
     THEN main' = Append(main, TornMain) /\ UNCHANGED sidecar
     ELSE /\ \E f \in NextAppend : sidecar' = [sidecar EXCEPT ![f] = Append(@, Torn)]
          /\ UNCHANGED main

\* After the line is in main and before the commit is acknowledged.
StopInPublish ==
  /\ up /\ op.stage = "append" /\ op.left = {} /\ Stopped
  /\ AppendMain
  /\ UNCHANGED sidecar

-------------------------------------------------------------------------------
Init == /\ main = <<>>
        /\ sidecar = [f \in Sidecar |-> <<>>]
        /\ up = FALSE
        /\ mem = Replayed(<<>>, sidecar)
        /\ op = NoOp

Next == \/ Open
        \/ OpenInterrupted
        \/ \E b \in Batches : BeginCommit(b)
        \/ \E f \in Sidecar : AppendSidecar(f)
        \/ Publish
        \/ \E t \in Task : RetireTaskSidecar(t)
        \/ Truncate
        \/ Stop
        \/ StopInAppend
        \/ StopInPublish

Spec == Init /\ [][Next]_vars

-------------------------------------------------------------------------------
(***************************************************************************)
(* Properties.                                                             *)
(***************************************************************************)
TypeOK ==
  /\ main \in Seq(MainRecord)
  /\ sidecar \in [Sidecar -> Seq(SidecarRecord)]
  /\ up \in BOOLEAN
  /\ mem \in Tables
  /\ \/ op = NoOp
     \/ /\ op \in [stage : {"append"}, batch : Batches, left : SUBSET Sidecar]
        /\ op.left \subseteq Refs(op.batch)
     \/ op \in [stage : {"retire"}, left : (SUBSET Task) \ {{}}]

\* The directory can be opened at every instant: whatever commits, failed
\* appends, truncations, interrupted opens and crashes came before, replay()
\* finds every published record, in order, and nothing it refuses.
Recoverable == ~ReplayFails(TruncateTorn(main), Whole)

\* What open() makes of the files is what the last acknowledged commit left, or
\* that and the whole of one unacknowledged commit: JsonlStorage implements
\* AtomicStorage.
ImplementsAtomic == Atomic!Spec

===============================================================================
