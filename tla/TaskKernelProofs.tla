--------------------------- MODULE TaskKernelProofs ---------------------------
(***************************************************************************)
(* Proofs about TaskKernel, for any set of tasks, background tasks and     *)
(* waiters and any bound on disruptions.                                   *)
(***************************************************************************)
EXTENDS TaskKernel, TLAPS

-------------------------------------------------------------------------------
(***************************************************************************)
(* The inductive invariant.                                                *)
(***************************************************************************)
\* The invocation table is exactly the set of executions that still hold it,
\* and a task without an execution has no trace of one.
TableAt(t) ==
  /\ thread[t].stage \in {"none", "retire", "truncate"} <=> inv[t] = "none"
  /\ thread[t].stage \in RunStages => inv[t] = "run"
  /\ thread[t].stage \in AbortStages => inv[t] = "abort"
  /\ thread[t].stage = "none" => thread[t] = NoThread
  /\ thread[t].stray = "live" => thread[t].stage \in {"handler", "effect"}
  /\ inv[t] # "none" => t \in known
  /\ session = "down" => inv[t] = "none"

TableMatches == \A t \in Task : TableAt(t)

\* What the stored record says of a task that is being executed.
RecordAt(t) ==
  /\ task[t].status = "absent" => task[t] = Absent
  /\ thread[t].stage # "none" => task[t].status \in {"running", "terminal"}
  /\ thread[t].stage \in RunStages \cup AbortStages \cup {"caught"} => task[t].status = "running"
  /\ thread[t].stage \in AbortStages => task[t].abort
  /\ thread[t].stage = "handler" => task[t].cp = thread[t].phase
  /\ thread[t].stage = "effect" => task[t].cp = "inflight"
  /\ thread[t].stage \in {"retire", "truncate"} => task[t].status = "terminal"

RecordMatches == \A t \in Task : RecordAt(t)

\* What drain() is about to dispatch is still as it was reserved.
ReservedMatches ==
  /\ drain # "dispatch" => reserved = [t \in Task |-> NoReservation]
  /\ session = "down" => drain = "off"
  /\ \A t \in Task : reserved[t].mode # "none" =>
       /\ thread[t].stage = "none" /\ t \in known
       /\ task[t].status = "running" /\ task[t].cp = reserved[t].phase
       /\ reserved[t].mode = "abort" => task[t].abort

\* A scheduler that was told to stop starts nothing.
StopMatches ==
  /\ session \in {"down", "suspending", "closed"} => ~enabled
  /\ session = "suspending" => \A t \in Task : inv[t] # "none" => t \in joining
  /\ session = "closed" => \A t \in Task : inv[t] = "none"
  /\ holds > 0 => \A t \in Task : inv[t] = "none"
  /\ session = "down" => \A w \in Waiter : waiter[w] = NoWaiter

\* Whatever became eligible since the reservation has left its trace in dirty.
WakeMatches ==
  drain = "dispatch" /\ enabled /\ ~dirty =>
    \A t \in Task : Eligible(t) # "none" => reserved[t].mode # "none"

\* The scheduler's loop, its waiters and its stopping.
LoopMatches == /\ ReservedMatches
               /\ StopMatches
               /\ WakeMatches
               /\ NothingOverlooked
               /\ WaitersWoken

\* The executions, the records they work on, and the loop that starts them.
IInv == /\ TypeOK
        /\ TableMatches
        /\ RecordMatches
        /\ EffectRemembered
        /\ LoopMatches

-------------------------------------------------------------------------------
(***************************************************************************)
(* Types of the helpers the actions are built from.                        *)
(***************************************************************************)
\* A record with its outcome is a record.
LEMMA OverType ==
  ASSUME NEW r \in TaskRecord, NEW o \in Outcomes PROVE Over(r, o) \in TaskRecord
BY DEF TaskRecord, Over, Phases

\* So is one that is marked, started, or given a checkpoint.
LEMMA UpdateType ==
  ASSUME NEW r \in TaskRecord, NEW p \in Phases
  PROVE  /\ [r EXCEPT !.abort = TRUE] \in TaskRecord
         /\ [r EXCEPT !.status = "running"] \in TaskRecord
         /\ [r EXCEPT !.cp = p] \in TaskRecord
<1>1. [r EXCEPT !.abort = TRUE] \in TaskRecord
  <2>1. TRUE \in BOOLEAN OBVIOUS
  <2> QED BY <2>1, Zenon DEF TaskRecord
<1>2. [r EXCEPT !.status = "running"] \in TaskRecord BY DEF TaskRecord
<1>3. [r EXCEPT !.cp = p] \in TaskRecord BY DEF TaskRecord
<1> QED BY <1>1, <1>2, <1>3

\* kick() touches dirty and draining only, and keeps their types.
LEMMA KickType ==
  ASSUME TypeOK, Kick
  PROVE  dirty' \in BOOLEAN /\ drain' \in {"off", "reserve", "dispatch"}
BY DEF TypeOK, Kick

\* Waking waiters keeps the table of waiters well typed.
LEMMA WakeType ==
  ASSUME TypeOK, NEW tasks, NEW b, Wake(tasks, b)
  PROVE  waiter' \in [Waiter -> WaiterRecord]
<1>1. Resolved \in WaiterRecord BY DEF Resolved, WaiterRecord
<1> QED BY <1>1 DEF TypeOK, Wake

\* What a commit assigns is well typed.
LEMMA CommitType ==
  ASSUME TypeOK, NEW tasks \in [Task -> TaskRecord], Commit(tasks)
  PROVE  /\ task' \in [Task -> TaskRecord]
         /\ dirty' \in BOOLEAN
         /\ drain' \in {"off", "reserve", "dispatch"}
         /\ waiter' \in [Waiter -> WaiterRecord]
         /\ reserved' \in [Task -> Reservation]
<1>1. CASE tasks = task BY <1>1 DEF Commit, TypeOK
<1>2. CASE tasks # task BY <1>2, KickType, WakeType DEF Commit, TypeOK
<1> QED BY <1>1, <1>2

\* An execution moves from stage to stage.
LEMMA GotoType ==
  ASSUME TypeOK, NEW t \in Task, NEW s \in Stages, Goto(t, s)
  PROVE  thread' \in [Task -> ThreadRecord]
BY DEF TypeOK, Goto, ThreadRecord

LEMMA ReturnsType ==
  ASSUME TypeOK, NEW t \in Task, NEW s \in Stages, Returns(t, s)
  PROVE  thread' \in [Task -> ThreadRecord]
BY ZenonT(60) DEF TypeOK, Returns, ThreadRecord

LEMMA ThrowsType ==
  ASSUME TypeOK, NEW t \in Task, Throws(t)
  PROVE  thread' \in [Task -> ThreadRecord]
<1>1. (IF thread[t].signalled THEN "ending" ELSE "caught") \in Stages BY DEF Stages
<1> QED BY <1>1, ReturnsType DEF Throws

LEMMA NoThreadType == NoThread \in ThreadRecord
BY DEF NoThread, ThreadRecord, Stages, Modes, Phases

LEMMA NoReservationType == NoReservation \in Reservation
BY DEF NoReservation, Reservation, Modes, Phases

LEMMA NoWaiterType == NoWaiter \in WaiterRecord /\ Resolved \in WaiterRecord
BY DEF NoWaiter, Resolved, WaiterRecord

LEMMA CreatedType ==
  ASSUME NEW tasks \in [Task -> TaskRecord], NEW t \in Task, NEW deps \in SUBSET Task
  PROVE  Created(tasks, t, deps) \in [Task -> TaskRecord]
<1>1. [Absent EXCEPT !.status = "pending", !.after = deps] \in TaskRecord
  BY DEF Absent, TaskRecord, Outcomes, Phases
<1> QED BY <1>1 DEF Created

\* Losing the process leaves every table well typed.
LEMMA ProcessLostType ==
  ASSUME TypeOK, ProcessLost, disruptions' \in Nat PROVE TypeOK'
BY NoThreadType, NoReservationType, NoWaiterType DEF TypeOK, ProcessLost, durable, Modes

-------------------------------------------------------------------------------
(***************************************************************************)
(* Type correctness.                                                       *)
(***************************************************************************)
LEMMA InitTyped == Init => TypeOK
<1> SUFFICES ASSUME Init PROVE TypeOK OBVIOUS
<1>1. Absent \in TaskRecord BY DEF Absent, TaskRecord, Outcomes, Phases
<1>2. task \in [Task -> TaskRecord] BY <1>1 DEF Init
<1>3. reserved \in [Task -> Reservation] BY NoReservationType DEF Init
<1>4. thread \in [Task -> ThreadRecord] BY NoThreadType DEF Init
<1>5. waiter \in [Waiter -> WaiterRecord] BY NoWaiterType DEF Init
<1>6. inv \in [Task -> Modes] BY DEF Init, Modes
<1> QED BY <1>2, <1>3, <1>4, <1>5, <1>6 DEF Init, TypeOK

LEMMA LifecycleTyped == ASSUME TypeOK, Lifecycle PROVE TypeOK'
<1>1. CASE Open BY <1>1 DEF Open, TypeOK, durable, loop
<1>2. CASE ReconcileOrphans
  <2>1. [t \in Task |-> IF Live(t) /\ t \notin known THEN Over(task[t], "orphaned") ELSE task[t]]
          \in [Task -> TaskRecord]
    <3>1. "orphaned" \in Outcomes BY DEF Outcomes
    <3> QED BY <3>1, OverType DEF TypeOK
  <2> QED BY <1>2, <2>1, CommitType DEF ReconcileOrphans, TypeOK
<1>3. CASE Resume BY <1>3 DEF Resume, TypeOK, durable
<1>4. CASE Hold BY <1>4 DEF Hold, Disrupt, TypeOK, durable, loop
<1>5. CASE Release
  <2>1. holds' \in Nat BY <1>5 DEF Release, TypeOK
  <2>2. dirty' \in BOOLEAN /\ drain' \in {"off", "reserve", "dispatch"}
    BY <1>5 DEF Release, TypeOK
  <2> QED BY <1>5, <2>1, <2>2 DEF Release, TypeOK, durable
<1>6. CASE Suspend
  <2>1. \A t \in Task : [thread[t] EXCEPT !.signalled = TRUE] \in ThreadRecord
    BY DEF TypeOK, ThreadRecord
  <2>2. thread' \in [Task -> ThreadRecord] BY <1>6, <2>1 DEF Suspend, TypeOK
  <2>3. joining' \subseteq Task /\ disruptions' \in Nat BY <1>6 DEF Suspend, Disrupt, TypeOK
  <2> QED BY <1>6, <2>2, <2>3 DEF Suspend, TypeOK, durable, loop
<1>7. CASE Close BY <1>7 DEF Close, TypeOK, durable, loop
<1>8. CASE Exit BY <1>8, ProcessLostType DEF Exit, TypeOK
<1>9. CASE Crash BY <1>9, ProcessLostType DEF Crash, Disrupt, TypeOK
<1>10. CASE StorageFault BY <1>10 DEF StorageFault, Disrupt, TypeOK, durable, loop
<1> QED BY <1>1, <1>2, <1>3, <1>4, <1>5, <1>6, <1>7, <1>8, <1>9, <1>10 DEF Lifecycle

LEMMA HostTyped == ASSUME TypeOK, Host PROVE TypeOK'
<1>1. ASSUME NEW t \in Task, MarkTask(t) PROVE TypeOK'
  <2>1. [task EXCEPT ![t].abort = TRUE] \in [Task -> TaskRecord]
    BY UpdateType DEF TypeOK, Phases
  <2>2. thread' \in [Task -> ThreadRecord] BY <1>1 DEF MarkTask, TypeOK, ThreadRecord
  <2> QED BY <1>1, <2>1, <2>2, CommitType DEF MarkTask, TypeOK, control
<1>2. ASSUME NEW t \in Task, NEW deps \in SUBSET Task, CreateTask(t, deps) PROVE TypeOK'
  <2>1. Created(task, t, deps) \in [Task -> TaskRecord] BY CreatedType DEF TypeOK
  <2> QED BY <1>2, <2>1, CommitType DEF CreateTask, TypeOK, control
<1>3. ASSUME NEW w \in Waiter, WaitForIdle(w) PROVE TypeOK'
  BY <1>3, NoWaiterType DEF WaitForIdle, WaiterRecord, TypeOK, durable, control, loop
<1>4. ASSUME NEW w \in Waiter, NEW t \in Task, WaitForTask(w, t) PROVE TypeOK'
  BY <1>4, NoWaiterType DEF WaitForTask, WaiterRecord, TypeOK, durable, control, loop
<1> QED BY <1>1, <1>2, <1>3, <1>4 DEF Host

LEMMA EligibleType == ASSUME NEW t \in Task PROVE Eligible(t) \in Modes
BY DEF Eligible, Modes

LEMMA DrainTyped == ASSUME TypeOK, Drain PROVE TypeOK'
<1>1. CASE Reserve
  <2>1. reserved' \in [Task -> Reservation]
    BY <1>1, EligibleType DEF Reserve, TypeOK, Reservation, TaskRecord
  <2>2. task' \in [Task -> TaskRecord]
    <3>1. \A t \in Task : [task[t] EXCEPT !.status = "running"] \in TaskRecord
      BY UpdateType DEF TypeOK, Phases
    <3> QED BY <1>1, <3>1 DEF Reserve, TypeOK
  <2> QED BY <1>1, <2>1, <2>2 DEF Reserve, TypeOK, control
<1>2. CASE ReserveFails BY <1>2, WakeType DEF ReserveFails, DrainEnds, TypeOK, durable, control
<1>3. CASE DrainStops
  BY <1>3, WakeType, NoReservationType DEF DrainStops, DrainEnds, TypeOK, durable, control
<1>4. CASE Dispatch
  <2>1. \A t \in Task : reserved[t].mode # "none" => Started(reserved[t]) \in ThreadRecord
    BY DEF Started, TypeOK, Reservation, ThreadRecord, Stages
  <2>2. thread' \in [Task -> ThreadRecord] BY <1>4, <2>1 DEF Dispatch, TypeOK
  <2>3. inv' \in [Task -> Modes] BY <1>4 DEF Dispatch, TypeOK, Reservation
  <2>4. /\ dirty' \in BOOLEAN /\ drain' \in {"off", "reserve", "dispatch"}
        /\ waiter' \in [Waiter -> WaiterRecord]
    BY <1>4, WakeType DEF Dispatch, DrainEnds, TypeOK
  <2> QED BY <1>4, <2>2, <2>3, <2>4, NoReservationType DEF Dispatch, TypeOK, durable, control
<1> QED BY <1>1, <1>2, <1>3, <1>4 DEF Drain

LEMMA HandlerTyped ==
  ASSUME TypeOK, NEW t \in Task, Handler(t) \/ HandlerStray(t) \/ StrayCommit(t)
  PROVE  TypeOK'
<1>1. [task EXCEPT ![t].cp = "inflight"] \in [Task -> TaskRecord]
  BY UpdateType DEF TypeOK, Phases
<1>2. CASE HandlerCheckpoint(t)
  <2>1. thread' \in [Task -> ThreadRecord] BY <1>2, GotoType DEF HandlerCheckpoint, Stages
  <2>2. unrecorded' \subseteq Task BY <1>2 DEF HandlerCheckpoint, TypeOK
  <2> QED BY <1>1, <1>2, <2>1, <2>2, CommitType DEF HandlerCheckpoint, TypeOK, control
<1>3. CASE HandlerNext(t) \/ HandlerDone(t) \/ HandlerThrow(t) \/ AbortHandlerReturns(t)
  <2>1. {"next", "close", "settle"} \subseteq Stages BY DEF Stages
  <2>2. thread' \in [Task -> ThreadRecord]
    BY <1>3, <2>1, GotoType, ReturnsType, ThrowsType
       DEF HandlerNext, HandlerDone, HandlerThrow, AbortHandlerReturns
  <2>3. Quiet BY <1>3 DEF HandlerNext, HandlerDone, HandlerThrow, AbortHandlerReturns
  <2> QED BY <2>2, <2>3 DEF Quiet, TypeOK, durable, control, loop
<1>4. CASE HandlerStray(t)
  <2>1. thread' \in [Task -> ThreadRecord] BY <1>4 DEF HandlerStray, TypeOK, ThreadRecord
  <2> QED BY <1>4, <2>1 DEF HandlerStray, Quiet, TypeOK, durable, control, loop
<1>5. CASE StrayCommit(t)
  <2>1. thread' \in [Task -> ThreadRecord]
    <3>1. "effect" \in Stages BY DEF Stages
    <3> QED BY <1>5, <3>1 DEF StrayCommit, TypeOK, ThreadRecord
  <2>2. unrecorded' \subseteq Task BY <1>5 DEF StrayCommit, TypeOK
  <2>3. CASE Usable /\ thread[t].stray = "live" /\ RunMayCommit(t)
    BY <1>1, <1>5, <2>1, <2>2, <2>3, CommitType DEF StrayCommit, TypeOK, control
  <2>4. CASE ~(Usable /\ thread[t].stray = "live" /\ RunMayCommit(t))
    BY <1>5, <2>1, <2>2, <2>4 DEF StrayCommit, TypeOK, control, loop
  <2> QED BY <2>3, <2>4
<1> QED BY <1>2, <1>3, <1>4, <1>5 DEF Handler

\* A task's outcome, and a successor, in the table of tasks.
LEMMA EndedType ==
  ASSUME TypeOK, NEW t \in Task, NEW o \in Outcomes
  PROVE  [task EXCEPT ![t] = Over(@, o)] \in [Task -> TaskRecord]
BY OverType DEF TypeOK

\* What the line operations at the end of a stage change, apart from thread.
Stored(t) ==
  \/ UNCHANGED <<task, dirty, drain, reserved, waiter>>
  \/ \E tasks \in [Task -> TaskRecord] : Commit(tasks)

LEMMA StoredType ==
  ASSUME TypeOK, NEW t \in Task, Stored(t), thread' \in [Task -> ThreadRecord],
         unrecorded' \subseteq Task, UNCHANGED <<control, inv, disruptions>>
  PROVE  TypeOK'
<1>1. CASE UNCHANGED <<task, dirty, drain, reserved, waiter>> BY <1>1 DEF TypeOK, control
<1>2. ASSUME NEW tasks \in [Task -> TaskRecord], Commit(tasks) PROVE TypeOK'
  BY <1>2, CommitType DEF TypeOK, control
<1> QED BY <1>1, <1>2 DEF Stored

LEMMA OnLineTyped == ASSUME TypeOK, NEW t \in Task, OnLine(t) PROVE TypeOK'
<1> USE DEF Outcomes
<1>0. {"handler", "ending", "caught", "retire", "truncate"} \subseteq Stages /\ "ready" \in Phases
  BY DEF Stages, Phases
<1>1. CASE Transition(t)
  <2>1. thread' \in [Task -> ThreadRecord]
    <3>1. task[t].cp \in Phases BY DEF TypeOK, TaskRecord
    <3>2. \A p \in Phases : [thread[t] EXCEPT !.stage = "handler", !.phase = p] \in ThreadRecord
      BY <1>0 DEF TypeOK, ThreadRecord
    <3>3. \A p \in Phases : [thread EXCEPT ![t].stage = "handler", ![t].phase = p]
                               \in [Task -> ThreadRecord]
      BY <3>2 DEF TypeOK
    <3> QED BY <1>0, <1>1, <3>1, <3>3, GotoType DEF Transition
  <2>2. Stored(t) BY <1>0, <1>1, UpdateType, EndedType DEF Transition, Stored, TypeOK
  <2>3. unrecorded' \subseteq Task BY <1>1 DEF Transition, TypeOK
  <2> QED BY <1>1, <2>1, <2>2, <2>3, StoredType DEF Transition
<1>2. CASE CloseRun(t)
  <2>1. thread' \in [Task -> ThreadRecord] BY <1>0, <1>2, GotoType DEF CloseRun
  <2>2. \A n \in known, o \in Outcomes :
          Created([task EXCEPT ![t] = Over(@, o)], n, {t}) \in [Task -> TaskRecord]
    <3> TAKE n \in known, o \in Outcomes
    <3>1. n \in Task /\ {t} \in SUBSET Task BY DEF TypeOK
    <3>2. [task EXCEPT ![t] = Over(@, o)] \in [Task -> TaskRecord] BY EndedType
    <3> QED BY <3>1, <3>2, CreatedType
  <2>3. Stored(t) BY <1>2, <2>2, EndedType DEF CloseRun, Stored
  <2>4. unrecorded' \subseteq Task BY <1>2 DEF CloseRun, TypeOK
  <2> QED BY <1>2, <2>1, <2>3, <2>4, StoredType DEF CloseRun
<1>3. CASE SettleAbort(t)
  <2>1. thread' \in [Task -> ThreadRecord] BY <1>0, <1>3, GotoType DEF SettleAbort
  <2>2. Stored(t) BY <1>3, EndedType DEF SettleAbort, Stored
  <2>3. unrecorded' \subseteq Task BY <1>3 DEF SettleAbort, TypeOK
  <2> QED BY <1>3, <2>1, <2>2, <2>3, StoredType DEF SettleAbort
<1>4. CASE CommitRefused(t)
  <2>1. thread' \in [Task -> ThreadRecord] BY <1>0, <1>4, GotoType DEF CommitRefused
  <2> QED BY <1>4, <2>1 DEF CommitRefused, Quiet, TypeOK, durable, control, loop
<1>5. CASE FaultTask(t)
  <2>1. thread' \in [Task -> ThreadRecord] BY <1>0, <1>5, GotoType DEF FaultTask
  <2>2. Stored(t) BY <1>5, EndedType DEF FaultTask, Stored
  <2>3. unrecorded' \subseteq Task BY <1>5 DEF FaultTask, TypeOK
  <2> QED BY <1>5, <2>1, <2>2, <2>3, StoredType DEF FaultTask
<1>6. CASE Ended(t)
  <2>1. thread' \in [Task -> ThreadRecord]
    BY <1>0, <1>6, GotoType, NoThreadType DEF Ended, TypeOK
  <2>2. inv' \in [Task -> Modes] BY <1>6 DEF Ended, TypeOK, Modes
  <2>3. dirty' \in BOOLEAN /\ drain' \in {"off", "reserve", "dispatch"}
    BY <1>6, KickType DEF Ended, TypeOK
  <2> QED BY <1>6, <2>1, <2>2, <2>3 DEF Ended, TypeOK, durable, control
<1>7. CASE RetireCommit(t) \/ RetireRefused(t) \/ Truncate(t)
  <2>1. thread' \in [Task -> ThreadRecord]
    BY <1>0, <1>7, GotoType, NoThreadType DEF RetireCommit, RetireRefused, Truncate, TypeOK
  <2>2. dirty' \in BOOLEAN /\ drain' \in {"off", "reserve", "dispatch"}
    BY <1>7, KickType DEF RetireCommit, RetireRefused, Truncate, TypeOK
  <2>3. UNCHANGED <<durable, control, reserved, inv, waiter, disruptions>>
    BY <1>7 DEF RetireCommit, RetireRefused, Truncate
  <2> QED BY <2>1, <2>2, <2>3 DEF TypeOK, durable, control
<1> QED BY <1>1, <1>2, <1>3, <1>4, <1>5, <1>6, <1>7 DEF OnLine

\* Every step keeps the variables well typed.
LEMMA NextTyped == ASSUME TypeOK, [Next]_vars PROVE TypeOK'
<1>1. CASE UNCHANGED vars BY <1>1 DEF vars, TypeOK
<1> QED BY <1>1, LifecycleTyped, HostTyped, DrainTyped, HandlerTyped, OnLineTyped DEF Next

\* The stored records, the scheduler's tables and the waiters are well typed in
\* every reachable state, for any number of tasks and waiters.
THEOREM TypeCorrect == Spec => []TypeOK
BY InitTyped, NextTyped, PTL DEF Spec

-------------------------------------------------------------------------------
(***************************************************************************)
(* The loop: what commits, kicks and quiet steps leave of LoopMatches.     *)
(***************************************************************************)
\* Steps that change only executions.
LEMMA QuietLoop ==
  ASSUME IInv, UNCHANGED <<task, session, known, enabled, holds, joining, loop, inv, waiter>>,
         \A u \in Task : thread[u].stage = "none" => thread'[u].stage = "none"
  PROVE  LoopMatches'
<1>1. ReservedMatches' BY DEF IInv, LoopMatches, ReservedMatches, loop
<1>2. StopMatches' BY DEF IInv, LoopMatches, StopMatches
<1>3. WakeMatches' BY DEF IInv, LoopMatches, WakeMatches, Eligible, Live, Ready, Terminal, loop
<1>4. NothingOverlooked'
  BY DEF IInv, LoopMatches, NothingOverlooked, Eligible, Live, Ready, Terminal, Usable, loop
<1>5. WaitersWoken' BY DEF IInv, LoopMatches, WaitersWoken, IsIdle, Live, Usable, loop
<1> QED BY <1>1, <1>2, <1>3, <1>4, <1>5 DEF LoopMatches

\* A waiter that Wake leaves waiting has not been overlooked.
LEMMA WakeWakes ==
  ASSUME TypeOK, WaitersWoken, Usable, NEW b \in BOOLEAN, Wake(task', b),
         b => drain' # "off",
         \A t \in Task : Live(t) => Live(t)' \/ task'[t].status = "terminal"
  PROVE  WaitersWoken'
<1> SUFFICES ASSUME NEW w \in Waiter, waiter'[w].st = "waiting"
             PROVE  IF waiter'[w].on = Idle THEN ~IsIdle(task') \/ drain' # "off"
                    ELSE task'[waiter'[w].on].status \in {"pending", "running"}
  BY DEF WaitersWoken, IsIdle, Live
<1>1. waiter'[w] = waiter[w] /\ waiter[w].st = "waiting" BY DEF Wake, Resolved
<1>2. waiter[w].on \in Task \cup {Idle} BY DEF TypeOK, WaiterRecord
<1>3. CASE waiter[w].on = Idle BY <1>1, <1>3 DEF Wake, Resolved
<1>4. CASE waiter[w].on # Idle
  <2>1. Live(waiter[w].on) BY <1>1, <1>4 DEF WaitersWoken
  <2>2. task'[waiter[w].on].status # "terminal" BY <1>1, <1>4 DEF Wake, Resolved
  <2> QED BY <1>1, <1>2, <1>4, <2>1, <2>2 DEF Live
<1> QED BY <1>3, <1>4

\* A commit between two reservations: its listeners wake waiters and the loop.
LEMMA CommitLoop ==
  ASSUME IInv, Usable, drain # "dispatch", NEW tasks, Commit(tasks),
         UNCHANGED <<session, known, enabled, holds, joining, inv>>,
         \A t \in Task : Live(t) => Live(t)' \/ task'[t].status = "terminal"
  PROVE  LoopMatches'
<1> USE DEF IInv, LoopMatches
<1>1. drain' # "dispatch" /\ reserved' = reserved BY DEF Commit, Kick
<1>2. ReservedMatches'
  <2>1. \A t \in Task : reserved'[t].mode = "none" BY <1>1 DEF ReservedMatches, NoReservation
  <2>2. session # "down" BY DEF Usable
  <2> QED BY <1>1, <2>1, <2>2 DEF ReservedMatches
<1>3. StopMatches' BY DEF StopMatches, Usable
<1>4. WakeMatches' BY <1>1 DEF WakeMatches
<1>5. NothingOverlooked'
  <2>1. CASE tasks = task
    BY <2>1 DEF Commit, NothingOverlooked, Eligible, Live, Ready, Terminal, Usable
  <2>2. CASE tasks # task BY <2>2 DEF Commit, Kick, NothingOverlooked
  <2> QED BY <2>1, <2>2
<1>6. WaitersWoken'
  <2>1. CASE tasks = task BY <2>1 DEF Commit, WaitersWoken, Usable, IsIdle, Live
  <2>2. CASE tasks # task
    <3>1. Wake(task', drain' # "off") BY <2>2 DEF Commit
    <3> QED BY <3>1, WakeWakes
  <2> QED BY <2>1, <2>2
<1> QED BY <1>2, <1>3, <1>4, <1>5, <1>6

\* A kick after an execution gave up its invocation.
LEMMA KickLoop ==
  ASSUME IInv, Kick, UNCHANGED <<task, session, known, enabled, holds, joining, reserved, waiter>>,
         \A u \in Task : thread[u].stage = "none" => thread'[u].stage = "none",
         \A u \in Task : inv'[u] = inv[u] \/ inv'[u] = "none"
  PROVE  LoopMatches'
<1> USE DEF IInv, LoopMatches
<1>1. ReservedMatches' BY DEF ReservedMatches, StopMatches, Kick
<1>2. StopMatches' BY DEF StopMatches
<1>3. WakeMatches' BY DEF WakeMatches, Kick
<1>4. NothingOverlooked' BY DEF NothingOverlooked, Kick
<1>5. WaitersWoken' BY DEF WaitersWoken, IsIdle, Live, Usable, Kick
<1> QED BY <1>1, <1>2, <1>3, <1>4, <1>5

-------------------------------------------------------------------------------
(***************************************************************************)
(* Executions: what one of them does to the tables.                        *)
(***************************************************************************)
\* Only t's execution and record move, apart from records just created.
OnlyMoves(t) ==
  /\ \A u \in Task \ {t} : /\ thread'[u] = thread[u] /\ inv'[u] = inv[u]
                           /\ task'[u] = task[u] \/ (~Exists(u) /\ Exists(u)')
  /\ UNCHANGED <<known, session>>

LEMMA MoveTables ==
  ASSUME TableMatches, RecordMatches, NEW t \in Task, OnlyMoves(t), TableAt(t)', RecordAt(t)'
  PROVE  TableMatches' /\ RecordMatches'
<1>1. ASSUME NEW u \in Task \ {t} PROVE TableAt(u)' /\ RecordAt(u)'
  <2>1. thread'[u] = thread[u] /\ inv'[u] = inv[u] /\ known' = known /\ session' = session
    BY DEF OnlyMoves
  <2>2. TableAt(u)' BY <2>1 DEF TableMatches, TableAt
  <2>3. RecordAt(u) BY DEF RecordMatches
  <2>4. task'[u] = task[u] \/ (task[u].status = "absent" /\ task'[u].status # "absent")
    BY DEF OnlyMoves, Exists
  <2>5. RecordAt(u)' BY <2>1, <2>3, <2>4 DEF RecordAt, RunStages, AbortStages
  <2> QED BY <2>2, <2>5
<1> QED BY <1>1 DEF TableMatches, RecordMatches

LEMMA MoveEffect ==
  ASSUME EffectRemembered, unrecorded \subseteq Task, NEW t \in Task, OnlyMoves(t),
         unrecorded' \subseteq unrecorded \cup {t},
         t \in unrecorded' => task'[t].status = "running" /\ task'[t].cp = "inflight"
  PROVE  EffectRemembered'
BY DEF EffectRemembered, OnlyMoves, Exists

\* The fields a move from stage to stage leaves alone.
LEMMA GotoMoves ==
  ASSUME TypeOK, NEW t \in Task, NEW s, Goto(t, s)
  PROVE  /\ \A u \in Task \ {t} : thread'[u] = thread[u]
         /\ thread'[t].stage = s /\ thread'[t].mode = thread[t].mode
         /\ thread'[t].phase = thread[t].phase /\ thread'[t].stray = thread[t].stray
BY DEF TypeOK, ThreadRecord, Goto

LEMMA ReturnsMoves ==
  ASSUME TypeOK, NEW t \in Task, NEW s, Returns(t, s)
  PROVE  /\ \A u \in Task \ {t} : thread'[u] = thread[u]
         /\ thread'[t].stage = s /\ thread'[t].stray # "live"
BY DEF TypeOK, ThreadRecord, Returns

LEMMA QuietInv ==
  ASSUME IInv, NEW t \in Task, Quiet, thread[t].stage # "none",
         \A u \in Task \ {t} : thread'[u] = thread[u],
         TableAt(t)', RecordAt(t)', TypeOK'
  PROVE  IInv'
<1>1. OnlyMoves(t) BY DEF OnlyMoves, Quiet, control, durable
<1>2. TableMatches' /\ RecordMatches' BY <1>1, MoveTables DEF IInv
<1>3. EffectRemembered' BY DEF IInv, EffectRemembered, Quiet, durable
<1>4. LoopMatches' BY QuietLoop DEF Quiet, control, durable
<1> QED BY <1>2, <1>3, <1>4 DEF IInv

LEMMA QuietSteps ==
  ASSUME IInv, NEW t \in Task, TypeOK',
         \/ HandlerNext(t) \/ HandlerDone(t) \/ HandlerThrow(t) \/ AbortHandlerReturns(t)
         \/ CommitRefused(t) \/ HandlerStray(t)
  PROVE  IInv'
<1> USE DEF RunStages, AbortStages
<1>0. TypeOK /\ TableAt(t) /\ RecordAt(t) BY DEF IInv, TableMatches, RecordMatches
<1>1. CASE HandlerNext(t) \/ HandlerDone(t)
  <2>1. PICK s \in {"next", "close"} : Returns(t, s) BY <1>1 DEF HandlerNext, HandlerDone
  <2>2. InHandler(t) /\ Quiet BY <1>1 DEF HandlerNext, HandlerDone
  <2>3. TableAt(t)' /\ RecordAt(t)'
    BY <1>0, <2>1, <2>2, ReturnsMoves DEF TableAt, RecordAt, InHandler, Quiet, control, durable
  <2> QED BY <1>0, <2>1, <2>2, <2>3, ReturnsMoves, QuietInv DEF InHandler
<1>2. CASE HandlerThrow(t) \/ (AbortHandlerReturns(t) /\ Throws(t))
  <2>1. PICK s \in {"ending", "caught"} : Returns(t, s)
    BY <1>2 DEF HandlerThrow, AbortHandlerReturns, Throws
  <2>2. Quiet /\ thread[t].stage \in {"handler", "effect", "cleanup"}
    BY <1>2 DEF HandlerThrow, AbortHandlerReturns, InHandler
  <2>3. TableAt(t)' /\ RecordAt(t)'
    BY <1>0, <2>1, <2>2, ReturnsMoves DEF TableAt, RecordAt, Quiet, control, durable
  <2> QED BY <1>0, <2>1, <2>2, <2>3, ReturnsMoves, QuietInv
<1>3. CASE (AbortHandlerReturns(t) /\ Goto(t, "settle")) \/ CommitRefused(t)
  <2>1. PICK s \in {"settle", "ending", "caught"} :
          Goto(t, s) /\ (s = "settle" => thread[t].stage = "cleanup")
                     /\ (s = "caught" => thread[t].stage # "caught")
    BY <1>3 DEF AbortHandlerReturns, CommitRefused
  <2>2. Quiet /\ thread[t].stage \in {"cleanup", "next", "close", "settle", "caught"}
    BY <1>3 DEF AbortHandlerReturns, CommitRefused
  <2>3. TableAt(t)' /\ RecordAt(t)'
    BY <1>0, <2>1, <2>2, GotoMoves DEF TableAt, RecordAt, Quiet, control, durable
  <2> QED BY <1>0, <2>1, <2>2, <2>3, GotoMoves, QuietInv
<1>4. CASE HandlerStray(t)
  <2>1. /\ \A u \in Task \ {t} : thread'[u] = thread[u]
        /\ thread'[t].stage = "handler" /\ thread'[t].phase = thread[t].phase
    BY <1>0, <1>4 DEF HandlerStray, TypeOK, ThreadRecord
  <2>2. Quiet /\ thread[t].stage = "handler" BY <1>4 DEF HandlerStray
  <2>3. TableAt(t)' /\ RecordAt(t)'
    BY <1>0, <2>1, <2>2 DEF TableAt, RecordAt, Quiet, control, durable
  <2> QED BY <2>1, <2>2, <2>3, QuietInv
<1> QED BY <1>1, <1>2, <1>3, <1>4 DEF AbortHandlerReturns

\* A commit of the execution of t.
LEMMA CommitInv ==
  ASSUME IInv, TypeOK', NEW t \in Task, NEW tasks \in [Task -> TaskRecord], Commit(tasks),
         Usable, drain # "dispatch",
         UNCHANGED <<control, inv>>, \A u \in Task \ {t} : thread'[u] = thread[u],
         \A u \in Task \ {t} : tasks[u] = task[u] \/ (~Exists(u) /\ tasks[u].status # "absent"),
         (tasks[t].status # "absent" /\ tasks[t].status # "pending") \/ ~Live(t) \/ Live(t)',
         unrecorded' \subseteq unrecorded \cup {t},
         t \in unrecorded' => tasks[t].status = "running" /\ tasks[t].cp = "inflight",
         TableAt(t)', RecordAt(t)'
  PROVE  IInv'
<1>0. task' = tasks BY DEF Commit
<1>1. OnlyMoves(t) BY <1>0 DEF OnlyMoves, Exists, control
<1>2. TableMatches' /\ RecordMatches' BY <1>1, MoveTables DEF IInv
<1>3. EffectRemembered' BY <1>0, <1>1, MoveEffect DEF IInv, TypeOK
<1>4. \A u \in Task : Live(u) => Live(u)' \/ task'[u].status = "terminal"
  <2>1. tasks[t].status \in {"absent", "pending", "running", "terminal"} BY DEF TaskRecord
  <2> QED BY <1>0, <2>1 DEF Live, Exists
<1>5. LoopMatches' BY <1>4, CommitLoop DEF control
<1> QED BY <1>2, <1>3, <1>5 DEF IInv

LEMMA OverFields ==
  ASSUME TypeOK, NEW t \in Task, NEW o \in Outcomes
  PROVE  LET ended == [task EXCEPT ![t] = Over(@, o)]
         IN  /\ ended \in [Task -> TaskRecord]
             /\ ended[t].status = "terminal"
             /\ \A u \in Task \ {t} : ended[u] = task[u]
<1> DEFINE ended == [task EXCEPT ![t] = Over(@, o)]
<1>1. ended[t] = Over(task[t], o) BY DEF TypeOK
<1>2. task[t] \in TaskRecord BY DEF TypeOK
<1>3. Over(task[t], o).status = "terminal" BY <1>2 DEF Over, TaskRecord
<1> QED BY <1>1, <1>3, EndedType DEF TypeOK

LEMMA CheckpointFields ==
  ASSUME TypeOK, NEW t \in Task, NEW p \in Phases
  PROVE  LET tasks == [task EXCEPT ![t].cp = p]
         IN  /\ tasks \in [Task -> TaskRecord]
             /\ tasks[t].status = task[t].status /\ tasks[t].cp = p
             /\ tasks[t].abort = task[t].abort
             /\ \A u \in Task \ {t} : tasks[u] = task[u]
<1> DEFINE tasks == [task EXCEPT ![t].cp = p]
<1>1. task[t] \in TaskRecord BY DEF TypeOK
<1>2. tasks[t] = [task[t] EXCEPT !.cp = p] BY DEF TypeOK
<1>3. [task[t] EXCEPT !.cp = p] \in TaskRecord BY <1>1, UpdateType
<1>4. tasks[t].status = task[t].status /\ tasks[t].cp = p /\ tasks[t].abort = task[t].abort
  BY <1>1, <1>2 DEF TaskRecord
<1> QED BY <1>2, <1>3, <1>4 DEF TypeOK

LEMMA CheckpointSteps ==
  ASSUME IInv, TypeOK', NEW t \in Task, HandlerCheckpoint(t) \/ StrayCommit(t)
  PROVE  IInv'
<1> USE DEF RunStages, AbortStages
<1>0. TypeOK /\ TableAt(t) /\ RecordAt(t) /\ "inflight" \in Phases
  BY DEF IInv, TableMatches, RecordMatches, Phases
<1> DEFINE tasks == [task EXCEPT ![t].cp = "inflight"]
<1> HIDE DEF tasks
<1>1. /\ tasks \in [Task -> TaskRecord]
      /\ tasks[t].status = task[t].status /\ tasks[t].cp = "inflight"
      /\ \A u \in Task \ {t} : tasks[u] = task[u]
      /\ tasks[t].abort = task[t].abort
  BY <1>0, CheckpointFields DEF tasks
<1>2. ASSUME Commit(tasks), UNCHANGED <<control, inv>>, LineFree,
             thread[t].stage \in {"handler", "effect"},
             \A u \in Task \ {t} : thread'[u] = thread[u],
             thread'[t].stage = "effect",
             unrecorded' = unrecorded \cup {t}
      PROVE  IInv'
  <2>1. task' = tasks BY <1>2 DEF Commit
  <2>2. task[t].status = "running" BY <1>0, <1>2 DEF RecordAt
  <2>3. TableAt(t)' BY <1>0, <1>2 DEF TableAt, control
  <2>4. RecordAt(t)' BY <1>1, <1>2, <2>1, <2>2 DEF RecordAt
  <2>5. Usable /\ drain # "dispatch" BY <1>2 DEF LineFree
  <2> QED BY <1>1, <1>2, <2>2, <2>3, <2>4, <2>5, CommitInv
<1>3. CASE HandlerCheckpoint(t)
  <2>1. /\ \A u \in Task \ {t} : thread'[u] = thread[u]
        /\ thread'[t].stage = "effect"
    BY <1>0, <1>3, GotoMoves DEF HandlerCheckpoint
  <2> QED BY <1>2, <1>3, <2>1 DEF HandlerCheckpoint, tasks
<1>4. CASE StrayCommit(t)
  <2>1. CASE Usable /\ thread[t].stray = "live" /\ RunMayCommit(t)
    <3>1. thread[t].stage \in {"handler", "effect"} BY <1>0, <2>1 DEF TableAt
    <3>2. /\ \A u \in Task \ {t} : thread'[u] = thread[u]
          /\ thread'[t].stage = "effect"
      BY <1>0, <1>4, <2>1, <3>1 DEF StrayCommit, TypeOK, ThreadRecord
    <3> QED BY <1>2, <1>4, <2>1, <3>1, <3>2 DEF StrayCommit, LineFree, tasks
  <2>2. CASE ~(Usable /\ thread[t].stray = "live" /\ RunMayCommit(t))
    <3>1. /\ \A u \in Task \ {t} : thread'[u] = thread[u]
          /\ thread'[t].stage = thread[t].stage /\ thread'[t].phase = thread[t].phase
          /\ thread'[t].stray = "none"
      BY <1>0, <1>4, <2>2 DEF StrayCommit, TypeOK, ThreadRecord
    <3>2. Quiet BY <1>4, <2>2 DEF StrayCommit, Quiet, durable, loop
    <3>3. thread[t].stage # "none" BY <1>0, <1>4 DEF StrayCommit, TableAt, NoThread
    <3>4. TableAt(t)' /\ RecordAt(t)'
      BY <1>0, <3>1, <3>2, <3>3 DEF TableAt, RecordAt, Quiet, control, durable
    <3> QED BY <3>1, <3>2, <3>3, <3>4, QuietInv
  <2> QED BY <2>1, <2>2
<1> QED BY <1>3, <1>4

\* An execution that waits for the line to end the task, and ends it ...
LEMMA EndInv ==
  ASSUME IInv, TypeOK', NEW t \in Task, NEW tasks \in [Task -> TaskRecord], Commit(tasks),
         LineFree, UNCHANGED <<control, inv>>, Goto(t, "ending"),
         thread[t].stage \in {"next", "close", "settle", "caught"},
         tasks[t].status = "terminal", \A u \in Task \ {t} : tasks[u] = task[u] \/ (~Exists(u) /\ tasks[u].status # "absent"),
         unrecorded' = unrecorded \ {t}
  PROVE  IInv'
<1>0. TypeOK /\ TableAt(t) /\ Usable /\ drain # "dispatch" /\ task' = tasks
  BY DEF IInv, TableMatches, LineFree, Commit
<1>1. TableAt(t)' BY <1>0, GotoMoves DEF TableAt, RunStages, AbortStages, control
<1>2. RecordAt(t)' BY <1>0, GotoMoves DEF RecordAt, RunStages, AbortStages
<1> QED BY <1>0, <1>1, <1>2, GotoMoves, CommitInv

\* ... or leaves it to the catch or the finally block.
LEMMA LeaveInv ==
  ASSUME IInv, TypeOK', NEW t \in Task, NEW s \in {"ending", "caught"}, Goto(t, s),
         UNCHANGED <<task, unrecorded, dirty, drain, reserved, waiter>>,
         UNCHANGED <<control, inv, disruptions>>,
         thread[t].stage \in {"next", "close", "settle"} \cup IF s = "ending" THEN {"caught"} ELSE {}
  PROVE  IInv'
<1>0. TypeOK /\ TableAt(t) /\ RecordAt(t) BY DEF IInv, TableMatches, RecordMatches
<1>1. Quiet BY DEF Quiet, durable, loop
<1>2. TableAt(t)' BY <1>0, GotoMoves DEF TableAt, RunStages, AbortStages, control
<1>3. RecordAt(t)' BY <1>0, GotoMoves DEF RecordAt, RunStages, AbortStages
<1> QED BY <1>0, <1>1, <1>2, <1>3, GotoMoves, QuietInv

LEMMA TransitionStep == ASSUME IInv, TypeOK', NEW t \in Task, Transition(t) PROVE IInv'
<1> USE DEF RunStages, AbortStages
<1>0. /\ TypeOK /\ TableAt(t) /\ RecordAt(t) /\ task[t].status = "running"
      /\ thread[t].stage = "next" /\ LineFree /\ UNCHANGED <<control, inv, disruptions>>
  BY DEF IInv, TableMatches, RecordMatches, RecordAt, Transition
<1>1. CASE ~RunMayCommit(t) \/ thread[t].signalled
  BY <1>0, <1>1, LeaveInv DEF Transition
<1>2. ASSUME Commit([task EXCEPT ![t].cp = "ready"]), unrecorded' = unrecorded \ {t},
             thread' = [thread EXCEPT ![t].stage = "handler", ![t].phase = "ready"]
      PROVE  IInv'
  <2> DEFINE tasks == [task EXCEPT ![t].cp = "ready"]
  <2>1. "ready" \in Phases BY DEF Phases
  <2> HIDE DEF tasks
  <2>2. /\ tasks \in [Task -> TaskRecord]
        /\ tasks[t].status = "running" /\ tasks[t].cp = "ready"
        /\ \A u \in Task \ {t} : tasks[u] = task[u]
    BY <1>0, <2>1, CheckpointFields DEF tasks
  <2>3. /\ thread'[t].stage = "handler" /\ thread'[t].phase = "ready"
        /\ \A u \in Task \ {t} : thread'[u] = thread[u]
    BY <1>0, <1>2 DEF TypeOK, ThreadRecord
  <2>4. TableAt(t)' BY <1>0, <2>3 DEF TableAt, control
  <2>5. Commit(tasks) BY <1>2 DEF tasks
  <2>6. task' = tasks BY <2>5 DEF Commit
  <2>7. RecordAt(t)' BY <2>2, <2>3, <2>6 DEF RecordAt
  <2>8. Usable /\ drain # "dispatch" BY <1>0 DEF LineFree
  <2>9. unrecorded' \subseteq unrecorded \cup {t} /\ t \notin unrecorded' BY <1>2
  <2>10. UNCHANGED <<control, inv>> BY <1>0
  <2> QED BY <2>2, <2>3, <2>4, <2>5, <2>7, <2>8, <2>9, <2>10, CommitInv
<1>3. ASSUME thread' = [thread EXCEPT ![t].stage = "handler", ![t].phase = task[t].cp],
             UNCHANGED <<task, unrecorded, dirty, drain, reserved, waiter>>
      PROVE  IInv'
  <2>1. /\ thread'[t].stage = "handler" /\ thread'[t].phase = task[t].cp
        /\ \A u \in Task \ {t} : thread'[u] = thread[u]
    BY <1>0, <1>3 DEF TypeOK, ThreadRecord
  <2>2. TableAt(t)' BY <1>0, <2>1 DEF TableAt, control
  <2>3. RecordAt(t)' BY <1>0, <1>3, <2>1 DEF RecordAt
  <2>4. Quiet BY <1>0, <1>3 DEF Quiet, durable, loop
  <2> QED BY <1>0, <2>1, <2>2, <2>3, <2>4, QuietInv
<1>4. ASSUME NEW o \in {"completed", "failed"}, Commit([task EXCEPT ![t] = Over(@, o)]),
             unrecorded' = unrecorded \ {t}, Goto(t, "ending")
      PROVE  IInv'
  <2> DEFINE tasks == [task EXCEPT ![t] = Over(@, o)]
  <2>1. o \in Outcomes BY DEF Outcomes
  <2> HIDE DEF tasks
  <2>2. /\ tasks \in [Task -> TaskRecord] /\ tasks[t].status = "terminal"
        /\ \A u \in Task \ {t} : tasks[u] = task[u]
    BY <1>0, <2>1, OverFields DEF tasks
  <2>3. Commit(tasks) BY <1>4 DEF tasks
  <2> QED BY <1>0, <1>4, <2>2, <2>3, EndInv
<1>5. ASSUME Goto(t, "caught"), UNCHANGED <<task, unrecorded, dirty, drain, reserved, waiter>>
      PROVE  IInv'
  BY <1>0, <1>5, LeaveInv
<1> QED BY <1>1, <1>2, <1>3, <1>4, <1>5 DEF Transition

LEMMA ClosingSteps ==
  ASSUME IInv, TypeOK', NEW t \in Task, CloseRun(t) \/ SettleAbort(t) \/ FaultTask(t)
  PROVE  IInv'
<1>0. /\ TypeOK /\ TableAt(t) /\ RecordAt(t) /\ LineFree /\ UNCHANGED <<control, inv, disruptions>>
      /\ thread[t].stage \in {"close", "settle", "caught"}
  BY DEF IInv, TableMatches, RecordMatches, CloseRun, SettleAbort, FaultTask
<1>1. ASSUME NEW o \in {"completed", "failed", "aborted", "faulted"},
             unrecorded' = unrecorded \ {t}, Goto(t, "ending"),
             \/ Commit([task EXCEPT ![t] = Over(@, o)])
             \/ \E n \in known : ~Exists(n) /\ Commit(Created([task EXCEPT ![t] = Over(@, o)], n, {t}))
      PROVE  IInv'
  <2> DEFINE ended == [task EXCEPT ![t] = Over(@, o)]
  <2>1. o \in Outcomes BY DEF Outcomes
  <2> HIDE DEF ended
  <2>2. /\ ended \in [Task -> TaskRecord] /\ ended[t].status = "terminal"
        /\ \A u \in Task \ {t} : ended[u] = task[u]
    BY <1>0, <2>1, OverFields DEF ended
  <2>3. CASE Commit(ended) BY <1>0, <1>1, <2>2, <2>3, EndInv
  <2>4. ASSUME NEW n \in known, ~Exists(n), Commit(Created(ended, n, {t})) PROVE IInv'
    <3>1. n \in Task /\ {t} \in SUBSET Task BY <1>0 DEF TypeOK
    <3>2. Created(ended, n, {t}) \in [Task -> TaskRecord] BY <2>2, <3>1, CreatedType
    <3>3. n # t BY <1>0, <2>4 DEF RecordAt, RunStages, AbortStages, Exists
    <3>4. \A u \in Task \ {n} : Created(ended, n, {t})[u] = ended[u] BY <2>2 DEF Created
    <3>5. Created(ended, n, {t})[n].status = "pending" BY <2>2, <3>1 DEF Created, Absent
    <3> QED BY <1>0, <1>1, <2>2, <2>4, <3>1, <3>2, <3>3, <3>4, <3>5, EndInv
  <2> QED BY <1>1, <2>3, <2>4 DEF ended
<1>2. ASSUME NEW s \in {"ending", "caught"}, Goto(t, s),
             UNCHANGED <<task, unrecorded, dirty, drain, reserved, waiter>>,
             thread[t].stage = "caught" => s = "ending"
      PROVE  IInv'
  BY <1>0, <1>2, LeaveInv
<1>3. CASE CloseRun(t) BY <1>1, <1>2, <1>3 DEF CloseRun
<1>4. CASE SettleAbort(t) BY <1>1, <1>2, <1>4 DEF SettleAbort
<1>5. CASE FaultTask(t) BY <1>1, <1>2, <1>5 DEF FaultTask
<1> QED BY <1>3, <1>4, <1>5

\* A finished task that gives up its invocation makes no task eligible.
LEMMA OverLoop ==
  ASSUME IInv, NEW t \in Task, ~Live(t),
         UNCHANGED <<task, session, known, enabled, holds, joining, loop, waiter>>,
         \A u \in Task : thread[u].stage = "none" => thread'[u].stage = "none",
         inv'[t] = "none", \A u \in Task \ {t} : inv'[u] = inv[u]
  PROVE  LoopMatches'
<1> USE DEF IInv, LoopMatches
<1>1. \A u \in Task : Eligible(u)' = Eligible(u) BY DEF Eligible, Live, Ready, Terminal
<1>2. ReservedMatches' BY DEF ReservedMatches, loop
<1>3. StopMatches' BY DEF StopMatches
<1>4. WakeMatches' BY <1>1 DEF WakeMatches, loop
<1>5. NothingOverlooked' BY <1>1 DEF NothingOverlooked, Usable, loop
<1>6. WaitersWoken' BY DEF WaitersWoken, IsIdle, Live, Usable, loop
<1> QED BY <1>2, <1>3, <1>4, <1>5, <1>6

LEMMA EndedStep == ASSUME IInv, TypeOK', NEW t \in Task, Ended(t) PROVE IInv'
<1> USE DEF RunStages, AbortStages
<1>0. /\ TypeOK /\ TableAt(t) /\ RecordAt(t) /\ thread[t].stage = "ending"
      /\ UNCHANGED <<durable, control, reserved, waiter, disruptions>>
      /\ inv'[t] = "none" /\ (\A u \in Task \ {t} : inv'[u] = inv[u])
  BY DEF IInv, TableMatches, RecordMatches, Ended, TypeOK
<1>1. ~Live(t) => thread'[t].stage = "retire" /\ thread'[t].stray = thread[t].stray
  BY <1>0, GotoMoves DEF Ended
<1>2. Live(t) => thread'[t] = NoThread BY <1>0 DEF Ended, TypeOK
<1>3. \A u \in Task \ {t} : thread'[u] = thread[u] BY <1>0, GotoMoves DEF Ended, TypeOK
<1>4. TableAt(t)' BY <1>0, <1>1, <1>2 DEF TableAt, NoThread, control
<1>5. RecordAt(t)' BY <1>0, <1>1, <1>2 DEF RecordAt, NoThread, Live, durable
<1>6. OnlyMoves(t) BY <1>0, <1>3 DEF OnlyMoves, durable, control
<1>7. TableMatches' /\ RecordMatches' BY <1>4, <1>5, <1>6, MoveTables DEF IInv
<1>8. EffectRemembered' BY <1>0 DEF IInv, EffectRemembered, durable
<1>9. LoopMatches'
  <2>1. \A u \in Task : thread[u].stage = "none" => thread'[u].stage = "none" BY <1>0, <1>3
  <2>2. \A u \in Task : inv'[u] = inv[u] \/ inv'[u] = "none" BY <1>0
  <2>3. CASE Live(t)
    <3>1. Kick BY <2>3 DEF Ended
    <3> QED BY <1>0, <2>1, <2>2, <3>1, KickLoop DEF control, durable
  <2>4. CASE ~Live(t) BY <1>0, <2>1, <2>4, OverLoop DEF Ended, control, durable, loop
  <2> QED BY <2>3, <2>4
<1> QED BY <1>7, <1>8, <1>9 DEF IInv

LEMMA RetireSteps ==
  ASSUME IInv, TypeOK', NEW t \in Task, RetireCommit(t) \/ RetireRefused(t) \/ Truncate(t)
  PROVE  IInv'
<1> USE DEF RunStages, AbortStages
<1>0. /\ TypeOK /\ TableAt(t) /\ RecordAt(t) /\ thread[t].stage \in {"retire", "truncate"}
      /\ UNCHANGED <<durable, control, reserved, inv, waiter, disruptions>>
  BY DEF IInv, TableMatches, RecordMatches, RetireCommit, RetireRefused, Truncate
<1>1. ASSUME Goto(t, "truncate"), UNCHANGED <<dirty, drain>> PROVE IInv'
  <2>1. TableAt(t)' BY <1>0, <1>1, GotoMoves DEF TableAt, control
  <2>2. RecordAt(t)' BY <1>0, <1>1, GotoMoves DEF RecordAt, durable
  <2>3. Quiet BY <1>0, <1>1 DEF Quiet, loop
  <2> QED BY <1>0, <1>1, <2>1, <2>2, <2>3, GotoMoves, QuietInv
<1>2. ASSUME thread' = [thread EXCEPT ![t] = NoThread], Kick PROVE IInv'
  <2>1. thread'[t] = NoThread /\ \A u \in Task \ {t} : thread'[u] = thread[u] BY <1>0, <1>2 DEF TypeOK
  <2>2. TableAt(t)' BY <1>0, <2>1 DEF TableAt, NoThread, control
  <2>3. RecordAt(t)' BY <1>0, <2>1 DEF RecordAt, NoThread, durable
  <2>4. OnlyMoves(t) BY <1>0, <2>1 DEF OnlyMoves, durable, control
  <2>5. TableMatches' /\ RecordMatches' BY <2>2, <2>3, <2>4, MoveTables DEF IInv
  <2>6. EffectRemembered' BY <1>0 DEF IInv, EffectRemembered, durable
  <2>7. LoopMatches' BY <1>0, <1>2, <2>1, KickLoop DEF control, durable, NoThread
  <2> QED BY <2>5, <2>6, <2>7 DEF IInv
<1> QED BY <1>1, <1>2 DEF RetireCommit, RetireRefused, Truncate

-------------------------------------------------------------------------------
(***************************************************************************)
(* The drain loop.                                                         *)
(***************************************************************************)
LEMMA ReserveStep == ASSUME IInv, TypeOK', Reserve PROVE IInv'
<1>0. /\ TypeOK /\ TableMatches /\ RecordMatches /\ Usable
      /\ drain = "reserve" /\ drain' = "dispatch"
      /\ UNCHANGED <<session, known, enabled, holds, joining, inv, thread, waiter, unrecorded>>
  BY DEF IInv, Reserve, control
<1>1. \A t \in Task : Eligible(t) # "none" =>
        Live(t) /\ t \in known /\ inv[t] = "none" /\ thread[t].stage = "none"
  BY <1>0 DEF Eligible, TableMatches, TableAt, RecordMatches, RecordAt, Live
<1>2. ASSUME NEW t \in Task
      PROVE  /\ task'[t].cp = task[t].cp /\ task'[t].abort = task[t].abort
             /\ Eligible(t) # "none" => task'[t].status = "running"
             /\ Eligible(t) = "none" => task'[t] = task[t]
  <2>1. task[t] \in TaskRecord BY <1>0 DEF TypeOK
  <2>2. task'[t] = IF Eligible(t) # "none" THEN [task[t] EXCEPT !.status = "running"] ELSE task[t]
    BY DEF Reserve
  <2> QED BY <2>1, <2>2 DEF TaskRecord
<1>3. \A t \in Task : reserved'[t].mode = Eligible(t) /\ reserved'[t].phase = task[t].cp
  BY DEF Reserve
<1>4. \A t \in Task : /\ Live(t) => Live(t)'
                      /\ task'[t].status = task[t].status \/ (task'[t].status = "running" /\ Live(t))
  BY <1>1, <1>2 DEF Live
<1>5. TableMatches' BY <1>0 DEF TableMatches, TableAt
<1>6. ASSUME NEW t \in Task PROVE RecordAt(t)'
  <2>1. RecordAt(t) BY <1>0 DEF RecordMatches
  <2>2. CASE Eligible(t) = "none" BY <1>0, <1>2, <2>1, <2>2 DEF RecordAt
  <2>3. CASE Eligible(t) # "none"
    BY <1>0, <1>1, <1>2, <2>3 DEF RecordAt, RunStages, AbortStages
  <2> QED BY <2>2, <2>3
<1>7. EffectRemembered' BY <1>0, <1>2 DEF IInv, EffectRemembered, TypeOK
<1>8. ReservedMatches'
  <2>1. \A t \in Task : Eligible(t) = "abort" => task[t].abort BY DEF Eligible
  <2> QED BY <1>0, <1>1, <1>2, <1>3, <2>1 DEF ReservedMatches, Usable
<1>9. StopMatches' BY <1>0 DEF IInv, LoopMatches, StopMatches
<1>10. WakeMatches'
  <2>1. enabled /\ ~dirty' => task' = task BY DEF Reserve
  <2> QED BY <1>0, <1>3, <2>1 DEF WakeMatches, Eligible, Live, Ready, Terminal
<1>11. NothingOverlooked' BY <1>0 DEF NothingOverlooked
<1>12. WaitersWoken'
  <2>1. \A w \in Waiter : waiter[w].on \in Task \cup {Idle} BY <1>0 DEF TypeOK, WaiterRecord
  <2> QED BY <1>0, <1>4, <2>1 DEF IInv, LoopMatches, WaitersWoken, Live, Usable
<1> QED BY <1>5, <1>6, <1>7, <1>8, <1>9, <1>10, <1>11, <1>12 DEF IInv, LoopMatches, RecordMatches

LEMMA DrainStopSteps == ASSUME IInv, TypeOK', ReserveFails \/ DrainStops PROVE IInv'
<1> USE DEF IInv, LoopMatches
<1>0. /\ UNCHANGED <<durable, control, inv, thread, disruptions>> /\ DrainEnds
      /\ drain' = "off" /\ reserved' = [t \in Task |-> NoReservation]
      /\ ~Usable \/ ~enabled \/ holds > 0
  BY DEF ReserveFails, DrainStops, DrainEnds, ReservedMatches, Usable
<1>1. TableMatches' /\ RecordMatches'
  BY <1>0 DEF TableMatches, TableAt, RecordMatches, RecordAt, durable, control
<1>2. EffectRemembered' BY <1>0 DEF EffectRemembered, durable
<1>3. ReservedMatches' BY <1>0 DEF ReservedMatches, NoReservation
<1>4. StopMatches' BY <1>0 DEF StopMatches, ReservedMatches, ReserveFails, DrainStops, control
<1>5. WakeMatches' BY <1>0 DEF WakeMatches
<1>6. NothingOverlooked' BY <1>0 DEF NothingOverlooked, Usable, control, TypeOK
<1>7. WaitersWoken'
  <2>1. CASE Usable
    <3>1. Wake(task', FALSE) /\ \A t \in Task : Live(t) => Live(t)'
      BY <1>0 DEF DrainEnds, durable, Live
    <3> QED BY <2>1, <3>1, WakeWakes
  <2>2. CASE ~Usable BY <1>0, <2>2 DEF WaitersWoken, Usable, control
  <2> QED BY <2>1, <2>2
<1> QED BY <1>1, <1>2, <1>3, <1>4, <1>5, <1>6, <1>7

LEMMA DispatchStep == ASSUME IInv, TypeOK', Dispatch PROVE IInv'
<1> USE DEF IInv, LoopMatches
<1>0. /\ UNCHANGED <<durable, control, disruptions>> /\ drain = "dispatch" /\ enabled /\ holds = 0
      /\ reserved' = [t \in Task |-> NoReservation] /\ drain' \in {"off", "reserve"}
  BY DEF Dispatch, DrainEnds
<1>1. session \in {"open", "faulted"} BY <1>0 DEF StopMatches, TypeOK
<1>2. \A t \in Task : reserved[t].mode = "none" => thread'[t] = thread[t] /\ inv'[t] = inv[t]
  BY DEF Dispatch
<1>3. \A t \in Task : reserved[t].mode # "none" =>
        /\ inv'[t] = reserved[t].mode /\ thread'[t].stage = IF reserved[t].mode = "run" THEN "handler" ELSE "cleanup"
        /\ thread'[t].phase = reserved[t].phase /\ thread'[t].stray = "none"
  BY DEF Dispatch, Started
<1>4. \A t \in Task : reserved[t].mode \in {"none", "run", "abort"} BY DEF TypeOK, Reservation, Modes
<1>5. ASSUME NEW t \in Task PROVE TableAt(t)' /\ RecordAt(t)'
  <2>1. CASE reserved[t].mode = "none"
    BY <1>0, <1>2, <2>1 DEF TableMatches, TableAt, RecordMatches, RecordAt, durable, control
  <2>2. CASE reserved[t].mode # "none"
    <3>1. /\ t \in known /\ task[t].status = "running" /\ task[t].cp = reserved[t].phase
          /\ reserved[t].mode = "abort" => task[t].abort
      BY <2>2 DEF ReservedMatches
    <3>2. TableAt(t)' BY <1>0, <1>1, <1>3, <1>4, <2>2, <3>1 DEF TableAt, RunStages, AbortStages, control
    <3>3. RecordAt(t)' BY <1>0, <1>3, <1>4, <2>2, <3>1 DEF RecordAt, RunStages, AbortStages, durable
    <3> QED BY <3>2, <3>3
  <2> QED BY <2>1, <2>2
<1>6. TableMatches' /\ RecordMatches' BY <1>5 DEF TableMatches, RecordMatches
<1>7. EffectRemembered' BY <1>0 DEF EffectRemembered, durable
<1>8. ReservedMatches'
  BY <1>0, <1>1 DEF ReservedMatches, NoReservation, control
<1>9. StopMatches' BY <1>0, <1>1 DEF StopMatches, control
<1>10. WakeMatches' BY <1>0 DEF WakeMatches
<1>11. NothingOverlooked'
  <2>1. SUFFICES ASSUME drain' = "off", NEW t \in Task PROVE Eligible(t)' = "none"
    BY DEF NothingOverlooked
  <2>2. ~dirty BY <2>1 DEF Dispatch
  <2>3. CASE reserved[t].mode = "none"
    <3>1. Eligible(t) = "none" BY <1>0, <2>2, <2>3 DEF WakeMatches
    <3> QED BY <1>0, <1>2, <2>3, <3>1 DEF Eligible, Live, Ready, Terminal, durable, control
  <2>4. CASE reserved[t].mode # "none" BY <1>3, <2>4 DEF Eligible
  <2> QED BY <2>3, <2>4
<1>12. WaitersWoken'
  <2>1. CASE drain' = "off" /\ Usable
    <3>1. Wake(task', FALSE) /\ \A t \in Task : Live(t) => Live(t)'
      BY <1>0, <2>1 DEF Dispatch, DrainEnds, durable, Live
    <3> QED BY <2>1, <3>1, WakeWakes
  <2>2. CASE drain' # "off"
    <3>1. waiter' = waiter BY <2>2 DEF Dispatch, DrainEnds
    <3> QED BY <1>0, <2>2, <3>1 DEF WaitersWoken, Usable, IsIdle, Live, durable, control
  <2>3. CASE ~Usable BY <1>0, <2>3 DEF WaitersWoken, Usable, control
  <2> QED BY <2>1, <2>2, <2>3
<1> QED BY <1>6, <1>7, <1>8, <1>9, <1>10, <1>11, <1>12

-------------------------------------------------------------------------------
(***************************************************************************)
(* The life cycle of the process and the session, and the host.            *)
(***************************************************************************)
LEMMA InitHolds == Init => IInv
<1> SUFFICES ASSUME Init PROVE IInv OBVIOUS
<1>1. TypeOK BY InitTyped
<1>2. TableMatches /\ RecordMatches
  BY DEF Init, TableMatches, TableAt, RecordMatches, RecordAt, NoThread, RunStages, AbortStages
<1>3. EffectRemembered BY DEF Init, EffectRemembered
<1>4. LoopMatches
  BY DEF Init, LoopMatches, ReservedMatches, StopMatches, WakeMatches, NothingOverlooked,
         WaitersWoken, NoReservation, Usable
<1> QED BY <1>1, <1>2, <1>3, <1>4 DEF IInv

\* The tables do not notice a change elsewhere.
LEMMA SameTables ==
  ASSUME IInv, UNCHANGED <<durable, known, inv, thread>>, session' # "down" \/ session = "down"
  PROVE  TableMatches' /\ RecordMatches' /\ EffectRemembered'
BY DEF IInv, TableMatches, TableAt, RecordMatches, RecordAt, EffectRemembered, durable

LEMMA ProcessLostStep == ASSUME IInv, TypeOK', ProcessLost PROVE IInv'
<1>1. TableMatches' /\ RecordMatches'
  BY DEF IInv, ProcessLost, TableMatches, TableAt, RecordMatches, RecordAt, NoThread, RunStages,
         AbortStages, durable
<1>2. EffectRemembered' BY DEF IInv, ProcessLost, EffectRemembered, durable
<1>3. LoopMatches'
  BY DEF ProcessLost, LoopMatches, ReservedMatches, StopMatches, WakeMatches, NothingOverlooked,
         WaitersWoken, NoReservation, Usable
<1> QED BY <1>1, <1>2, <1>3 DEF IInv

LEMMA OpenStep == ASSUME IInv, TypeOK', Open PROVE IInv'
<1> USE DEF IInv, LoopMatches
<1>1. TableMatches' BY DEF Open, TableMatches, TableAt
<1>2. RecordMatches' /\ EffectRemembered' BY DEF Open, RecordMatches, RecordAt, EffectRemembered, durable
<1>3. ~enabled /\ ~enabled' /\ drain = "off" /\ drain' = "off" BY DEF Open, StopMatches, ReservedMatches, loop
<1>4. ReservedMatches' BY <1>3 DEF Open, ReservedMatches, NoReservation, loop
<1>5. StopMatches' BY <1>3 DEF Open, StopMatches
<1>6. WakeMatches' /\ NothingOverlooked' BY <1>3 DEF WakeMatches, NothingOverlooked
<1>7. WaitersWoken'
  BY DEF Open, StopMatches, WaitersWoken, NoWaiter
<1> QED BY <1>1, <1>2, <1>4, <1>5, <1>6, <1>7

LEMMA ReconcileStep == ASSUME IInv, TypeOK', ReconcileOrphans PROVE IInv'
<1> DEFINE tasks == [t \in Task |-> IF Live(t) /\ t \notin known
                                   THEN Over(task[t], "orphaned") ELSE task[t]]
<1>c. Commit(tasks) BY DEF ReconcileOrphans
<1> HIDE DEF tasks
<1>0. /\ UNCHANGED <<session, known, enabled, holds, joining, inv, thread>> /\ TypeOK
      /\ unrecorded' = unrecorded \cap known /\ Usable /\ drain # "dispatch"
  BY DEF IInv, ReconcileOrphans, LineFree
<1>1. task' = tasks BY <1>c DEF Commit
<1>2. ASSUME NEW t \in Task
      PROVE  /\ (t \in known \/ ~Live(t)) => task'[t] = task[t]
             /\ (t \notin known /\ Live(t)) => task'[t].status = "terminal"
  <2>1. task[t] \in TaskRecord BY <1>0 DEF TypeOK
  <2> QED BY <1>1, <2>1 DEF tasks, Over, TaskRecord
<1>3. \A t \in Task : t \notin known /\ Live(t) => thread[t].stage = "none"
  BY DEF IInv, TableMatches, TableAt, RecordMatches, RecordAt, Live
<1>4. TableMatches' BY <1>0 DEF IInv, TableMatches, TableAt
<1>5. RecordMatches'
  BY <1>0, <1>2, <1>3 DEF IInv, RecordMatches, RecordAt, RunStages, AbortStages
<1>6. EffectRemembered' BY <1>0, <1>2 DEF IInv, EffectRemembered, TypeOK
<1>7. LoopMatches'
  <2>1. \A t \in Task : Live(t) => Live(t)' \/ task'[t].status = "terminal" BY <1>2 DEF Live
  <2> QED BY <1>0, <1>c, <2>1, CommitLoop
<1> QED BY <1>4, <1>5, <1>6, <1>7 DEF IInv

LEMMA WakingSteps == ASSUME IInv, TypeOK', Resume \/ Release PROVE IInv'
<1> USE DEF IInv, LoopMatches
<1>0. /\ UNCHANGED <<durable, session, known, joining, reserved, inv, thread, waiter>>
      /\ session # "down" /\ (enabled' => enabled \/ session = "open") /\ (holds' > 0 => holds > 0)
  BY DEF Resume, Release, TypeOK
<1>1. TableMatches' /\ RecordMatches' /\ EffectRemembered' BY <1>0, SameTables
<1>2. drain' # "dispatch" => drain # "dispatch" BY DEF Resume, Release
<1>3. ReservedMatches' BY <1>0, <1>2 DEF ReservedMatches, durable
<1>4. StopMatches' BY <1>0 DEF StopMatches
<1>5. /\ enabled' /\ holds' = 0 /\ drain' = "off" => enabled /\ holds = 0 /\ drain = "off"
      /\ enabled' /\ drain' = "dispatch" /\ ~dirty' => enabled /\ drain = "dispatch" /\ ~dirty
  BY DEF Resume, Release, TypeOK
<1>6. WakeMatches'
  BY <1>0, <1>5 DEF WakeMatches, Eligible, Live, Ready, Terminal, durable
<1>7. NothingOverlooked'
  BY <1>0, <1>5 DEF NothingOverlooked, Eligible, Live, Ready, Terminal, Usable, durable
<1>8. drain' = "off" => drain = "off" BY DEF Resume, Release
<1>9. WaitersWoken' BY <1>0, <1>8 DEF WaitersWoken, IsIdle, Live, Usable, durable
<1> QED BY <1>1, <1>3, <1>4, <1>6, <1>7, <1>9

LEMMA HoldStep == ASSUME IInv, TypeOK', Hold PROVE IInv'
<1> USE DEF IInv, LoopMatches
<1>0. /\ UNCHANGED <<durable, session, known, enabled, joining, loop, inv, thread, waiter>>
      /\ (\A t \in Task : inv[t] = "none") /\ holds' # 0
  BY DEF Hold, TypeOK
<1>1. TableMatches' /\ RecordMatches' /\ EffectRemembered' BY <1>0, SameTables
<1>2. ReservedMatches' BY <1>0 DEF ReservedMatches, loop, durable
<1>3. StopMatches' BY <1>0 DEF StopMatches
<1>4. WakeMatches' BY <1>0 DEF WakeMatches, Eligible, Live, Ready, Terminal, loop, durable
<1>5. NothingOverlooked' BY <1>0 DEF NothingOverlooked
<1>6. WaitersWoken' BY <1>0 DEF WaitersWoken, IsIdle, Live, Usable, loop, durable
<1> QED BY <1>1, <1>2, <1>3, <1>4, <1>5, <1>6

LEMMA StoppingSteps == ASSUME IInv, TypeOK', Suspend \/ Close \/ StorageFault PROVE IInv'
<1> USE DEF IInv, LoopMatches
<1>0. /\ UNCHANGED <<durable, known, holds, loop, inv, waiter>> /\ (enabled' => enabled)
      /\ session' # "down" /\ session # "down" /\ (Usable' => Usable)
      /\ \A t \in Task : inv[t] = "none" => thread'[t] = thread[t]
  BY DEF Suspend, Close, StorageFault, Usable
<1>1. \A t \in Task : /\ thread'[t].stage = thread[t].stage /\ thread'[t].phase = thread[t].phase
                      /\ thread'[t].stray = thread[t].stray
                      /\ thread[t].stage = "none" => thread'[t] = thread[t]
  <2>1. CASE Suspend
    <3>1. \A t \in Task : thread[t] \in ThreadRecord /\ (thread[t].stage = "none" => inv[t] = "none")
      BY DEF TypeOK, TableMatches, TableAt
    <3> QED BY <2>1, <3>1 DEF Suspend, ThreadRecord
  <2>2. CASE Close \/ StorageFault BY <2>2 DEF Close, StorageFault
  <2> QED BY <2>1, <2>2
<1>2. TableMatches' BY <1>0, <1>1 DEF TableMatches, TableAt
<1>3. RecordMatches' BY <1>0, <1>1 DEF RecordMatches, RecordAt, durable
<1>4. EffectRemembered' BY <1>0 DEF EffectRemembered, durable
<1>5. ReservedMatches' BY <1>0, <1>1 DEF ReservedMatches, loop, durable
<1>6. StopMatches'
  <2>1. CASE Suspend BY <2>1 DEF Suspend, StopMatches
  <2>2. CASE Close
    <3>1. \A t \in Task : inv[t] = "none"
      BY <2>2 DEF Close, StopMatches, TableMatches, TableAt
    <3> QED BY <2>2, <3>1 DEF Close, StopMatches
  <2>3. CASE StorageFault BY <2>3 DEF StorageFault, StopMatches
  <2> QED BY <2>1, <2>2, <2>3
<1>7. WakeMatches' BY <1>0 DEF WakeMatches, Eligible, Live, Ready, Terminal, loop, durable
<1>8. NothingOverlooked'
  BY <1>0 DEF NothingOverlooked, Eligible, Live, Ready, Terminal, loop, durable
<1>9. WaitersWoken' BY <1>0 DEF WaitersWoken, IsIdle, Live, loop, durable
<1> QED BY <1>2, <1>3, <1>4, <1>5, <1>6, <1>7, <1>8, <1>9

LEMMA MarkStep == ASSUME IInv, TypeOK', NEW t \in Task, MarkTask(t) PROVE IInv'
<1> DEFINE tasks == [task EXCEPT ![t].abort = TRUE]
<1>0. /\ TypeOK /\ TableMatches /\ RecordMatches /\ EffectRemembered
      /\ UNCHANGED <<unrecorded, control, inv>> /\ Usable /\ drain # "dispatch"
      /\ Commit(tasks) /\ task[t].status # "absent"
  BY DEF IInv, MarkTask, LineFree, Live
<1>1. task' = tasks BY <1>0 DEF Commit
<1> HIDE DEF tasks
<1>2. task'[t].status = task[t].status /\ task'[t].cp = task[t].cp /\ task'[t].abort
  <2>1. task[t] \in TaskRecord BY <1>0 DEF TypeOK
  <2> QED BY <1>0, <1>1, <2>1 DEF tasks, TypeOK, TaskRecord
<1>3. \A u \in Task \ {t} : task'[u] = task[u] BY <1>1 DEF tasks
<1>4. /\ \A u \in Task \ {t} : thread'[u] = thread[u]
      /\ thread'[t].stage = thread[t].stage /\ thread'[t].phase = thread[t].phase
      /\ thread'[t].stray = thread[t].stray
      /\ thread[t].stage = "none" => thread'[t] = thread[t]
  <2>1. thread[t] \in ThreadRecord /\ (thread[t].stage = "none" => inv[t] = "none")
    BY <1>0 DEF TypeOK, TableMatches, TableAt
  <2> QED BY <1>0, <2>1 DEF MarkTask, ThreadRecord, TypeOK
<1>5. TableMatches' BY <1>0, <1>4 DEF TableMatches, TableAt, control
<1>6. RecordMatches' BY <1>0, <1>2, <1>3, <1>4 DEF RecordMatches, RecordAt
<1>7. EffectRemembered' BY <1>0, <1>2, <1>3 DEF EffectRemembered, TypeOK
<1>8. LoopMatches'
  <2>1. \A u \in Task : Live(u) => Live(u)' BY <1>2, <1>3 DEF Live
  <2> QED BY <1>0, <2>1, CommitLoop DEF control
<1> QED BY <1>5, <1>6, <1>7, <1>8 DEF IInv

LEMMA CreateStep ==
  ASSUME IInv, TypeOK', NEW t \in Task, NEW deps \in SUBSET Task, CreateTask(t, deps) PROVE IInv'
<1>0. /\ TypeOK /\ TableMatches /\ RecordMatches /\ EffectRemembered
      /\ UNCHANGED <<unrecorded, control, inv, thread>> /\ Usable /\ drain # "dispatch"
      /\ Commit(Created(task, t, deps)) /\ task[t].status = "absent"
  BY DEF IInv, CreateTask, LineFree, Exists
<1>1. \A u \in Task \ {t} : task'[u] = task[u] BY <1>0 DEF Commit, Created
<1>2. thread[t].stage = "none" BY <1>0 DEF RecordMatches, RecordAt
<1>3. TableMatches' BY <1>0 DEF TableMatches, TableAt, control
<1>4. RecordMatches'
  <2>1. task'[t].status = "pending" BY <1>0 DEF Commit, Created, Absent, TypeOK
  <2> QED BY <1>0, <1>1, <1>2, <2>1 DEF RecordMatches, RecordAt, RunStages, AbortStages
<1>5. EffectRemembered' BY <1>0, <1>1 DEF EffectRemembered, TypeOK
<1>6. LoopMatches'
  <2>1. \A u \in Task : Live(u) => Live(u)' BY <1>0, <1>1 DEF Live
  <2> QED BY <1>0, <2>1, CommitLoop DEF control
<1> QED BY <1>3, <1>4, <1>5, <1>6 DEF IInv

LEMMA WaitSteps ==
  ASSUME IInv, TypeOK', NEW w \in Waiter, WaitForIdle(w) \/ \E t \in Task : WaitForTask(w, t)
  PROVE  IInv'
<1> USE DEF IInv, LoopMatches
<1>0. UNCHANGED <<durable, control, loop, inv, thread>> /\ Usable
  BY DEF WaitForIdle, WaitForTask, LineFree
<1>1. TableMatches' /\ RecordMatches' /\ EffectRemembered' BY <1>0, SameTables DEF control
<1>2. ReservedMatches' BY <1>0 DEF ReservedMatches, loop, durable, control
<1>3. StopMatches' BY <1>0 DEF StopMatches, control, Usable
<1>4. WakeMatches' BY <1>0 DEF WakeMatches, Eligible, Live, Ready, Terminal, loop, durable, control
<1>5. NothingOverlooked'
  BY <1>0 DEF NothingOverlooked, Eligible, Live, Ready, Terminal, Usable, loop, durable, control
<1>6. WaitersWoken'
  <2>1. \A v \in Waiter \ {w} : waiter'[v] = waiter[v] BY DEF WaitForIdle, WaitForTask, TypeOK
  <2>2. \A v \in Waiter \ {w} : waiter'[v].st = "waiting" =>
          IF waiter'[v].on = Idle THEN ~IsIdle(task) \/ drain # "off" ELSE Live(waiter'[v].on)
    BY <1>0, <2>1 DEF WaitersWoken
  <2>3. waiter'[w].st = "waiting" =>
          IF waiter'[w].on = Idle THEN ~IsIdle(task) \/ drain # "off" ELSE Live(waiter'[w].on)
    <3>1. CASE WaitForIdle(w) BY <3>1 DEF WaitForIdle, TypeOK, Resolved
    <3>2. ASSUME NEW t \in Task, WaitForTask(w, t) PROVE <2>3
      BY <3>2, KernelAssumption DEF WaitForTask, TypeOK, Resolved
    <3> QED BY <3>1, <3>2
  <2> QED BY <1>0, <2>2, <2>3 DEF WaitersWoken, IsIdle, Live, loop, durable
<1> QED BY <1>1, <1>2, <1>3, <1>4, <1>5, <1>6

-------------------------------------------------------------------------------
(***************************************************************************)
(* The theorems.                                                           *)
(***************************************************************************)
LEMMA StutterStep == ASSUME IInv, TypeOK', UNCHANGED vars PROVE IInv'
<1>1. TableMatches' /\ RecordMatches' /\ EffectRemembered' BY SameTables DEF vars, durable
<1>2. LoopMatches' BY QuietLoop DEF vars, loop
<1> QED BY <1>1, <1>2 DEF IInv

LEMMA NextHolds == ASSUME IInv, [Next]_vars PROVE IInv'
<1>1. TypeOK' BY NextTyped DEF IInv
<1>2. CASE UNCHANGED vars BY <1>1, <1>2, StutterStep
<1>3. CASE Lifecycle
  <2>1. CASE Exit \/ Crash BY <1>1, <2>1, ProcessLostStep DEF Exit, Crash
  <2> QED BY <1>1, <1>3, <2>1, OpenStep, ReconcileStep, WakingSteps, HoldStep, StoppingSteps
          DEF Lifecycle
<1>4. CASE Host BY <1>1, <1>4, MarkStep, CreateStep, WaitSteps DEF Host
<1>5. CASE Drain BY <1>1, <1>5, ReserveStep, DrainStopSteps, DispatchStep DEF Drain
<1>6. ASSUME NEW t \in Task, Handler(t) \/ HandlerStray(t) \/ StrayCommit(t) \/ OnLine(t)
      PROVE  IInv'
  BY <1>1, <1>6, QuietSteps, CheckpointSteps, TransitionStep, ClosingSteps, EndedStep, RetireSteps
     DEF Handler, OnLine
<1> QED BY <1>2, <1>3, <1>4, <1>5, <1>6 DEF Next

\* The invariant is inductive, hence holds in every reachable state.
THEOREM Invariance == Spec => []IInv
<1>1. Init => IInv BY InitHolds
<1>2. IInv /\ [Next]_vars => IInv' BY NextHolds
<1> QED BY <1>1, <1>2, PTL DEF Spec

\* A handler, and the cleanup of an abort, always work from what is stored,
\* across dispatches, transitions, retries, marks and recoveries.
THEOREM StoredStateSeen == Spec => []HandlersSeeStoredState
<1>1. IInv => HandlersSeeStoredState
  BY DEF IInv, RecordMatches, RecordAt, HandlersSeeStoredState, Marked, Live, RunStages, AbortStages
<1> QED BY <1>1, Invariance, PTL

\* An effect begun and not recorded is found again after any crash or suspend.
THEOREM EffectsRemembered == Spec => []EffectRemembered
<1>1. IInv => EffectRemembered BY DEF IInv
<1> QED BY <1>1, Invariance, PTL

\* kick() and the dirty flag lose no wake-up, whoever commits and whenever.
THEOREM NoLostWakeUp == Spec => []NothingOverlooked
<1>1. IInv => NothingOverlooked BY DEF IInv, LoopMatches
<1> QED BY <1>1, Invariance, PTL

\* No caller of waitForTask or waitForIdle is left behind.
THEOREM NoWaiterLeft == Spec => []WaitersWoken
<1>1. IInv => WaitersWoken BY DEF IInv, LoopMatches
<1> QED BY <1>1, Invariance, PTL

\* A closed session and a held scheduler have no handler running.
THEOREM StoppedIsStopped == Spec => []StoppedMeansStopped
<1>1. ASSUME IInv PROVE StoppedMeansStopped
  <2>1. \A t \in Task : Executing(t) => inv[t] # "none"
    BY <1>1 DEF IInv, TableMatches, TableAt, Executing
  <2>2. session = "closed" \/ holds > 0 => \A t \in Task : inv[t] = "none"
    BY <1>1 DEF IInv, LoopMatches, StopMatches
  <2> QED BY <2>1, <2>2 DEF StoppedMeansStopped
<1> QED BY <1>1, Invariance, PTL

-------------------------------------------------------------------------------
(***************************************************************************)
(* The kernel implements TaskLifecycle.                                    *)
(***************************************************************************)
\* What a step may do to the record of t: the steps of TaskLifecycle.
Unmoved(t) == /\ task'[t].status = task[t].status /\ task'[t].abort = task[t].abort
              /\ task'[t].outcome = task[t].outcome /\ task'[t].after = task[t].after

Creates(t) ==
  /\ task[t].status = "absent"
  /\ \E deps \in SUBSET {d \in Task : Exists(d)} :
       /\ task'[t].status = "pending" /\ task'[t].abort = task[t].abort
       /\ task'[t].outcome = task[t].outcome /\ task'[t].after = deps

Starts(t) ==
  /\ task[t].status = "pending"
  /\ task[t].abort \/ \A d \in task[t].after : Terminal(d)
  /\ task'[t].status = "running" /\ task'[t].abort = task[t].abort
  /\ task'[t].outcome = task[t].outcome /\ task'[t].after = task[t].after

Marks(t) ==
  /\ Live(t)
  /\ task'[t].status = task[t].status /\ task'[t].abort = TRUE
  /\ task'[t].outcome = task[t].outcome /\ task'[t].after = task[t].after

MayEndAs(t, o) ==
  \/ o \in {"completed", "failed"} /\ task[t].status = "running" /\ ~task[t].abort
  \/ o = "aborted" /\ task[t].status = "running" /\ task[t].abort
  \/ o = "faulted" /\ task[t].status = "running"
  \/ o = "orphaned" /\ Live(t)

EndsAs(t, o) ==
  /\ MayEndAs(t, o)
  /\ task'[t].status = "terminal" /\ task'[t].abort = task[t].abort
  /\ task'[t].outcome = o /\ task'[t].after = task[t].after

Moves(t) == Unmoved(t) \/ Creates(t) \/ Starts(t) \/ Marks(t)
            \/ \E o \in Outcomes \ {"none"} : EndsAs(t, o)

LEMMA OverMoves ==
  ASSUME TypeOK, NEW t \in Task, NEW o \in Outcomes \ {"none"}, MayEndAs(t, o),
         task'[t] = Over(task[t], o)
  PROVE  Moves(t)
<1>1. task[t] \in TaskRecord BY DEF TypeOK
<1>2. EndsAs(t, o) BY <1>1 DEF EndsAs, Over, TaskRecord
<1> QED BY <1>2 DEF Moves

LEMMA CreatedMoves ==
  ASSUME TypeOK, NEW t \in Task, NEW deps \in SUBSET {d \in Task : Exists(d)},
         task[t] = Absent, NEW tasks \in [Task -> TaskRecord], task' = Created(tasks, t, deps)
  PROVE  Moves(t)
<1>1. task'[t] = [Absent EXCEPT !.status = "pending", !.after = deps] BY DEF Created
<1>2. Creates(t) BY <1>1 DEF Creates, Absent
<1> QED BY <1>2 DEF Moves

LEMMA CheckpointMoves ==
  ASSUME TypeOK, NEW t \in Task, NEW p, task' = [task EXCEPT ![t].cp = p]
  PROVE  \A u \in Task : Moves(u)
<1>1. task[t] \in TaskRecord BY DEF TypeOK
<1>2. Unmoved(t) BY <1>1 DEF Unmoved, TypeOK, TaskRecord
<1>3. \A u \in Task \ {t} : Unmoved(u) BY DEF Unmoved, TypeOK
<1> QED BY <1>2, <1>3 DEF Moves

LEMMA SameMoves == ASSUME task' = task PROVE \A u \in Task : Moves(u)
BY DEF Moves, Unmoved

\* A step that ends t, and perhaps creates n after it, moves both records.
LEMMA EndMoves ==
  ASSUME TypeOK, RecordMatches, NEW t \in Task, NEW o \in Outcomes \ {"none"}, MayEndAs(t, o),
         \/ task' = [task EXCEPT ![t] = Over(@, o)]
         \/ \E n \in Task : ~Exists(n) /\ task' = Created([task EXCEPT ![t] = Over(@, o)], n, {t})
  PROVE  \A u \in Task : Moves(u)
<1>0. Live(t) /\ Exists(t) BY DEF MayEndAs, Live, Exists
<1>1. CASE task' = [task EXCEPT ![t] = Over(@, o)]
  <2>1. task'[t] = Over(task[t], o) /\ \A u \in Task \ {t} : task'[u] = task[u] BY <1>1 DEF TypeOK
  <2>2. Moves(t) BY <2>1, OverMoves
  <2> QED BY <2>1, <2>2 DEF Moves, Unmoved
<1>2. ASSUME NEW n \in Task, ~Exists(n), task' = Created([task EXCEPT ![t] = Over(@, o)], n, {t})
      PROVE  \A u \in Task : Moves(u)
  <2>1. n # t BY <1>0, <1>2
  <2>2. /\ task'[n] = [Absent EXCEPT !.status = "pending", !.after = {t}]
        /\ task'[t] = Over(task[t], o) /\ \A u \in Task \ {t, n} : task'[u] = task[u]
    BY <1>2, <2>1 DEF Created, TypeOK
  <2>3. Moves(t) BY <2>2, OverMoves
  <2>4. task[n] = Absent BY <1>2 DEF RecordMatches, RecordAt, Exists
  <2>5. {t} \in SUBSET {d \in Task : Exists(d)} BY <1>0
  <2>6. Creates(n) BY <2>2, <2>4, <2>5 DEF Creates, Absent
  <2> QED BY <2>2, <2>3, <2>6 DEF Moves, Unmoved
<1> QED BY <1>1, <1>2

LEMMA NextMoves == ASSUME IInv, [Next]_vars PROVE \A t \in Task : Moves(t)
<1>0. TypeOK /\ RecordMatches BY DEF IInv
<1>1. CASE task' = task BY <1>1, SameMoves
<1>2. CASE ReconcileOrphans
  <2> DEFINE tasks == [t \in Task |-> IF Live(t) /\ t \notin known
                                     THEN Over(task[t], "orphaned") ELSE task[t]]
  <2>1. Commit(tasks) BY <1>2 DEF ReconcileOrphans
  <2>2. task' = tasks BY <2>1 DEF Commit
  <2>3. TAKE t \in Task
  <2>4. CASE Live(t) /\ t \notin known
    <3>1. task'[t] = Over(task[t], "orphaned") BY <2>2, <2>4
    <3>2. MayEndAs(t, "orphaned") BY <2>4 DEF MayEndAs
    <3>3. "orphaned" \in Outcomes \ {"none"} BY DEF Outcomes
    <3> QED BY <1>0, <3>1, <3>2, <3>3, OverMoves
  <2>5. CASE ~(Live(t) /\ t \notin known) BY <2>2, <2>5 DEF Moves, Unmoved
  <2> QED BY <2>4, <2>5
<1>3. ASSUME NEW t \in Task, MarkTask(t) PROVE \A u \in Task : Moves(u)
  <2>1. Commit([task EXCEPT ![t].abort = TRUE]) /\ Live(t) BY <1>3 DEF MarkTask
  <2>2. task' = [task EXCEPT ![t].abort = TRUE] BY <2>1 DEF Commit
  <2>3. task[t] \in TaskRecord BY <1>0 DEF TypeOK
  <2>4. task'[t] = [task[t] EXCEPT !.abort = TRUE] BY <1>0, <2>2 DEF TypeOK
  <2>5. Marks(t) BY <2>1, <2>3, <2>4 DEF Marks, TaskRecord
  <2>6. \A u \in Task \ {t} : task'[u] = task[u] BY <2>2
  <2> QED BY <2>5, <2>6 DEF Moves, Unmoved
<1>4. ASSUME NEW t \in Task, NEW deps \in SUBSET Task, CreateTask(t, deps)
      PROVE  \A u \in Task : Moves(u)
  <2>1. task' = Created(task, t, deps) /\ ~Exists(t) /\ deps \in SUBSET {d \in Task : Exists(d)}
    BY <1>4 DEF CreateTask, Commit
  <2>2. task[t] = Absent BY <1>0, <2>1 DEF RecordMatches, RecordAt, Exists
  <2>3. task'[t] = [Absent EXCEPT !.status = "pending", !.after = deps] BY <1>0, <2>1 DEF Created, TypeOK
  <2>4. Creates(t) BY <2>1, <2>2, <2>3 DEF Creates, Absent
  <2>5. \A u \in Task \ {t} : task'[u] = task[u] BY <2>1 DEF Created
  <2> QED BY <2>4, <2>5 DEF Moves, Unmoved
<1>5. CASE Reserve
  <2>1. TAKE t \in Task
  <2>2. task[t] \in TaskRecord BY <1>0 DEF TypeOK
  <2>3. task'[t] = IF Eligible(t) # "none" THEN [task[t] EXCEPT !.status = "running"] ELSE task[t]
    BY <1>5 DEF Reserve
  <2>4. CASE Eligible(t) = "none" BY <2>3, <2>4 DEF Moves, Unmoved
  <2>5. CASE Eligible(t) # "none"
    <3>1. /\ task'[t].status = "running" /\ task'[t].abort = task[t].abort
          /\ task'[t].outcome = task[t].outcome /\ task'[t].after = task[t].after
      BY <2>2, <2>3, <2>5 DEF TaskRecord
    <3>2. Live(t) /\ (task[t].abort \/ Ready(t) \/ task[t].status = "running")
      BY <2>5 DEF Eligible
    <3> QED BY <3>1, <3>2 DEF Moves, Unmoved, Starts, Live, Ready
  <2> QED BY <2>4, <2>5
<1>6. ASSUME NEW t \in Task, NEW p, Commit([task EXCEPT ![t].cp = p])
      PROVE  \A u \in Task : Moves(u)
  <2>1. task' = [task EXCEPT ![t].cp = p] BY <1>6 DEF Commit
  <2> QED BY <1>0, <2>1, CheckpointMoves
<1>7. ASSUME NEW t \in Task, NEW o \in Outcomes \ {"none"}, MayEndAs(t, o),
             \/ Commit([task EXCEPT ![t] = Over(@, o)])
             \/ \E n \in known : ~Exists(n) /\ Commit(Created([task EXCEPT ![t] = Over(@, o)], n, {t}))
      PROVE  \A u \in Task : Moves(u)
  <2>1. \/ task' = [task EXCEPT ![t] = Over(@, o)]
        \/ \E n \in known : ~Exists(n) /\ task' = Created([task EXCEPT ![t] = Over(@, o)], n, {t})
    BY <1>7 DEF Commit
  <2>2. known \subseteq Task BY <1>0 DEF TypeOK
  <2> QED BY <1>0, <1>7, <2>1, <2>2, EndMoves
<1>8. ASSUME NEW t \in Task, HandlerCheckpoint(t) \/ StrayCommit(t) PROVE \A u \in Task : Moves(u)
  <2>1. task' = task \/ Commit([task EXCEPT ![t].cp = "inflight"])
    BY <1>8 DEF HandlerCheckpoint, StrayCommit
  <2> QED BY <1>1, <1>6, <2>1
<1>9. ASSUME NEW t \in Task, Transition(t) \/ CloseRun(t) PROVE \A u \in Task : Moves(u)
  <2>1. \A o \in {"completed", "failed"} : o \in Outcomes \ {"none"} BY DEF Outcomes
  <2>2. task[t].status = "running"
    BY <1>0, <1>9 DEF Transition, CloseRun, RecordMatches, RecordAt, RunStages
  <2>3. RunMayCommit(t) => \A o \in {"completed", "failed"} : MayEndAs(t, o)
    BY <2>2 DEF RunMayCommit, MayEndAs
  <2>4. CASE Transition(t)
    <3>1. \/ task' = task
          \/ Commit([task EXCEPT ![t].cp = "ready"])
          \/ RunMayCommit(t) /\ \E o \in {"completed", "failed"} : Commit([task EXCEPT ![t] = Over(@, o)])
      BY <2>4 DEF Transition
    <3> QED BY <1>1, <1>6, <1>7, <2>1, <2>3, <3>1
  <2>5. CASE CloseRun(t)
    <3>1. \/ task' = task
          \/ RunMayCommit(t) /\ \E o \in {"completed", "failed"} :
               \/ Commit([task EXCEPT ![t] = Over(@, o)])
               \/ \E n \in known : /\ ~Exists(n)
                                   /\ Commit(Created([task EXCEPT ![t] = Over(@, o)], n, {t}))
      BY <2>5 DEF CloseRun
    <3> QED BY <1>1, <1>7, <2>1, <2>3, <3>1
  <2> QED BY <1>9, <2>4, <2>5
<1>10. ASSUME NEW t \in Task, SettleAbort(t) \/ FaultTask(t) PROVE \A u \in Task : Moves(u)
  <2>1. task[t].status = "running" /\ (SettleAbort(t) => task[t].abort)
    BY <1>0, <1>10 DEF SettleAbort, FaultTask, RecordMatches, RecordAt, AbortStages
  <2>2. \A o \in {"aborted", "faulted"} : o \in Outcomes \ {"none"} BY DEF Outcomes
  <2>3. (SettleAbort(t) => MayEndAs(t, "aborted")) /\ MayEndAs(t, "faulted")
    BY <2>1 DEF MayEndAs
  <2>4. \/ task' = task
        \/ SettleAbort(t) /\ Commit([task EXCEPT ![t] = Over(@, "aborted")])
        \/ Commit([task EXCEPT ![t] = Over(@, "faulted")])
    BY <1>10 DEF SettleAbort, FaultTask
  <2> QED BY <1>1, <1>7, <2>2, <2>3, <2>4
<1>11. CASE \/ UNCHANGED vars \/ Open \/ Resume \/ Hold \/ Release \/ Suspend \/ Close \/ Exit
            \/ Crash \/ StorageFault
            \/ \E w \in Waiter : WaitForIdle(w) \/ \E t \in Task : WaitForTask(w, t)
            \/ ReserveFails \/ DrainStops \/ Dispatch
  <2>1. UNCHANGED durable
    BY <1>11 DEF vars, durable, Open, Resume, Hold, Release, Suspend, Close, Exit, Crash, ProcessLost,
         StorageFault, WaitForIdle, WaitForTask, ReserveFails, DrainStops, Dispatch
  <2> QED BY <1>1, <2>1 DEF durable
<1>12. ASSUME NEW t \in Task,
              \/ HandlerNext(t) \/ HandlerDone(t) \/ HandlerThrow(t) \/ AbortHandlerReturns(t)
              \/ HandlerStray(t) \/ CommitRefused(t) \/ Ended(t) \/ RetireCommit(t)
              \/ RetireRefused(t) \/ Truncate(t)
       PROVE  \A u \in Task : Moves(u)
  <2>1. UNCHANGED durable
    BY <1>12 DEF durable, Quiet, HandlerNext, HandlerDone, HandlerThrow, AbortHandlerReturns,
         HandlerStray, CommitRefused, Ended, RetireCommit, RetireRefused, Truncate
  <2> QED BY <1>1, <2>1 DEF durable
<1> QED BY <1>2, <1>3, <1>4, <1>5, <1>8, <1>9, <1>10, <1>11, <1>12
        DEF Next, Lifecycle, Host, Drain, Handler, OnLine

\* The record that TaskLifecycle sees.
RecordOf(t) == [status |-> task[t].status, abort |-> task[t].abort,
                outcome |-> task[t].outcome, after |-> task[t].after]

\* Updates of such a record, spelled out.
LEMMA MarkedFields ==
  ASSUME NEW t
  PROVE  [RecordOf(t) EXCEPT !.abort = TRUE]
           = [status |-> task[t].status, abort |-> TRUE,
              outcome |-> task[t].outcome, after |-> task[t].after]
<1>1. ASSUME NEW g
      PROVE  [RecordOf(t) EXCEPT !.abort = g]
               = [status |-> task[t].status, abort |-> g,
                  outcome |-> task[t].outcome, after |-> task[t].after]
  BY SMT DEF RecordOf
<1> QED BY <1>1, Zenon

LEMMA CreatedFields ==
  ASSUME NEW t, NEW e, NEW f
  PROVE  [RecordOf(t) EXCEPT !.status = e, !.after = f]
           = [status |-> e, abort |-> task[t].abort, outcome |-> task[t].outcome, after |-> f]
<1> DEFINE u == [RecordOf(t) EXCEPT !.status = e]
<1> DEFINE v == [status |-> e, abort |-> task[t].abort,
                 outcome |-> task[t].outcome, after |-> task[t].after]
<1>1. u = v BY SMT DEF RecordOf
<1>2. [v EXCEPT !.after = f]
        = [status |-> e, abort |-> task[t].abort, outcome |-> task[t].outcome, after |-> f]
  BY SMT
<1> HIDE DEF u, v
<1>3. [u EXCEPT !.after = f] = [v EXCEPT !.after = f] BY <1>1, Zenon
<1> QED BY <1>2, <1>3, Zenon DEF u

LEMMA EndedFields ==
  ASSUME NEW t, NEW e, NEW f
  PROVE  [RecordOf(t) EXCEPT !.status = e, !.outcome = f]
           = [status |-> e, abort |-> task[t].abort, outcome |-> f, after |-> task[t].after]
<1> DEFINE u == [RecordOf(t) EXCEPT !.status = e]
<1> DEFINE v == [status |-> e, abort |-> task[t].abort,
                 outcome |-> task[t].outcome, after |-> task[t].after]
<1>1. u = v BY SMT DEF RecordOf
<1>2. [v EXCEPT !.outcome = f]
        = [status |-> e, abort |-> task[t].abort, outcome |-> f, after |-> task[t].after]
  BY SMT
<1> HIDE DEF u, v
<1>3. [u EXCEPT !.outcome = f] = [v EXCEPT !.outcome = f] BY <1>1, Zenon
<1> QED BY <1>2, <1>3, Zenon DEF u

LEMMA MovesFollow ==
  ASSUME TypeOK, TypeOK', \A t \in Task : Moves(t)
  PROVE  Records!Next
<1> DEFINE rec == [t \in Task |-> RecordOf(t)]
<1>1. ASSUME NEW t \in Task
      PROVE  \/ rec'[t] = rec[t] \/ Records!Create(t) \/ Records!Start(t)
             \/ Records!Mark(t) \/ Records!End(t)
  <2>1. CASE Unmoved(t) BY <2>1 DEF Unmoved, RecordOf
  <2>2. CASE Creates(t)
    <3>1. PICK deps \in SUBSET {d \in Task : Exists(d)} :
            RecordOf(t)' = [status |-> "pending", abort |-> task[t].abort,
                            outcome |-> task[t].outcome, after |-> deps]
      BY <2>2 DEF Creates, RecordOf
    <3>2. RecordOf(t)' = [RecordOf(t) EXCEPT !.status = "pending", !.after = deps]
      BY <3>1, CreatedFields
    <3>3. deps \in SUBSET {d \in Task : RecordOf(d).status # "absent"}
      BY <3>1 DEF RecordOf, Exists
    <3>4. RecordOf(t).status = "absent" BY <2>2 DEF RecordOf, Creates
    <3> HIDE DEF rec
    <3>5. /\ rec[t] = RecordOf(t) /\ rec'[t] = RecordOf(t)'
          /\ \A d \in Task : rec[d].status = RecordOf(d).status
      BY DEF rec
    <3>6. /\ rec[t].status = "absent" /\ deps \in SUBSET {d \in Task : rec[d].status # "absent"}
          /\ rec'[t] = [rec[t] EXCEPT !.status = "pending", !.after = deps]
      BY <3>2, <3>3, <3>4, <3>5
    <3> QED BY <3>6 DEF Records!Create, rec, RecordOf
  <2>3. CASE Starts(t)
    <3>1. \A d \in task[t].after : d \in Task BY DEF TypeOK, TaskRecord
    <3> QED BY <2>3, <3>1 DEF Starts, Records!Start, Records!Over, RecordOf, Terminal
  <2>4. CASE Marks(t)
    <3>1. RecordOf(t)' = [status |-> task[t].status, abort |-> TRUE,
                          outcome |-> task[t].outcome, after |-> task[t].after]
      BY <2>4, Zenon DEF Marks, RecordOf
    <3>2. RecordOf(t)' = [RecordOf(t) EXCEPT !.abort = TRUE]
      BY <3>1, MarkedFields, Zenon
    <3>3. RecordOf(t).status \in {"pending", "running"} BY <2>4 DEF Marks, Live, RecordOf
    <3> HIDE DEF rec
    <3>4. rec[t] = RecordOf(t) /\ rec'[t] = RecordOf(t)' BY DEF rec
    <3>5. rec[t].status \in {"pending", "running"} /\ rec'[t] = [rec[t] EXCEPT !.abort = TRUE]
      BY <3>2, <3>3, <3>4
    <3> QED BY <3>5 DEF Records!Mark, rec, RecordOf
  <2>5. ASSUME NEW o \in Outcomes \ {"none"}, EndsAs(t, o) PROVE Records!End(t)
    <3>1. Records!MayEnd(t, o) BY <2>5 DEF EndsAs, MayEndAs, Records!MayEnd, RecordOf, Live
    <3>2. o \in Records!Outcome \ {"none"} BY DEF Outcomes, Records!Outcome
    <3>3. RecordOf(t)' = [status |-> "terminal", abort |-> task[t].abort,
                          outcome |-> o, after |-> task[t].after]
      BY <2>5, Zenon DEF EndsAs, RecordOf
    <3>4. RecordOf(t)' = [RecordOf(t) EXCEPT !.status = "terminal", !.outcome = o]
      BY <3>3, EndedFields
    <3> HIDE DEF rec
    <3>5. rec[t] = RecordOf(t) /\ rec'[t] = RecordOf(t)' BY DEF rec
    <3>6. rec'[t] = [rec[t] EXCEPT !.status = "terminal", !.outcome = o] BY <3>4, <3>5
    <3> QED BY <3>1, <3>2, <3>6 DEF Records!End, rec, RecordOf
  <2> QED BY <2>1, <2>2, <2>3, <2>4, <2>5 DEF Moves
<1> QED BY <1>1 DEF Records!Next, RecordOf

\* Whatever crashes, races or stops, the stored records follow TaskLifecycle.
THEOREM Refinement == Spec => FollowsLifecycle
<1>1. Init => Records!Init BY DEF Init, Absent, Records!Init
<1>2. IInv /\ IInv' /\ [Next]_vars => Records!Next
  BY NextMoves, MovesFollow DEF IInv
<1> QED BY <1>1, <1>2, Invariance, PTL DEF Spec, FollowsLifecycle, Records!Spec

-------------------------------------------------------------------------------
(***************************************************************************)
(* Action properties.                                                      *)
(***************************************************************************)
\* An execution is not restarted: it begins where none is, or after "next".
JoinsAt(t) == thread'[t] # thread[t] /\ thread'[t].stage \in {"handler", "cleanup"} =>
                \/ thread[t].stage \in {"none", "next"}
                \/ thread'[t].stage = thread[t].stage

LEMMA NextJoins == ASSUME IInv, [Next]_vars PROVE \A t \in Task : JoinsAt(t)
<1>0. TypeOK /\ TableMatches /\ ReservedMatches BY DEF IInv, LoopMatches
<1>1. CASE thread' = thread BY <1>1 DEF JoinsAt
<1>2. CASE ProcessLost BY <1>2 DEF ProcessLost, NoThread, JoinsAt
<1>3. CASE Suspend BY <1>0, <1>3 DEF Suspend, TypeOK, ThreadRecord, JoinsAt
<1>4. ASSUME NEW t \in Task, MarkTask(t) PROVE \A u \in Task : JoinsAt(u)
  BY <1>0, <1>4 DEF MarkTask, TypeOK, ThreadRecord, JoinsAt
<1>5. CASE Dispatch BY <1>0, <1>5 DEF Dispatch, ReservedMatches, JoinsAt
<1>6. ASSUME NEW t \in Task, NEW s \in Stages \ {"handler", "cleanup"}, Goto(t, s) \/ Returns(t, s)
      PROVE  \A u \in Task : JoinsAt(u)
  BY <1>0, <1>6, GotoMoves, ReturnsMoves DEF JoinsAt
<1>7. ASSUME NEW t \in Task, thread' = [thread EXCEPT ![t] = NoThread]
      PROVE  \A u \in Task : JoinsAt(u)
  BY <1>0, <1>7 DEF NoThread, TypeOK, JoinsAt
<1>8. {"effect", "next", "close", "settle", "caught", "ending", "retire", "truncate"}
        \subseteq Stages \ {"handler", "cleanup"}
  BY DEF Stages
<1>9. ASSUME NEW t \in Task, Handler(t) PROVE \A u \in Task : JoinsAt(u)
  <2>1. \E s \in {"effect", "next", "close", "settle", "caught", "ending"} : Goto(t, s) \/ Returns(t, s)
    BY <1>9 DEF Handler, HandlerCheckpoint, HandlerNext, HandlerDone, HandlerThrow,
                AbortHandlerReturns, Throws
  <2> QED BY <1>6, <1>8, <2>1
<1>10. ASSUME NEW t \in Task, HandlerStray(t) \/ StrayCommit(t) PROVE \A u \in Task : JoinsAt(u)
  BY <1>0, <1>10 DEF HandlerStray, StrayCommit, TypeOK, ThreadRecord, JoinsAt
<1>11. ASSUME NEW t \in Task, Transition(t) PROVE \A u \in Task : JoinsAt(u)
  <2>1. thread[t].stage = "next" BY <1>11 DEF Transition
  <2>2. ASSUME NEW u \in Task \ {t} PROVE thread'[u] = thread[u]
    <3>1. \/ \E s \in {"ending", "caught"} : Goto(t, s)
          \/ \E p \in {"ready", task[t].cp} :
                thread' = [thread EXCEPT ![t].stage = "handler", ![t].phase = p]
      BY <1>11 DEF Transition
    <3> QED BY <1>0, <3>1, GotoMoves DEF TypeOK
  <2> QED BY <2>1, <2>2 DEF JoinsAt
<1>12. ASSUME NEW t \in Task, CloseRun(t) \/ SettleAbort(t) \/ CommitRefused(t) \/ FaultTask(t)
       PROVE  \A u \in Task : JoinsAt(u)
  <2>1. \E s \in {"caught", "ending"} : Goto(t, s)
    BY <1>12 DEF CloseRun, SettleAbort, CommitRefused, FaultTask
  <2> QED BY <1>6, <1>8, <2>1
<1>13. ASSUME NEW t \in Task, Ended(t) \/ RetireCommit(t) \/ RetireRefused(t) \/ Truncate(t)
       PROVE  \A u \in Task : JoinsAt(u)
  <2>1. \/ thread' = [thread EXCEPT ![t] = NoThread]
        \/ \E s \in {"retire", "truncate"} : Goto(t, s)
    BY <1>13 DEF Ended, RetireCommit, RetireRefused, Truncate
  <2> QED BY <1>6, <1>7, <1>8, <2>1
<1>14. CASE \/ UNCHANGED vars \/ Open \/ ReconcileOrphans \/ Resume \/ Hold \/ Release \/ Close
            \/ StorageFault
            \/ \E t \in Task, deps \in SUBSET Task : CreateTask(t, deps)
            \/ \E w \in Waiter : WaitForIdle(w) \/ \E t \in Task : WaitForTask(w, t)
            \/ Reserve \/ ReserveFails \/ DrainStops
  <2>1. thread' = thread
    BY <1>14 DEF vars, Open, ReconcileOrphans, Resume, Hold, Release, Close, StorageFault, CreateTask,
         WaitForIdle, WaitForTask, Reserve, ReserveFails, DrainStops
  <2> QED BY <1>1, <2>1
<1> QED BY <1>2, <1>3, <1>4, <1>5, <1>9, <1>10, <1>11, <1>12, <1>13, <1>14
        DEF Next, Lifecycle, Host, Drain, OnLine, Exit, Crash

\* kind.abort waits for the run it replaces, and nothing is dispatched twice.
THEOREM Joined == Spec => ExecutionsJoin
<1>1. IInv /\ [Next]_vars => \A t \in Task : JoinsAt(t) BY NextJoins
<1> QED BY <1>1, Invariance, PTL DEF Spec, ExecutionsJoin, JoinsAt

\* An in-flight phase is stored while its handler runs.
StoredAt(t) == task'[t].cp = "inflight" /\ task[t].cp # "inflight" => thread[t].stage = "handler"

LEMMA EndStores ==
  ASSUME TypeOK, NEW t \in Task, NEW o,
         \/ task' = [task EXCEPT ![t] = Over(@, o)]
         \/ \E n \in Task : task' = Created([task EXCEPT ![t] = Over(@, o)], n, {t})
  PROVE  \A u \in Task : StoredAt(u)
<1>1. task[t] \in TaskRecord BY DEF TypeOK
<1>2. Over(task[t], o).cp = "initial" BY <1>1 DEF Over, TaskRecord
<1>3. \A u \in Task : task'[u] \in {task[u], Over(task[t], o), [Absent EXCEPT !.status = "pending", !.after = {t}]}
  BY DEF TypeOK, Created
<1>4. [Absent EXCEPT !.status = "pending", !.after = {t}].cp = "initial" BY DEF Absent
<1> QED BY <1>2, <1>3, <1>4 DEF StoredAt

LEMMA NextStores == ASSUME IInv, [Next]_vars PROVE \A t \in Task : StoredAt(t)
<1>0. TypeOK /\ TableMatches /\ RecordMatches BY DEF IInv
<1>1. CASE task' = task BY <1>1 DEF StoredAt
<1>2. ASSUME NEW t \in Task, task'[t] = task[t] \/ task'[t].cp = task[t].cp \/ task'[t].cp # "inflight"
      PROVE  StoredAt(t)
  BY <1>2 DEF StoredAt
<1>3. CASE ReconcileOrphans
  <2>1. TAKE t \in Task
  <2>2. task'[t] \in {task[t], Over(task[t], "orphaned")} BY <1>3 DEF ReconcileOrphans, Commit
  <2>3. task[t] \in TaskRecord BY <1>0 DEF TypeOK
  <2>4. Over(task[t], "orphaned").cp = "initial" BY <2>3 DEF Over, TaskRecord
  <2> QED BY <1>2, <2>2, <2>4
<1>4. ASSUME NEW t \in Task, MarkTask(t) PROVE \A u \in Task : StoredAt(u)
  <2>1. task' = [task EXCEPT ![t].abort = TRUE] BY <1>4 DEF MarkTask, Commit
  <2>2. \A u \in Task : task'[u].cp = task[u].cp BY <1>0, <2>1 DEF TypeOK, TaskRecord
  <2> QED BY <1>2, <2>2
<1>5. ASSUME NEW t \in Task, NEW deps \in SUBSET Task, CreateTask(t, deps)
      PROVE  \A u \in Task : StoredAt(u)
  <2>1. task' = [task EXCEPT ![t] = [Absent EXCEPT !.status = "pending", !.after = deps]]
    BY <1>5 DEF CreateTask, Commit, Created
  <2>2. [Absent EXCEPT !.status = "pending", !.after = deps].cp = "initial" BY DEF Absent
  <2>3. \A u \in Task : task'[u] = task[u] \/ task'[u].cp = "initial" BY <1>0, <2>1, <2>2 DEF TypeOK
  <2> QED BY <1>2, <2>3
<1>6. CASE Reserve
  <2>1. TAKE t \in Task
  <2>2. task[t] \in TaskRecord BY <1>0 DEF TypeOK
  <2>3. task'[t] \in {task[t], [task[t] EXCEPT !.status = "running"]} BY <1>6 DEF Reserve
  <2>4. [task[t] EXCEPT !.status = "running"].cp = task[t].cp BY <2>2 DEF TaskRecord
  <2> QED BY <1>2, <2>3, <2>4
<1>7. ASSUME NEW t \in Task, HandlerCheckpoint(t) PROVE \A u \in Task : StoredAt(u)
  <2>1. thread[t].stage = "handler" BY <1>7 DEF HandlerCheckpoint
  <2>2. \A u \in Task \ {t} : task'[u] = task[u]
    BY <1>0, <1>7 DEF HandlerCheckpoint, Commit, TypeOK
  <2> QED BY <2>1, <2>2 DEF StoredAt
\* The commit left behind finds its handler running, or the phase already stored.
<1>8. ASSUME NEW t \in Task, StrayCommit(t) PROVE \A u \in Task : StoredAt(u)
  <2>1. CASE Commit([task EXCEPT ![t].cp = "inflight"]) /\ thread[t].stray = "live"
    <3>1. thread[t].stage = "handler" \/ task[t].cp = "inflight"
      BY <1>0, <2>1 DEF TableMatches, TableAt, RecordMatches, RecordAt
    <3>2. \A u \in Task \ {t} : task'[u] = task[u] BY <1>0, <2>1 DEF Commit, TypeOK
    <3> QED BY <3>1, <3>2 DEF StoredAt
  <2> QED BY <1>1, <1>8, <2>1 DEF StrayCommit
<1>9. ASSUME NEW t \in Task, NEW o,
             \/ Commit([task EXCEPT ![t] = Over(@, o)])
             \/ \E n \in known : Commit(Created([task EXCEPT ![t] = Over(@, o)], n, {t}))
      PROVE  \A u \in Task : StoredAt(u)
  <2>1. known \subseteq Task BY <1>0 DEF TypeOK
  <2>2. \/ task' = [task EXCEPT ![t] = Over(@, o)]
        \/ \E n \in Task : task' = Created([task EXCEPT ![t] = Over(@, o)], n, {t})
    BY <1>9, <2>1 DEF Commit
  <2> QED BY <1>0, <2>2, EndStores
<1>10. ASSUME NEW t \in Task, Transition(t) PROVE \A u \in Task : StoredAt(u)
  <2>1. \/ task' = task
        \/ Commit([task EXCEPT ![t].cp = "ready"])
        \/ \E o \in {"completed", "failed"} : Commit([task EXCEPT ![t] = Over(@, o)])
    BY <1>10 DEF Transition
  <2>2. CASE Commit([task EXCEPT ![t].cp = "ready"])
    <3>1. task' = [task EXCEPT ![t].cp = "ready"] BY <2>2 DEF Commit
    <3>2. \A u \in Task : task'[u] = task[u] \/ task'[u].cp = "ready"
      BY <1>0, <3>1 DEF TypeOK, TaskRecord
    <3> QED BY <1>2, <3>2
  <2> QED BY <1>1, <1>9, <2>1, <2>2
<1>11. ASSUME NEW t \in Task, CloseRun(t) \/ SettleAbort(t) \/ FaultTask(t)
       PROVE  \A u \in Task : StoredAt(u)
  <2>1. \/ task' = task
        \/ \E o \in {"completed", "failed", "aborted", "faulted"} :
             \/ Commit([task EXCEPT ![t] = Over(@, o)])
             \/ \E n \in known : Commit(Created([task EXCEPT ![t] = Over(@, o)], n, {t}))
    BY <1>11 DEF CloseRun, SettleAbort, FaultTask
  <2> QED BY <1>1, <1>9, <2>1
<1>12. CASE \/ UNCHANGED vars \/ Open \/ Resume \/ Hold \/ Release \/ Suspend \/ Close \/ Exit
            \/ Crash \/ StorageFault
            \/ \E w \in Waiter : WaitForIdle(w) \/ \E t \in Task : WaitForTask(w, t)
            \/ ReserveFails \/ DrainStops \/ Dispatch
  <2>1. UNCHANGED durable
    BY <1>12 DEF vars, durable, Open, Resume, Hold, Release, Suspend, Close, Exit, Crash, ProcessLost,
         StorageFault, WaitForIdle, WaitForTask, ReserveFails, DrainStops, Dispatch
  <2> QED BY <1>1, <2>1 DEF durable
<1>13. ASSUME NEW t \in Task,
              \/ HandlerNext(t) \/ HandlerDone(t) \/ HandlerThrow(t) \/ AbortHandlerReturns(t)
              \/ HandlerStray(t) \/ CommitRefused(t) \/ Ended(t) \/ RetireCommit(t)
              \/ RetireRefused(t) \/ Truncate(t)
       PROVE  \A u \in Task : StoredAt(u)
  <2>1. UNCHANGED durable
    BY <1>13 DEF durable, Quiet, HandlerNext, HandlerDone, HandlerThrow, AbortHandlerReturns,
         HandlerStray, CommitRefused, Ended, RetireCommit, RetireRefused, Truncate
  <2> QED BY <1>1, <2>1 DEF durable
<1> QED BY <1>3, <1>4, <1>5, <1>6, <1>7, <1>8, <1>10, <1>11, <1>12, <1>13
        DEF Next, Lifecycle, Host, Drain, Handler, OnLine

\* An in-flight phase is stored only while the handler of the task runs: a commit that
\* the handler left behind in the queue when it returned or threw stores none.
THEOREM StoredByHandler == Spec => CheckpointByHandler
<1>1. IInv /\ [Next]_vars => \A t \in Task : StoredAt(t) BY NextStores
<1> QED BY <1>1, Invariance, PTL DEF Spec, CheckpointByHandler, StoredAt
===============================================================================
