------------------------------ MODULE TaskKernel ------------------------------
(***************************************************************************)
(* The durable task kernel of packages/agent/src/harness/pico3: the session *)
(* line (session.ts), the scheduler (scheduler.ts) and the harness life     *)
(* cycle around them (harness.ts), for tasks of any kind.                   *)
(*                                                                          *)
(* `task' is the stored table of task records.  A session keeps it in       *)
(* memory too (liveTasks), updated on the line in the same step as the      *)
(* commit, so the model keeps one copy; everything else is lost in a crash. *)
(*                                                                          *)
(* Every line operation is one action, taken when the operation enters the  *)
(* line: until it leaves, no other one can, and what still can happen (a    *)
(* signal, a handler's return, a stop of the scheduler) changes nothing it  *)
(* reads later.  Its listeners (signals, waiters, kick) are part of it:     *)
(* they run one promise turn after the line is released, and no other       *)
(* operation completes in that turn.                                        *)
(***************************************************************************)
EXTENDS Naturals

CONSTANTS Task,            \* task identifiers
          Background,      \* the tasks created with background: true
          Waiter,          \* callers of waitForTask and waitForIdle
          Idle,            \* what a caller of waitForIdle waits for
          MaxDisruptions,  \* bound: crashes, storage failures, holds, suspends
          Strays           \* whether handlers leave commits of their own behind

ASSUME KernelAssumption ==
  /\ Background \subseteq Task
  /\ Idle \notin Task
  /\ MaxDisruptions \in Nat
  /\ Strays \in BOOLEAN

VARIABLES task,         \* the stored task records
          unrecorded,   \* history: tasks with an effect begun and no result stored
          session,      \* the session over the storage
          boot,         \* how far resume() has come
          known,        \* tasks whose kind is registered in this process
          enabled,      \* scheduler.enabled
          holds,        \* scheduler.holds
          dirty,        \* scheduler.dirty
          drain,        \* where drain() is; "off" when not draining
          reserved,     \* what reserveEligible returned to drain()
          inv,          \* scheduler.invocations: the mode of each task's entry
          thread,       \* what each task's dispatched execution is doing
          joining,      \* invocations joinAll() waits for
          waiter,       \* registered waiters
          disruptions   \* how many disruptions there have been

durable == <<task, unrecorded>>
control == <<session, boot, known, enabled, holds, joining>>
loop    == <<dirty, drain, reserved>>
vars    == <<task, unrecorded, session, boot, known, enabled, holds, dirty,
             drain, reserved, inv, thread, joining, waiter, disruptions>>

-------------------------------------------------------------------------------
Phases   == {"initial", "ready", "inflight"}
Outcomes == {"none", "completed", "failed", "aborted", "faulted", "orphaned"}
Modes    == {"none", "run", "abort"}

\* The stages of an execution: the async body of dispatch().
Stages == {"none",
           "handler",    \* a phase handler runs
           "effect",     \* it has stored its in-flight phase; the effect is under way
           "next",       \* it returned { next }; the transition waits for the line
           "close",      \* it returned { done }; the closing commit waits for the line
           "cleanup",    \* kind.abort runs
           "settle",     \* the aborting commit waits for the line
           "caught",     \* an error that no signal explains; the faulting commit waits
           "ending",     \* the finally block
           "retire",     \* session.retire: its commit waits for the line
           "truncate"}   \* session.retire: storage.truncate waits for the line

TaskRecord == [status : {"absent", "pending", "running", "terminal"},
               abort : BOOLEAN, cp : Phases, outcome : Outcomes, after : SUBSET Task]

ThreadRecord == [stage : Stages, mode : Modes, phase : Phases,
                 signalled : BOOLEAN, stray : {"none", "live", "revoked"}]

Reservation == [mode : Modes, phase : Phases]

WaiterRecord == [st : {"none", "waiting", "resolved"}, on : Task \cup {Idle}]

Absent == [status |-> "absent", abort |-> FALSE, cp |-> "initial",
           outcome |-> "none", after |-> {}]

NoThread == [stage |-> "none", mode |-> "none", phase |-> "initial",
             signalled |-> FALSE, stray |-> "none"]

NoReservation == [mode |-> "none", phase |-> "initial"]

NoWaiter == [st |-> "none", on |-> Idle]
Resolved == [st |-> "resolved", on |-> Idle]

\* A record with its outcome: setTask({ ..., status: "terminal", outcome }).
Over(r, o) == [r EXCEPT !.status = "terminal", !.outcome = o, !.cp = "initial"]

Exists(t)   == task[t].status # "absent"
Live(t)     == task[t].status \in {"pending", "running"}
Terminal(t) == task[t].status = "terminal"
Marked(t)   == Live(t) /\ task[t].abort

\* Faulty variant of Ready: the dependencies are not looked at.
ReadyAtOnce(t) == task[t].status = "pending"

Ready(t) == task[t].status = "pending" /\ \A d \in task[t].after : Terminal(d)

\* Faulty variant of Eligible: an abort does not wait for the run to be over.
EligibleBesideRun(t) ==
  IF ~Live(t) \/ t \notin known THEN "none"
  ELSE IF task[t].abort /\ inv[t] # "abort" THEN "abort"
  ELSE IF inv[t] = "none" /\ (Ready(t) \/ task[t].status = "running") THEN "run"
  ELSE "none"

\* The mode in which reserveEligible would reserve t now.
Eligible(t) ==
  IF ~Live(t) \/ t \notin known \/ inv[t] # "none" THEN "none"
  ELSE IF task[t].abort THEN "abort"
  ELSE IF Ready(t) \/ task[t].status = "running" THEN "run"
  ELSE "none"

\* isIdle(undefined): no live foreground task.
IsIdle(tasks) == \A t \in Task \ Background : tasks[t].status \notin {"pending", "running"}

Usable == session \in {"open", "suspending"}

\* A line operation can complete.  None does between reserveEligible and the
\* dispatch that follows it: drain() resumes three promise turns after its
\* commit, and every operation takes more than that.
LineFree == Usable /\ drain # "dispatch"

-------------------------------------------------------------------------------
(***************************************************************************)
(* kick(), checkIdle() and what the listeners of a commit do.              *)
(***************************************************************************)
Kick ==
  IF ~enabled THEN UNCHANGED <<dirty, drain>>
  ELSE IF holds = 0 /\ drain = "off"
       THEN drain' = "reserve" /\ dirty' = FALSE
       ELSE dirty' = TRUE /\ UNCHANGED drain

\* Wake every waiter whose task has ended, and the idle ones when checkIdle
\* finds the session idle and the scheduler not draining.
Wake(tasks, draining) ==
  waiter' = [w \in Waiter |->
    IF /\ waiter[w].st = "waiting"
       /\ \/ waiter[w].on # Idle /\ tasks[waiter[w].on].status = "terminal"
          \/ waiter[w].on = Idle /\ IsIdle(tasks) /\ ~draining
    THEN Resolved ELSE waiter[w]]

\* Faulty variant of Commit: the scheduler does not listen.
CommitUnheard(tasks) ==
  /\ task' = tasks
  /\ IF tasks = task THEN UNCHANGED waiter ELSE Wake(tasks, drain # "off")
  /\ UNCHANGED loop

\* A commit to the task table, with its listeners.  A commit that changes no
\* record writes nothing and tells nobody.
Commit(tasks) ==
  /\ task' = tasks
  /\ IF tasks = task THEN UNCHANGED <<dirty, drain, waiter>>
                     ELSE Kick /\ Wake(tasks, drain' # "off")
  /\ UNCHANGED reserved

\* Faulty variant of DrainEnds: checkIdle is not called.
DrainEndsSilently == drain' = "off" /\ UNCHANGED waiter

\* drain() leaves its loop.
DrainEnds == drain' = "off" /\ Wake(task, FALSE)

-------------------------------------------------------------------------------
(***************************************************************************)
(* Open, resume, hold, suspend, close, crash.                              *)
(***************************************************************************)
ProcessLost ==
  /\ session' = "down"
  /\ boot' = "fresh" /\ known' = {} /\ enabled' = FALSE /\ holds' = 0
  /\ dirty' = FALSE /\ drain' = "off" /\ reserved' = [t \in Task |-> NoReservation]
  /\ inv' = [t \in Task |-> "none"] /\ thread' = [t \in Task |-> NoThread]
  /\ joining' = {} /\ waiter' = [w \in Waiter |-> NoWaiter]
  /\ UNCHANGED durable

Disrupt == disruptions < MaxDisruptions /\ disruptions' = disruptions + 1

Crash == /\ session # "down"
         /\ Disrupt /\ ProcessLost

\* A closed or faulted session is of no more use; its process ends.
Exit == /\ session \in {"closed", "faulted"}
        /\ ProcessLost
        /\ UNCHANGED disruptions

\* Harness.open: the live records are loaded, nothing runs.  The set of kinds
\* registered may differ from the last process.
Open == /\ session = "down"
        /\ session' = "open"
        /\ \E S \in SUBSET Task : known' = S \cup {t \in Task : ~Exists(t)}
        /\ UNCHANGED <<durable, boot, enabled, holds, loop, inv, thread, joining,
                       waiter, disruptions>>

\* resume(), first half: live tasks of unregistered kinds end as orphans.
ReconcileOrphans ==
  /\ LineFree /\ boot = "fresh"
  /\ boot' = "reconciled"
  /\ Commit([t \in Task |-> IF Live(t) /\ t \notin known
                            THEN Over(task[t], "orphaned") ELSE task[t]])
  /\ unrecorded' = unrecorded \cap known
  /\ UNCHANGED <<session, known, enabled, holds, joining, inv, thread, disruptions>>

\* resume(), second half: scheduler.resume(), unless the harness is suspended.
Resume ==
  /\ session = "open" /\ boot = "reconciled"
  /\ boot' = "resumed"
  /\ enabled' = TRUE
  /\ IF holds = 0 /\ drain = "off"
     THEN drain' = "reserve" /\ dirty' = FALSE
     ELSE dirty' = TRUE /\ UNCHANGED drain
  /\ UNCHANGED <<durable, session, known, holds, joining, reserved, inv, thread,
                 waiter, disruptions>>

\* Harness.hold(): only while no invocation is registered.
Hold == /\ Usable /\ \A t \in Task : inv[t] = "none"
        /\ Disrupt
        /\ holds' = holds + 1
        /\ UNCHANGED <<durable, session, boot, known, enabled, joining, loop, inv, thread,
                       waiter>>

\* Faulty variants of Release: called twice for one hold; without the kick.
ReleaseTwice ==
  /\ session # "down"
  /\ holds' = holds - 1
  /\ UNCHANGED <<durable, session, boot, known, enabled, joining, loop, inv, thread,
                 waiter, disruptions>>

ReleaseUnheard ==
  /\ session # "down" /\ holds > 0
  /\ holds' = holds - 1
  /\ UNCHANGED <<durable, session, boot, known, enabled, joining, loop, inv, thread,
                 waiter, disruptions>>

Release ==
  /\ session # "down" /\ holds > 0
  /\ holds' = holds - 1
  /\ IF holds > 1 \/ ~enabled THEN UNCHANGED <<dirty, drain>>
     ELSE IF drain = "off" THEN drain' = "reserve" /\ dirty' = FALSE
     ELSE dirty' = TRUE /\ UNCHANGED drain
  /\ UNCHANGED <<durable, session, boot, known, enabled, joining, reserved, inv, thread,
                 waiter, disruptions>>

\* suspend(): joinAll() stops the scheduler and signals every invocation.
Suspend ==
  /\ session = "open"
  /\ Disrupt
  /\ session' = "suspending"
  /\ enabled' = FALSE
  /\ joining' = {t \in Task : inv[t] # "none"}
  /\ thread' = [t \in Task |-> IF inv[t] = "none" THEN thread[t]
                               ELSE [thread[t] EXCEPT !.signalled = TRUE]]
  /\ UNCHANGED <<durable, boot, known, holds, loop, inv, waiter>>

\* suspend(): when the joined executions are over, session.close().
Close == /\ session = "suspending"
         /\ \A t \in joining : thread[t].stage = "none"
         /\ session' = "closed"
         /\ UNCHANGED <<durable, boot, known, enabled, holds, joining, loop, inv, thread,
                        waiter, disruptions>>

\* storage.commit rejects inside some commit: the session is faulted.
StorageFault ==
  /\ Usable
  /\ Disrupt
  /\ session' = "faulted"
  /\ UNCHANGED <<durable, boot, known, enabled, holds, joining, loop, inv, thread,
                 waiter>>

-------------------------------------------------------------------------------
(***************************************************************************)
(* Host operations.                                                        *)
(***************************************************************************)
Created(tasks, t, deps) ==
  [tasks EXCEPT ![t] = [Absent EXCEPT !.status = "pending", !.after = deps]]

CreateTask(t, deps) ==
  /\ LineFree
  /\ ~Exists(t) /\ t \in known
  /\ deps \subseteq {d \in Task : Exists(d)}
  /\ Commit(Created(task, t, deps))
  /\ UNCHANGED <<unrecorded, control, inv, thread, disruptions>>

\* abortTask and markTask: mark the record; the listener signals a run.
MarkTask(t) ==
  /\ LineFree
  /\ Live(t) /\ ~task[t].abort
  /\ Commit([task EXCEPT ![t].abort = TRUE])
  /\ thread' = IF inv[t] = "run" THEN [thread EXCEPT ![t].signalled = TRUE] ELSE thread
  /\ UNCHANGED <<unrecorded, control, inv, disruptions>>

\* waitForTask: read and register in one line operation.
WaitForTask(w, t) ==
  /\ LineFree /\ waiter[w].st = "none" /\ Exists(t)
  /\ waiter' = [waiter EXCEPT ![w] = IF Live(t) THEN [st |-> "waiting", on |-> t] ELSE Resolved]
  /\ UNCHANGED <<durable, control, loop, inv, thread, disruptions>>

WaitForIdle(w) ==
  /\ LineFree /\ waiter[w].st = "none"
  /\ waiter' = [waiter EXCEPT ![w] = IF IsIdle(task) THEN Resolved ELSE [st |-> "waiting", on |-> Idle]]
  /\ UNCHANGED <<durable, control, loop, inv, thread, disruptions>>

-------------------------------------------------------------------------------
(***************************************************************************)
(* drain(): reserve on the line, then dispatch, while dirty.               *)
(***************************************************************************)
\* Faulty variant of Reserve: a running task starts over.
ReserveAfresh ==
  /\ drain = "reserve" /\ Usable
  /\ drain' = "dispatch"
  /\ reserved' = [t \in Task |-> [mode |-> Eligible(t), phase |-> "initial"]]
  /\ task' = [t \in Task |-> IF Eligible(t) # "none" THEN [task[t] EXCEPT !.status = "running"]
                             ELSE task[t]]
  /\ dirty' = (dirty \/ (enabled /\ task' # task))
  /\ UNCHANGED <<unrecorded, control, inv, thread, waiter, disruptions>>

Reserve ==
  /\ drain = "reserve" /\ Usable
  /\ drain' = "dispatch"
  /\ reserved' = [t \in Task |-> [mode |-> Eligible(t), phase |-> task[t].cp]]
  /\ task' = [t \in Task |-> IF Eligible(t) # "none" THEN [task[t] EXCEPT !.status = "running"]
                             ELSE task[t]]
  /\ dirty' = (dirty \/ (enabled /\ task' # task))
  /\ UNCHANGED <<unrecorded, control, inv, thread, waiter, disruptions>>

\* The commit of reserveEligible throws: the session is closed or faulted.
ReserveFails ==
  /\ drain = "reserve" /\ session \in {"closed", "faulted"}
  /\ DrainEnds
  /\ UNCHANGED <<durable, control, dirty, reserved, inv, thread, disruptions>>

\* stop(), joinAll() or hold() came in between: what was reserved is dropped
\* and will be found again, running and without an invocation.
DrainStops ==
  /\ drain = "dispatch" /\ (~enabled \/ holds > 0)
  /\ dirty' = TRUE
  /\ DrainEnds
  /\ reserved' = [t \in Task |-> NoReservation]
  /\ UNCHANGED <<durable, control, inv, thread, disruptions>>

Started(r) == [stage |-> IF r.mode = "run" THEN "handler" ELSE "cleanup", mode |-> r.mode,
               phase |-> r.phase, signalled |-> FALSE, stray |-> "none"]

\* Faulty variant of Dispatch: the loop does not look again whether it may go on.
DispatchAnyway ==
  /\ drain = "dispatch"
  /\ thread' = [t \in Task |-> IF reserved[t].mode = "none" THEN thread[t] ELSE Started(reserved[t])]
  /\ inv' = [t \in Task |-> IF reserved[t].mode = "none" THEN inv[t] ELSE reserved[t].mode]
  /\ reserved' = [t \in Task |-> NoReservation]
  /\ IF dirty THEN dirty' = FALSE /\ drain' = "reserve" /\ UNCHANGED waiter
              ELSE UNCHANGED dirty /\ DrainEnds
  /\ UNCHANGED <<durable, control, disruptions>>

Dispatch ==
  /\ drain = "dispatch" /\ enabled /\ holds = 0
  /\ thread' = [t \in Task |-> IF reserved[t].mode = "none" THEN thread[t] ELSE Started(reserved[t])]
  /\ inv' = [t \in Task |-> IF reserved[t].mode = "none" THEN inv[t] ELSE reserved[t].mode]
  /\ reserved' = [t \in Task |-> NoReservation]
  /\ IF dirty THEN dirty' = FALSE /\ drain' = "reserve" /\ UNCHANGED waiter
              ELSE UNCHANGED dirty /\ DrainEnds
  /\ UNCHANGED <<durable, control, disruptions>>

-------------------------------------------------------------------------------
(***************************************************************************)
(* A run: handlers, their own commits, transitions, the closing commit.    *)
(***************************************************************************)
Goto(t, stage) == thread' = [thread EXCEPT ![t].stage = stage]

\* Faulty variant of Returns: the capability outlives the handler.
ReturnsUnrevoked(t, stage) == Goto(t, stage)

\* The handler's promise settles: its capability is revoked with it.
Returns(t, stage) ==
  thread' = [thread EXCEPT ![t].stage = stage,
                           ![t].stray = IF @ = "none" THEN "none" ELSE "revoked"]

\* An error reaches dispatch's catch, which keeps quiet after a signal.
Throws(t) == Returns(t, IF thread[t].signalled THEN "ending" ELSE "caught")

Quiet == UNCHANGED <<durable, control, loop, inv, waiter, disruptions>>

InHandler(t) == thread[t].stage \in {"handler", "effect"}

\* A run invocation's commit is refused once the task is marked or over, and
\* every commit is refused on a closed or faulted session.
RunMayCommit(t) == Live(t) /\ ~task[t].abort

\* Faulty variant of HandlerCheckpoint: the effect begins before its phase is stored.
EffectFirst(t) ==
  /\ thread[t].stage = "handler" /\ LineFree /\ RunMayCommit(t) /\ ~thread[t].signalled
  /\ unrecorded' = unrecorded \cup {t}
  /\ Goto(t, "effect")
  /\ UNCHANGED <<task, loop, waiter, control, inv, disruptions>>

\* rt.commit: store the in-flight phase, then begin the effect.
HandlerCheckpoint(t) ==
  /\ thread[t].stage = "handler" /\ LineFree /\ RunMayCommit(t) /\ ~thread[t].signalled
  /\ Commit([task EXCEPT ![t].cp = "inflight"])
  /\ unrecorded' = unrecorded \cup {t}
  /\ Goto(t, "effect")
  /\ UNCHANGED <<control, inv, disruptions>>

HandlerNext(t)  == InHandler(t) /\ Returns(t, "next") /\ Quiet
HandlerDone(t)  == InHandler(t) /\ Returns(t, "close") /\ Quiet
HandlerThrow(t) == InHandler(t) /\ Throws(t) /\ Quiet

\* A handler starts an rt.commit and does not wait for it.
HandlerStray(t) ==
  /\ Strays
  /\ thread[t].stage = "handler" /\ thread[t].stray = "none"
  /\ thread' = [thread EXCEPT ![t].stray = "live"]
  /\ Quiet

\* That commit reaches the line: it writes only under a token still alive.
StrayCommit(t) ==
  /\ thread[t].stray # "none" /\ drain # "dispatch"
  /\ IF Usable /\ thread[t].stray = "live" /\ RunMayCommit(t)
     THEN /\ Commit([task EXCEPT ![t].cp = "inflight"])
          /\ unrecorded' = unrecorded \cup {t}
          /\ thread' = [thread EXCEPT ![t].stray = "none",
                                      ![t].stage = IF @ = "handler" THEN "effect" ELSE @]
     ELSE /\ thread' = [thread EXCEPT ![t].stray = "none"]
          /\ UNCHANGED <<task, unrecorded, loop, waiter>>
  /\ UNCHANGED <<control, inv, disruptions>>

\* The transition commit of runPhases.  The step may be a checkpoint, "retry",
\* a completion, or throw (an unknown or in-flight phase is a contract fault).
Transition(t) ==
  /\ thread[t].stage = "next" /\ LineFree
  /\ IF ~RunMayCommit(t) \/ thread[t].signalled
     THEN /\ Goto(t, "ending")
          /\ UNCHANGED <<task, unrecorded, dirty, drain, reserved, waiter>>
     ELSE \/ /\ Commit([task EXCEPT ![t].cp = "ready"])
             /\ unrecorded' = unrecorded \ {t}
             /\ thread' = [thread EXCEPT ![t].stage = "handler", ![t].phase = "ready"]
          \/ /\ thread' = [thread EXCEPT ![t].stage = "handler", ![t].phase = task[t].cp]
             /\ UNCHANGED <<task, unrecorded, dirty, drain, reserved, waiter>>
          \/ /\ \E o \in {"completed", "failed"} :
                  Commit([task EXCEPT ![t] = Over(@, o)])
             /\ unrecorded' = unrecorded \ {t}
             /\ Goto(t, "ending")
          \/ /\ Goto(t, "caught")
             /\ UNCHANGED <<task, unrecorded, dirty, drain, reserved, waiter>>
  /\ UNCHANGED <<control, inv, disruptions>>

\* The closing commit of a run: the outcome, and possibly a successor task.
CloseRun(t) ==
  /\ thread[t].stage = "close" /\ LineFree
  /\ IF ~RunMayCommit(t) \/ thread[t].signalled
     THEN /\ Goto(t, "ending")
          /\ UNCHANGED <<task, unrecorded, dirty, drain, reserved, waiter>>
     ELSE \/ /\ \E o \in {"completed", "failed"} :
                  LET ended == [task EXCEPT ![t] = Over(@, o)]
                  IN  \/ Commit(ended)
                      \/ \E n \in known : ~Exists(n) /\ Commit(Created(ended, n, {t}))
             /\ unrecorded' = unrecorded \ {t}
             /\ Goto(t, "ending")
          \/ /\ Goto(t, "caught")
             /\ UNCHANGED <<task, unrecorded, dirty, drain, reserved, waiter>>
  /\ UNCHANGED <<control, inv, disruptions>>

-------------------------------------------------------------------------------
(***************************************************************************)
(* An abort: kind.abort, then its closing commit.                          *)
(***************************************************************************)
AbortHandlerReturns(t) ==
  /\ thread[t].stage = "cleanup"
  /\ Goto(t, "settle") \/ Throws(t)
  /\ Quiet

SettleAbort(t) ==
  /\ thread[t].stage = "settle" /\ LineFree
  /\ IF thread[t].signalled \/ ~Live(t)
     THEN Goto(t, "ending") /\ UNCHANGED <<task, unrecorded, dirty, drain, reserved, waiter>>
     ELSE \/ /\ Commit([task EXCEPT ![t] = Over(@, "aborted")])
             /\ unrecorded' = unrecorded \ {t}
             /\ Goto(t, "ending")
          \/ /\ Goto(t, "caught")
             /\ UNCHANGED <<task, unrecorded, dirty, drain, reserved, waiter>>
  /\ UNCHANGED <<control, inv, disruptions>>

-------------------------------------------------------------------------------
(***************************************************************************)
(* Errors, the finally block, retirement.                                  *)
(***************************************************************************)
\* A waiting commit is refused by a closed or faulted session.
CommitRefused(t) ==
  /\ session \in {"closed", "faulted"}
  /\ thread[t].stage \in {"next", "close", "settle", "caught"}
  /\ Goto(t, IF thread[t].stage = "caught" \/ thread[t].signalled THEN "ending" ELSE "caught")
  /\ Quiet

FaultTask(t) ==
  /\ thread[t].stage = "caught" /\ LineFree
  /\ IF Live(t)
     THEN /\ Commit([task EXCEPT ![t] = Over(@, "faulted")])
          /\ unrecorded' = unrecorded \ {t}
     ELSE UNCHANGED <<task, unrecorded, dirty, drain, reserved, waiter>>
  /\ Goto(t, "ending")
  /\ UNCHANGED <<control, inv, disruptions>>

\* Faulty variant of Ended: the finally block does not kick.
EndedUnheard(t) ==
  /\ thread[t].stage = "ending"
  /\ inv' = [inv EXCEPT ![t] = "none"]
  /\ IF Live(t) THEN thread' = [thread EXCEPT ![t] = NoThread] ELSE Goto(t, "retire")
  /\ UNCHANGED <<durable, control, loop, waiter, disruptions>>

\* The finally block: drop the invocation, retire a finished task, kick.
Ended(t) ==
  /\ thread[t].stage = "ending"
  /\ inv' = [inv EXCEPT ![t] = "none"]
  /\ IF Live(t)
     THEN thread' = [thread EXCEPT ![t] = NoThread] /\ Kick
     ELSE Goto(t, "retire") /\ UNCHANGED <<dirty, drain>>
  /\ UNCHANGED <<durable, control, reserved, waiter, disruptions>>

\* session.retire: delete the slot (and request a base when nothing lives).
RetireCommit(t) ==
  /\ thread[t].stage = "retire" /\ LineFree
  /\ \/ Goto(t, "truncate") /\ UNCHANGED <<dirty, drain>>
     \/ thread' = [thread EXCEPT ![t] = NoThread] /\ Kick
  /\ UNCHANGED <<durable, control, reserved, inv, waiter, disruptions>>

RetireRefused(t) ==
  /\ thread[t].stage = "retire" /\ session \in {"closed", "faulted"}
  /\ thread' = [thread EXCEPT ![t] = NoThread]
  /\ Kick
  /\ UNCHANGED <<durable, control, reserved, inv, waiter, disruptions>>

\* session.retire: rewrite the sticky file.  This line operation goes through
\* enter() alone, which does not ask whether the session is still usable.
Truncate(t) ==
  /\ thread[t].stage = "truncate" /\ drain # "dispatch"
  /\ thread' = [thread EXCEPT ![t] = NoThread]
  /\ Kick
  /\ UNCHANGED <<durable, control, reserved, inv, waiter, disruptions>>

-------------------------------------------------------------------------------
Init ==
  /\ task = [t \in Task |-> Absent]
  /\ unrecorded = {}
  /\ session = "down" /\ boot = "fresh" /\ known = {} /\ enabled = FALSE /\ holds = 0
  /\ dirty = FALSE /\ drain = "off" /\ reserved = [t \in Task |-> NoReservation]
  /\ inv = [t \in Task |-> "none"] /\ thread = [t \in Task |-> NoThread]
  /\ joining = {} /\ waiter = [w \in Waiter |-> NoWaiter]
  /\ disruptions = 0

Handler(t) == \/ HandlerCheckpoint(t) \/ HandlerNext(t) \/ HandlerDone(t)
              \/ HandlerThrow(t) \/ AbortHandlerReturns(t)

OnLine(t) == \/ Transition(t) \/ CloseRun(t) \/ SettleAbort(t) \/ CommitRefused(t)
             \/ FaultTask(t) \/ Ended(t) \/ RetireCommit(t)
             \/ RetireRefused(t) \/ Truncate(t)

Drain == Reserve \/ ReserveFails \/ DrainStops \/ Dispatch

Lifecycle == \/ Open \/ ReconcileOrphans \/ Resume \/ Hold \/ Release \/ Suspend
             \/ Close \/ Exit \/ Crash \/ StorageFault

Host == \/ \E t \in Task : MarkTask(t)
        \/ \E t \in Task, deps \in SUBSET Task : CreateTask(t, deps)
        \/ \E w \in Waiter : WaitForIdle(w) \/ \E t \in Task : WaitForTask(w, t)

Next == \/ Lifecycle
        \/ Host
        \/ Drain
        \/ \E t \in Task : Handler(t) \/ HandlerStray(t) \/ StrayCommit(t) \/ OnLine(t)

Spec == Init /\ [][Next]_vars

\* Handlers settle, the first-in-first-out line serves what waits on it, the
\* host reopens and resumes what went down, and a hold is released.
Fairness ==
  /\ \A t \in Task : /\ WF_vars(HandlerNext(t) \/ HandlerDone(t) \/ HandlerThrow(t)
                                 \/ AbortHandlerReturns(t))
                     /\ SF_vars(OnLine(t))
  /\ WF_vars(Drain)
  /\ WF_vars(Open \/ ReconcileOrphans \/ Resume \/ Close \/ Exit)
  /\ WF_vars(Release)

FairSpec == Spec /\ Fairness

-------------------------------------------------------------------------------
(***************************************************************************)
(* Properties.                                                             *)
(***************************************************************************)
TypeOK ==
  /\ task \in [Task -> TaskRecord]
  /\ unrecorded \subseteq Task
  /\ session \in {"down", "open", "suspending", "closed", "faulted"}
  /\ boot \in {"fresh", "reconciled", "resumed"}
  /\ known \subseteq Task
  /\ enabled \in BOOLEAN
  /\ holds \in Nat
  /\ dirty \in BOOLEAN
  /\ drain \in {"off", "reserve", "dispatch"}
  /\ reserved \in [Task -> Reservation]
  /\ inv \in [Task -> Modes]
  /\ thread \in [Task -> ThreadRecord]
  /\ joining \subseteq Task
  /\ waiter \in [Waiter -> WaiterRecord]
  /\ disruptions \in Nat

RunStages == {"handler", "effect", "next", "close"}
AbortStages == {"cleanup", "settle"}
Executing(t) == thread[t].stage \notin {"none", "retire", "truncate"}

\* kind.abort runs only for a task whose mark is stored, and a phase handler
\* never works from a checkpoint that is not the stored one (dispatch of what
\* reserveEligible read, transitions, retries, recovery at open).
HandlersSeeStoredState ==
  \A t \in Task :
    /\ thread[t].stage \in AbortStages => Marked(t) /\ task[t].status = "running"
    /\ thread[t].stage = "handler" => /\ task[t].status = "running"
                                      /\ task[t].cp = thread[t].phase

\* An effect that was begun and whose result is not stored is found again by
\* the in-flight phase of a running task, whatever crashed, was suspended or
\* was marked in between.
EffectRemembered ==
  \A t \in unrecorded : task[t].status = "running" /\ task[t].cp = "inflight"

\* No lost wake-up: a resumed scheduler that is not held and not draining has
\* left no task behind that it could start, run on, or abort.
NothingOverlooked ==
  enabled /\ holds = 0 /\ drain = "off" /\ Usable => \A t \in Task : Eligible(t) = "none"

\* A caller of waitForTask is never left waiting for a task that is over, nor
\* a caller of waitForIdle in an idle session, except until drain() returns.
WaitersWoken ==
  Usable => \A w \in Waiter : waiter[w].st = "waiting" =>
    IF waiter[w].on = Idle THEN ~IsIdle(task) \/ drain # "off" ELSE Live(waiter[w].on)

\* After suspend() has closed the storage no handler of this process is still
\* running, not even one the scheduler was about to start; and none runs while
\* a caller of hold() relies on quiescence.
StoppedMeansStopped ==
  (session = "closed" \/ holds > 0) => \A t \in Task : ~Executing(t)

\* An execution starts only where none is: kind.abort waits for the run it
\* replaces, and no task is dispatched twice.
ExecutionsJoin ==
  [][\A t \in Task : thread'[t] # thread[t] /\ thread'[t].stage \in {"handler", "cleanup"}
                        => \/ thread[t].stage \in {"none", "next"}
                           \/ thread'[t].stage = thread[t].stage]_vars

\* A phase handler's capability ends with the handler: an in-flight phase is
\* stored only by a commit that reaches the line while its handler still runs,
\* never by one that the handler left behind in the queue.
CheckpointByHandler ==
  [][\A t \in Task : task'[t].cp = "inflight" /\ task[t].cp # "inflight"
                        => thread[t].stage = "handler"]_vars

\* Across crashes, suspends, faults and races a task's stored record follows
\* the lifecycle: it starts after its dependencies, is marked for good, and a
\* marked task never completes or fails.
Records == INSTANCE TaskLifecycle WITH
  rec <- [t \in Task |-> [status |-> task[t].status, abort |-> task[t].abort,
                          outcome |-> task[t].outcome, after |-> task[t].after]]

FollowsLifecycle == Records!Spec

\* Every marked task ends, whatever it was doing.
MarkedEnds == \A t \in Task : Marked(t) ~> Terminal(t)

\* A task whose dependencies are over is started (or ended).
ReadyStarts == \A t \in Task : Ready(t) ~> task[t].status # "pending"
===============================================================================
