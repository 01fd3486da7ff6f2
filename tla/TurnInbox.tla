------------------------------ MODULE TurnInbox ------------------------------
(***************************************************************************)
(* The inbox of one conversation of packages/agent/src/harness/pico3 and   *)
(* the turn that empties it: admission and boundaries (session.ts), the    *)
(* closing commits of pi.generation, pi.tool and pi.post_tools (kinds/),   *)
(* abort (harness.ts) and the fault of a turn task (scheduler.ts).         *)
(*                                                                         *)
(* Every action is one commit of the session, which TaskKernel runs one at *)
(* a time; when a task is dispatched, signalled and joined is left to it.  *)
(* Here a marked task no longer closes, and is aborted some time later.    *)
(*                                                                         *)
(* The inbox is kept in order of identifier and every boundary sorts it,   *)
(* so it is the set of its identifiers.  The retries of one generation and *)
(* the entries of a collapse are in Transcript.                            *)
(***************************************************************************)
EXTENDS Naturals, Sequences, FiniteSetsExt

CONSTANTS MaxInputs,       \* bound: inputs accepted
          MaxCalls,        \* bound: tool calls of one assistant message
          Safe,            \* the calls whose tool declares replay: "safe"
          MaxRounds,       \* bound: assistant messages that do not end a turn
          MaxDisruptions   \* bound: aborts, faults, crashes

ASSUME InboxAssumption ==
  /\ MaxInputs \in Nat /\ MaxCalls \in Nat /\ MaxRounds \in Nat /\ MaxDisruptions \in Nat
  /\ Safe \subseteq Nat

VARIABLES input,        \* the stored inputs
          inbox,        \* sticky.inbox: the identifiers of what is queued
          entries,      \* the transcript, without what no property tells apart
          task,         \* the live tasks, and the ended ones a live task waits for
          hurt,         \* history: an abort or a fault since the last boundary
          rounds,       \* how many assistant messages have not ended a turn
          disruptions   \* how many disruptions there have been

vars == <<input, inbox, entries, task, hurt, rounds, disruptions>>

-------------------------------------------------------------------------------
InputId == 1..MaxInputs
CallId  == 1..MaxCalls
TaskId  == 1..(MaxCalls + 3)

Steering == {"steer", "followUp"}
Writing  == {"write", "reset"}      \* reset: a write of an entry with head "self"
Modes    == Steering \cup Writing
Controls == {"none", "terminate", "handoff"}
Statuses == {"absent", "queued", "placed", "done", "unanswered"}
Kinds    == {"none", "pi.generation", "pi.tool", "pi.post_tools", "pi.collapse"}

\* Where a tool task is: `started' is stored before the effect begins, and a
\* task found in it at open is "interrupted".
Phases == {"initial", "started", "executing", "interrupted"}

Entry == [kind : {"user", "write", "reset", "handoff", "notice", "calls", "result", "assistant", "continue"},
          of : Nat]    \* the input of a user, write or reset entry, the calls of
                       \* an assistant, the call of a result

InputRecord == [status : Statuses, mode : Modes, waited : BOOLEAN, answer : Nat]

TaskRecord == [kind : Kinds, live : BOOLEAN, mark : BOOLEAN, inputs : SUBSET InputId,
               after : SUBSET TaskId, call : 0..MaxCalls, phase : Phases, runs : Nat,
               entry : BOOLEAN, control : Controls, joins : BOOLEAN]

NoInput == [status |-> "absent", mode |-> "followUp", waited |-> FALSE, answer |-> 0]

NoTask == [kind |-> "none", live |-> FALSE, mark |-> FALSE, inputs |-> {}, after |-> {},
           call |-> 0, phase |-> "initial", runs |-> 0, entry |-> FALSE,
           control |-> "none", joins |-> FALSE]

Generation(ids) == [NoTask EXCEPT !.kind = "pi.generation", !.live = TRUE, !.inputs = ids]

IsTurn(t) == task[t].kind \in {"pi.generation", "pi.tool", "pi.post_tools"}

\* busy(): the conversation has a live turn task.
Busy == \E t \in TaskId : task[t].live /\ IsTurn(t)

\* The identifier the next accepted input gets.
NextId == Cardinality({i \in InputId : input[i].status # "absent"}) + 1

InState(s) == {i \in InputId : input[i].status = s}

\* Where the entry of an input is in the transcript.
EntryOf(i) == CHOOSE p \in DOMAIN entries : entries[p].kind \in {"user", "write", "reset"}
                                            /\ entries[p].of = i

SelfHead(p) == entries[p].kind \in {"reset", "handoff"}

InOrder(s) == \A k, l \in DOMAIN s : k < l => s[k] < s[l]

\* The members of a set of numbers in order.
Sorted(S) == CHOOSE s \in [1..Cardinality(S) -> S] : InOrder(s)

\* A task may run: what it waits for is over.
Ready(t) == task[t].live /\ \A d \in task[t].after : ~task[d].live

\* It may close: abort !== true.
Runs(t, kind) == Ready(t) /\ task[t].kind = kind /\ ~task[t].mark

-------------------------------------------------------------------------------
(***************************************************************************)
(* Tasks come and go.                                                      *)
(***************************************************************************)
\* The ended task stays while a live one waits for it.
End(f, t) ==
  LET g == [f EXCEPT ![t].live = FALSE, ![t].inputs = {}]
  IN [u \in TaskId |->
        IF g[u].live \/ \E v \in TaskId : g[v].live /\ u \in g[v].after THEN g[u] ELSE NoTask]

Free(f) == {t \in TaskId : f[t] = NoTask}

\* n free places of a task table, in order, and whether there are as many.
Room(f, n)   == \E s \in [1..n -> Free(f)] : InOrder(s)
Places(f, n) == CHOOSE s \in [1..n -> Free(f)] : InOrder(s)

Create(f, r) == Room(f, 1) /\ task' = [f EXCEPT ![Places(f, 1)[1]] = r]

\* createTask({ kind: "pi.generation", input: { inputs } }), when there are some.
CreateFor(f, ids) == IF ids = {} THEN task' = f ELSE Create(f, Generation(ids))

-------------------------------------------------------------------------------
(***************************************************************************)
(* boundary(): what it selects from the inbox and where it puts it.        *)
(***************************************************************************)
ModeIs(i, modes) == input[i].mode \in modes

\* The last queued write that is a self head; 0 when there is none.
Cut == LET heads == {i \in inbox : ModeIs(i, {"reset"})}
       IN IF heads = {} THEN 0 ELSE Max(heads)

Stale == {i \in inbox : ModeIs(i, Steering) /\ i < Cut}

\* What the queue mode of `mode' may let through: everything, or the oldest.
Picks(mode) ==
  LET items == {i \in inbox \ Stale : ModeIs(i, {mode})}
  IN {items, {i \in items : \A j \in items : i <= j}}

QueuedWrites == {i \in inbox : ModeIs(i, Writing)}

\* What a boundary may place: one set for each pair of queue modes ("all",
\* "one-at-a-time"), which are sticky state and may have been set to either.
Selections(at) ==
  {QueuedWrites \cup s \cup f :
     s \in Picks("steer"), f \in IF at = "final" THEN Picks("followUp") ELSE {{}}}

Triggers(placed) == {i \in placed : ModeIs(i, Steering)}

EntryKind(i) == IF ModeIs(i, Steering) THEN "user" ELSE input[i].mode

Entries(ids) ==
  LET order == Sorted(ids)
  IN [k \in DOMAIN order |-> [kind |-> EntryKind(order[k]), of |-> order[k]]]

\* The inputs after a boundary that places `placed'.
Moved(placed) ==
  [i \in InputId |->
     IF i \in Stale THEN [input[i] EXCEPT !.status = "unanswered"]
     ELSE IF i \in placed
          THEN [input[i] EXCEPT !.status = IF ModeIs(i, Writing) THEN "done" ELSE "placed"]
          ELSE input[i]]

\* resolveInputs.
Settled(in, ids, status, answer) ==
  [i \in InputId |-> IF i \in ids THEN [in[i] EXCEPT !.status = status, !.answer = answer]
                     ELSE in[i]]

\* Faulty variant of Boundary: what is stale stays in the inbox.
BoundaryKeepsStale(placed) == inbox' = inbox \ placed /\ hurt' = FALSE

Boundary(placed) == inbox' = inbox \ (placed \cup Stale) /\ hurt' = FALSE

-------------------------------------------------------------------------------
(***************************************************************************)
(* Admission.                                                              *)
(***************************************************************************)
Queue(mode) ==
  /\ NextId <= MaxInputs
  /\ Busy
  /\ input' = [input EXCEPT ![NextId] =
       [status |-> "queued", mode |-> mode, waited |-> TRUE, answer |-> 0]]
  /\ inbox' = inbox \cup {NextId}
  /\ UNCHANGED <<entries, task, hurt, rounds, disruptions>>

\* send() to an idle conversation: older queued items first, then this one.
SendIdle ==
  /\ NextId <= MaxInputs
  /\ ~Busy
  /\ \E placed \in Selections("final") :
       /\ input' = [Moved(placed) EXCEPT ![NextId] = [NoInput EXCEPT !.status = "placed"]]
       /\ Boundary(placed)
       /\ entries' = entries \o Entries(placed) \o <<[kind |-> "user", of |-> NextId]>>
       /\ Create(task, Generation(Triggers(placed) \cup {NextId}))
  /\ UNCHANGED <<rounds, disruptions>>

\* write() and reset() on an idle conversation do not look at the inbox.
WriteIdle(mode) ==
  /\ NextId <= MaxInputs
  /\ ~Busy
  /\ input' = [input EXCEPT ![NextId] = [NoInput EXCEPT !.status = "done", !.mode = mode]]
  /\ entries' = Append(entries, [kind |-> mode, of |-> NextId])
  /\ UNCHANGED <<inbox, task, hurt, rounds, disruptions>>

Send == SendIdle \/ \E mode \in Steering : Queue(mode)

Write == \E mode \in Writing : WriteIdle(mode) \/ Queue(mode)

\* Faulty variant of Withdraw: whatever became of the input.
WithdrawAny(i) ==
  /\ input[i].status # "absent"
  /\ inbox' = inbox \ {i}
  /\ input' = Settled(input, {i}, "unanswered", 0)
  /\ UNCHANGED <<entries, task, hurt, rounds, disruptions>>

\* withdrawInput.
Withdraw(i) ==
  /\ input[i].status = "queued"
  /\ inbox' = inbox \ {i}
  /\ input' = Settled(input, {i}, "unanswered", 0)
  /\ UNCHANGED <<entries, task, hurt, rounds, disruptions>>

-------------------------------------------------------------------------------
(***************************************************************************)
(* pi.generation.                                                          *)
(***************************************************************************)
Round == rounds < MaxRounds /\ rounds' = rounds + 1

\* Faulty variant of Answered: so is what the boundary has just placed.
AnsweredWithNext(t, next) == task[t].inputs \cup next

\* What a final answer answers: the group that its generation was asked to.
Answered(t, next) == task[t].inputs

\* The closing commit of a final answer.  `continue' is what onYield returned.
AnswerFinal(t) ==
  /\ Runs(t, "pi.generation")
  /\ \E placed \in Selections("final"), continue \in BOOLEAN :
       LET next     == Triggers(placed)
           goesOn   == continue /\ next = {} /\ Cut = 0
           answered == Append(entries, [kind |-> "assistant", of |-> 0]) \o Entries(placed)
       IN /\ Boundary(placed)
          /\ IF goesOn
             THEN /\ Round
                  /\ entries' = Append(answered, [kind |-> "continue", of |-> 0])
                  /\ Create(End(task, t), Generation(task[t].inputs))
                  /\ input' = Moved(placed)
             ELSE /\ entries' = answered
                  /\ CreateFor(End(task, t), next)
                  /\ input' = Settled(Moved(placed), Answered(t, next), "done", Len(entries) + 1)
                  /\ UNCHANGED rounds
  /\ UNCHANGED disruptions

\* The closing commit of an assistant message with n tool calls.
CallTools(t) ==
  /\ Runs(t, "pi.generation")
  /\ Round
  /\ \E n \in CallId :
       LET f     == End(task, t)
           s     == Places(f, n + 1)
           tools == {s[k] : k \in 1..n}
       IN /\ Room(f, n + 1)
          /\ entries' = Append(entries, [kind |-> "calls", of |-> n])
          /\ task' = [u \in TaskId |->
               IF u \in tools
               THEN [NoTask EXCEPT !.kind = "pi.tool", !.live = TRUE,
                                   !.call = CHOOSE k \in 1..n : s[k] = u]
               ELSE IF u = s[n + 1]
               THEN [NoTask EXCEPT !.kind = "pi.post_tools", !.live = TRUE, !.after = tools,
                                   !.inputs = task[t].inputs]
               ELSE f[u]]
  /\ UNCHANGED <<input, inbox, hurt, disruptions>>

\* failStep, terminalError and the overflow that finds nothing to collapse:
\* settleFailedTurn resolves the group and places what waits.
Fail(t) ==
  /\ Runs(t, "pi.generation")
  /\ \E placed \in Selections("final"),
        notice \in {<<>>, <<[kind |-> "notice", of |-> 0]>>} :
       /\ input' = Settled(Moved(placed), task[t].inputs, "unanswered", 0)
       /\ Boundary(placed)
       /\ entries' = entries \o notice \o Entries(placed)
       /\ CreateFor(End(task, t), Triggers(placed))
  /\ UNCHANGED <<rounds, disruptions>>

\* The overflow that collapses first: another generation takes the group over.
Overflow(t) ==
  /\ Runs(t, "pi.generation")
  /\ Round
  /\ LET f == End(task, t)
         s == Places(f, 2)
     IN /\ Room(f, 2)
        /\ task' = [f EXCEPT
             ![s[1]] = [NoTask EXCEPT !.kind = "pi.collapse", !.live = TRUE],
             ![s[2]] = [Generation(task[t].inputs) EXCEPT !.after = {s[1]}]]
  /\ UNCHANGED <<input, inbox, entries, hurt, disruptions>>

CloseCollapse(t) ==
  /\ Runs(t, "pi.collapse")
  /\ task' = End(task, t)
  /\ UNCHANGED <<input, inbox, entries, hurt, rounds, disruptions>>

-------------------------------------------------------------------------------
(***************************************************************************)
(* pi.tool.                                                                *)
(***************************************************************************)
\* The closing commit: the result of the call, and what it asks of post_tools.
CloseTool(t, control) ==
  /\ entries' = Append(entries, [kind |-> "result", of |-> task[t].call])
  /\ task' = End([task EXCEPT ![t].entry = TRUE, ![t].control = control], t)
  /\ UNCHANGED <<input, inbox, hurt, rounds, disruptions>>

\* The call is refused before its tool starts.
RefuseTool(t) == Runs(t, "pi.tool") /\ task[t].phase = "initial" /\ CloseTool(t, "none")

\* The commit of the checkpoint `started', before the effect.
StartTool(t) ==
  /\ Runs(t, "pi.tool") /\ task[t].phase = "initial"
  /\ task' = [task EXCEPT ![t].phase = "started"]
  /\ UNCHANGED <<input, inbox, entries, hurt, rounds, disruptions>>

Execute(t) ==
  /\ task' = [task EXCEPT ![t].phase = "executing", ![t].runs = @ + 1]
  /\ UNCHANGED <<input, inbox, entries, hurt, rounds, disruptions>>

\* declaration.execute: no step checks for a mark in between.
ExecuteTool(t) == Ready(t) /\ task[t].phase = "started" /\ Execute(t)

FinishTool(t) ==
  /\ Runs(t, "pi.tool") /\ task[t].phase = "executing"
  /\ \E control \in Controls : CloseTool(t, control)

\* Faulty variant of RecoverTool: the tool runs again whatever it declared.
RecoverAnyTool(t) ==
  /\ Runs(t, "pi.tool") /\ task[t].phase = "interrupted"
  /\ Execute(t)

\* Faulty variant of RecoverTool: what may not run again is left as it is.
RecoverSafeTool(t) ==
  /\ Runs(t, "pi.tool") /\ task[t].phase = "interrupted"
  /\ task[t].call \in Safe /\ Execute(t)

\* phases.started, at open: a tool safe to replay runs again, if it is still
\* there and accepts the call; any other call is closed as interrupted.
RecoverTool(t) ==
  /\ Runs(t, "pi.tool") /\ task[t].phase = "interrupted"
  /\ \/ task[t].call \in Safe /\ Execute(t)
     \/ CloseTool(t, "none")

-------------------------------------------------------------------------------
(***************************************************************************)
(* pi.post_tools.                                                          *)
(***************************************************************************)
Tools(t) == task[t].after

\* Faulty variant of Synthesised: a call whose task faulted gets no result.
SynthesisedNone(t) == <<>>

\* Results for the calls whose task ended without one, in the order of the calls.
Synthesised(t) ==
  LET missing == Sorted({task[d].call : d \in {e \in Tools(t) : ~task[e].entry}})
  IN [k \in DOMAIN missing |-> [kind |-> "result", of |-> missing[k]]]

Asked(t) == {task[d].control : d \in Tools(t)} \ {"none"}

Handoff(t) == IF "handoff" \in Asked(t) THEN <<[kind |-> "handoff", of |-> 0]>> ELSE <<>>

LastCalls == Max({p \in DOMAIN entries : entries[p].kind = "calls"})

\* What every closing commit of post_tools writes: missing results, handoff, then
\* what the boundary places.
Join(t, placed) ==
  /\ Runs(t, "pi.post_tools")
  /\ entries' = entries \o Synthesised(t) \o Handoff(t) \o Entries(placed)
  /\ Boundary(placed)
  /\ UNCHANGED <<rounds, disruptions>>

\* Faulty variant of EndAsked: the boundary of an ended turn leaves the followUps.
EndAskedEarly(t) ==
  /\ Asked(t) # {}
  /\ \E placed \in Selections("postTools") :
       /\ Join(t, placed)
       /\ input' = Settled(Moved(placed), task[t].inputs, "done", LastCalls)
       /\ CreateFor(End(task, t), Triggers(placed))

\* A tool asked for the end of the turn, or for a handoff.
EndAsked(t) ==
  /\ Asked(t) # {}
  /\ \E placed \in Selections("final") :
       /\ Join(t, placed)
       /\ input' = Settled(Moved(placed), task[t].inputs, "done", LastCalls)
       /\ CreateFor(End(task, t), Triggers(placed))

\* A queued reset ends the turn.
EndReset(t) ==
  /\ Asked(t) = {} /\ Cut # 0
  /\ \E placed \in Selections("postTools") :
       /\ Join(t, placed)
       /\ input' = Settled(Moved(placed), task[t].inputs, "unanswered", 0)
       /\ CreateFor(End(task, t), Triggers(placed))

\* The group goes on in another generation, joined by what steers it.
CarryOnGroup(t, placed) ==
  /\ Join(t, placed)
  /\ input' = Moved(placed)
  /\ Create(End(task, t),
       [Generation(task[t].inputs \cup Triggers(placed)) EXCEPT !.joins = TRUE])

\* Faulty variant of CarryOn: a reset does not end the turn.
CarryOnAnyway(t) ==
  /\ Asked(t) = {}
  /\ \E placed \in Selections("postTools") : CarryOnGroup(t, placed)

CarryOn(t) ==
  /\ Asked(t) = {} /\ Cut = 0
  /\ \E placed \in Selections("postTools") : CarryOnGroup(t, placed)

PostTools(t) == EndAsked(t) \/ EndReset(t) \/ CarryOn(t)

-------------------------------------------------------------------------------
(***************************************************************************)
(* Abort, fault, crash.                                                    *)
(***************************************************************************)
Disrupt == disruptions < MaxDisruptions /\ disruptions' = disruptions + 1

\* abortTask(), markTask().
MarkTask(t) ==
  /\ task[t].live /\ ~task[t].mark
  /\ Disrupt
  /\ task' = [task EXCEPT ![t].mark = TRUE]
  /\ UNCHANGED <<input, inbox, entries, hurt, rounds>>

\* Faulty variant of AbortConversation: the reason is stored as the status.
AbortConversationReason ==
  /\ Disrupt
  /\ LET withdrawn == {i \in inbox : ModeIs(i, Steering)}
     IN /\ inbox' = inbox \ withdrawn
        /\ input' = Settled(input, withdrawn, "aborted", 0)
  /\ task' = [t \in TaskId |-> IF task[t].live THEN [task[t] EXCEPT !.mark = TRUE] ELSE task[t]]
  /\ UNCHANGED <<entries, hurt, rounds>>

\* abort() of the conversation: its one commit.
AbortConversation ==
  /\ Disrupt
  /\ LET withdrawn == {i \in inbox : ModeIs(i, Steering)}
     IN /\ inbox' = inbox \ withdrawn
        /\ input' = Settled(input, withdrawn, "unanswered", 0)
  /\ task' = [t \in TaskId |-> IF task[t].live THEN [task[t] EXCEPT !.mark = TRUE] ELSE task[t]]
  /\ UNCHANGED <<entries, hurt, rounds>>

\* The commit of kind.abort: a generation or post_tools resolves its group, a
\* tool appends a result.
AbortTask(t) ==
  /\ task[t].live /\ task[t].mark
  /\ input' = Settled(input, task[t].inputs, "unanswered", 0)
  /\ IF task[t].kind = "pi.tool"
     THEN /\ entries' = Append(entries, [kind |-> "result", of |-> task[t].call])
          /\ task' = End([task EXCEPT ![t].entry = TRUE], t)
     ELSE task' = End(task, t) /\ UNCHANGED entries
  /\ hurt' = (hurt \/ IsTurn(t))
  /\ UNCHANGED <<inbox, rounds, disruptions>>

\* Faulty variant of Fault: the group of a faulted task is forgotten.
FaultForgets(t) ==
  /\ Ready(t) \/ (task[t].live /\ task[t].mark)
  /\ Disrupt
  /\ task' = End(task, t)
  /\ hurt' = (hurt \/ IsTurn(t))
  /\ UNCHANGED <<input, inbox, entries, rounds>>

\* A handler throws: the commit that ends the task as faulted.  That it forgets the
\* tools of the turn in sticky.turn, as the end of a turn does, is left out.
Fault(t) ==
  /\ Ready(t) \/ (task[t].live /\ task[t].mark)
  /\ Disrupt
  /\ input' = Settled(input, task[t].inputs, "unanswered", 0)
  /\ task' = End(task, t)
  /\ hurt' = (hurt \/ IsTurn(t))
  /\ UNCHANGED <<inbox, entries, rounds>>

\* Everything but an effect under way is stored.
Crash ==
  /\ Disrupt
  /\ task' = [t \in TaskId |->
       IF task[t].live /\ task[t].phase \in {"started", "executing"}
       THEN [task[t] EXCEPT !.phase = "interrupted"] ELSE task[t]]
  /\ UNCHANGED <<input, inbox, entries, hurt, rounds>>

-------------------------------------------------------------------------------
Init ==
  /\ input = [i \in InputId |-> NoInput]
  /\ inbox = {}
  /\ entries = <<>>
  /\ task = [t \in TaskId |-> NoTask]
  /\ hurt = FALSE /\ rounds = 0 /\ disruptions = 0

\* What the scheduler, a provider and a tool do for a task.
Progress(t) ==
  \/ AnswerFinal(t) \/ CallTools(t) \/ Fail(t) \/ Overflow(t) \/ CloseCollapse(t)
  \/ RefuseTool(t) \/ StartTool(t) \/ ExecuteTool(t) \/ FinishTool(t) \/ RecoverTool(t)
  \/ PostTools(t) \/ AbortTask(t)

Next ==
  \/ Send \/ Write \/ (\E i \in InputId : Withdraw(i))
  \/ (\E t \in TaskId : Progress(t) \/ MarkTask(t) \/ Fault(t))
  \/ AbortConversation \/ Crash

Spec == Init /\ [][Next]_vars

\* While a task can get on, one does: TaskKernel starts every ready task, a
\* provider answers in the end, and a tool returns.  Which one is left open; what
\* a task can do is bounded.
FairSpec == Spec /\ WF_vars(\E t \in TaskId : Progress(t))

-------------------------------------------------------------------------------
(***************************************************************************)
(* Properties.                                                             *)
(***************************************************************************)
TypeOK ==
  /\ input \in [InputId -> InputRecord]
  /\ inbox \subseteq InputId
  /\ entries \in Seq(Entry)
  /\ task \in [TaskId -> TaskRecord]
  /\ hurt \in BOOLEAN /\ rounds \in 0..MaxRounds /\ disruptions \in 0..MaxDisruptions

\* The inbox (a document) and the inputs (records) agree on what is queued.
InboxIsQueued == inbox = InState("queued")

Owners(i) == {t \in TaskId : task[t].live /\ i \in task[t].inputs}

\* A placed input belongs to one live generation or post_tools, a queued or
\* settled one to none: ownership passes in the commit that ends the owner.
OwnedOnce ==
  \A i \in InputId :
    /\ Cardinality(Owners(i)) = IF input[i].status = "placed" THEN 1 ELSE 0
    /\ \A t \in Owners(i) : task[t].kind \in {"pi.generation", "pi.post_tools"}

\* No generation owns an input its own request cannot see: no reset or handoff
\* was placed after it.
OwnedVisible ==
  \A i \in InState("placed") : \A p \in DOMAIN entries : SelfHead(p) => p < EntryOf(i)

\* An input is answered by an assistant message that follows it, with no reset
\* or handoff in between.
AnswerSeesInput ==
  \A i \in InState("done") : ModeIs(i, Steering) =>
    /\ entries[input[i].answer].kind \in {"assistant", "calls"}
    /\ EntryOf(i) < input[i].answer
    /\ \A p \in EntryOf(i)..input[i].answer : ~SelfHead(p)

\* hardening-handoff.md, test gates: nothing is stranded when the last turn task
\* ends.  An abort or a fault is excused, it drains no queue by design.
NothingStranded == ~Busy /\ ~hurt => inbox = {}

\* A followUp that came after a reset which waited in the inbox and has been placed.
BehindReset(i) ==
  /\ ModeIs(i, {"followUp"})
  /\ \E r \in InState("done") : ModeIs(r, {"reset"}) /\ input[r].waited /\ r < i

\* What is stranded all the same: only such a followUp.  Anything else a send or
\* write puts in the inbox while the last turn task closes is in time for its
\* boundary, or finds the conversation idle.
StrandedBehindReset == ~Busy /\ ~hurt => \A i \in inbox : BehindReset(i)

\* The results of the calls of an assistant message directly follow it, at most
\* one for each call, and all of them when a generation carries the turn on.
ResultsFollowCalls ==
  /\ \A p \in DOMAIN entries : entries[p].kind = "result" =>
       /\ p > 1 /\ entries[p - 1].kind \in {"result", "calls"}
       /\ \A q \in 1..(p - 1) : entries[q] = entries[p] =>
            \E r \in q..p : entries[r].kind = "calls"
  /\ (\E t \in TaskId : task[t].live /\ task[t].joins) =>
       LET calls == Max({p \in DOMAIN entries : entries[p].kind = "calls"})
       IN {entries[p].of : p \in {q \in DOMAIN entries : q > calls /\ entries[q].kind = "result"}}
            = 1..entries[calls].of

\* A tool that does not declare replay: "safe" is executed at most once for a
\* call, whatever crashes.
UnsafeToolOnce == \A t \in TaskId : task[t].call \notin Safe => task[t].runs <= 1

\* Inputs are settled once.
Lifecycle == INSTANCE InputLifecycle WITH
  Input <- InputId,
  result <- [i \in InputId |->
    [status |-> input[i].status, write |-> input[i].status # "absent" /\ ModeIs(i, Writing),
     answered |-> input[i].answer # 0]]

FollowsInputLifecycle == Lifecycle!Spec

\* A queued input may stay in an idle conversation when an abort or a fault ended
\* the turn that would have placed it, or a reset went before it at post_tools.
Stays(i) == i \in inbox /\ ~Busy /\ (hurt \/ BehindReset(i))

\* Every other accepted input is settled in the end, whatever is aborted, faults
\* or crashes.  (At most MaxInputs are accepted: at last all of them are settled.)
AcceptedSettles ==
  []<>(\A i \in InputId : input[i].status \in {"queued", "placed"} => Stays(i))
=============================================================================
