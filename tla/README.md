# Formal models of the durable agent kernel and the session server

The repository is a monorepo for a coding agent. Its core logic is the agent
package, and in it `packages/agent/src/harness/pico3`: a durable task kernel in
which model calls, tool calls, compactions and background jobs are tasks that
survive crashes. Around it, `packages/server` routes the connections of several
clients to such sessions. This directory models both in TLA+, checks them with
TLC and proves, with TLAPS and for every size of the system, types, safety
properties and refinements of its five models. Every invariant and action property
of the passing runs is proved; liveness is model-checked. All paths below are relative
to `packages/agent/src/harness/pico3` unless they start with `packages/`.

## Inventory

| Component | State | Operations | Interacts with | Hard behaviour | Makes it correct |
| --- | --- | --- | --- | --- | --- |
| Line (`session.ts` `enter`, `commit`, `retire`, `close`) | promise tail, `closed`, `fault`, `liveTasks` | commit, read, onLine, retire, fork, close | storage below; scheduler and views listen | authority checked when the commit reaches the line, storage failure, calls queued across a fault | no write without live authority, nothing after close or fault |
| Scheduler (`scheduler.ts`) | `enabled`, `holds`, `dirty`, `draining`, `invocations`, waiters | kick, drain, reserve, dispatch, phase loop, abortTask, waiters, joinAll | commits through the line; calls task kinds | reserve/dispatch gap, signal against return, mark against closing commit, lost wake-ups | one execution per task, no lost wake-up, abort after run, waiters woken |
| Harness (`harness.ts`) | `resumed`, `suspended`, registries | open, resume, hold, suspend, close, conversation handles | owns the session, the scheduler, the views | stop while work is starting, orphaned kinds after reopen | nothing runs after close |
| Storage (`jsonl.ts`, `memory.ts`) | `main.jsonl`, sidecars, in-memory tables | open/replay, commit, truncate, close | called on the line only | crash between any two file operations | batches are atomic, every directory can be reopened |
| Transactions and documents (`session.ts` `TxImpl`, `membrane.ts`, `bounded.ts`) | overlay of created tasks, entries, inputs; tracked documents | createTask, checkpoint, write, send, boundary | storage reads, document cache | reads inside a batch, failed batches, scopes | a batch sees its own writes |
| Inbox and turns (`send`, `boundary`, `kinds/generation.ts`, `tool.ts`, `post-tools.ts`) | sticky `inbox`, turn state, inputs | send, withdraw, place, generate, call tools | scheduler and documents | send racing a closing turn, abort in every phase | each input has one owner and is settled once, nothing is stranded, every call has its result |
| Transcript and collapse (`context.ts`, `kinds/collapse.ts`) | entries with heads and edits | append, reset, collapse, context | turns | a collapse racing a reset or another collapse | no retained entry is lost |
| Views (`view.ts`) | per-watch queue | watch, update, deliver | line listeners | slow watcher, capture against commit | a watcher's copy equals the document |
| Jobs, plugins, hooks, prompt, chord services | small | task kinds and registrations | kernel | external processes | contract of a kind |
| `packages/agent` loop, runtime, sessions | lanes, branching session logs | prompt, steer, navigate | providers, session backends | cancellation | |
| Session router (`packages/server/src/session-router.ts`, `server.ts`) | hosted sessions, attachments, an operation queue for each client | attach, detach, call, remove, disconnect, close | the application's session services; workers; the clients' view of their attachment | a connection lost while its attach waits, a worker that dies under a lease, close during everything | every lease is found and released, never under a call |
| Server services and workers (`packages/coding-agent/src/experimental`) | one line of management requests, worker records | create, remove, attach, detach; open, lease, stop a worker | the router | one slow request, or one client that does not read, holds all clients up; workers stop at any time | the line gets on |
| `packages/client`, `protocol` | pending requests, subscriptions, frames | attach, call, subscribe | the server over sockets | responses and updates interleave | |
| `packages/ai`, `coding-agent`, `byz`, `chord`, `durable`, `session-backends`, `telemetry`, `tui`, `evals` | | | | | outside the kernel |

`PROJECT.json` lists every component with its status, and under `hazards` each
place in this code where something can go wrong that a test would hardly reach.

## Modules

| Module | Models |
| --- | --- |
| `TaskLifecycle` | abstract: the stored record of a task, created, started, marked, ended |
| `TaskKernel` | line, scheduler and harness for tasks of any kind; implements `TaskLifecycle` |
| `MCTaskKernel` | instances for TLC |
| `TaskKernelProofs` | type correctness, the inductive invariant, the safety theorems, the refinement |
| `AtomicStorage` | abstract: tables changed by whole batches, unaffected by a stop |
| `JsonlStorage` | the files, the steps of a commit, replay and repair; implements `AtomicStorage` |
| `MCJsonlStorage` | instances for TLC |
| `JsonlStorageProofs` | type correctness, the inductive invariant, that every directory can be reopened, the refinement |
| `InputLifecycle` | abstract: an input, accepted, placed, answered or given up |
| `TurnInbox` | the inbox of one conversation and the turn that empties it; implements `InputLifecycle` |
| `MCTurnInbox` | instances for TLC |
| `TurnInboxProofs` | type correctness, the inductive invariant, four safety theorems, the refinement |
| `TurnOrderProofs` | that a conversation has one turn at a time, and four safety theorems that rest on it |
| `Transcript` | the entries of one conversation, its context, turns that append to it and the compaction task |
| `TranscriptProofs` | type correctness and the safety properties of `Transcript` |
| `SessionRouter` | the router of a server, its line of management requests and its workers |
| `MCSessionRouter` | instances for TLC |
| `SessionRouterProofs` | type correctness, the inductive invariant, four safety theorems |
| `NaturalSets` | lemmas about bounded sets of naturals (least and greatest members, initial segments), which the proofs about storage, inbox and router share |

`Transcript` and `TurnInbox` do not instantiate `TaskKernel`: they take from it that
a task runs alone, that a commit is atomic, that an in-flight phase survives a crash,
that a marked task does not close but is aborted, and that a task created after
another starts when that one is over. They divide the turn between them:
`TurnInbox` has the inputs, the inbox, the tools and who owns what, `Transcript` the
heads, the provider attempts and the collapse.

### TaskKernel

Stored state is `task` (status, mark, outcome, dependencies, checkpoint phase).
A checkpoint is one of three phases: `initial` (none), `ready` (a phase that a
transition may name) and `inflight` (a phase that `kind.inflight` lists, stored
with `rt.commit` before an external effect). Everything else is in memory and
lost in a crash: the scheduler's fields under their own names, `inv` for
`scheduler.invocations`, and `thread`, the place an execution has reached in the
async body of `dispatch`. The history variable `unrecorded` holds the tasks
whose effect has begun and whose result is not stored.

`session` combines `closed`, `fault` and `suspended`. A line operation is one
action, taken when it enters the line; the comment at the top of the module says
why that is enough. Three promise turns separate `reserveEligible` from the
dispatch that follows; `LineFree` says that no line operation completes in
between, while `stop()`, `hold()` and `joinAll()` can come in between
(`DrainStops`). Handlers return, throw, and leave commits behind freely
(`HandlerStray`, `StrayCommit`): a commit that the handler did not await reaches
the line later and finds its token revoked.

| Actions | Code |
| --- | --- |
| `Open`, `ReconcileOrphans`, `Resume`, `Hold`, `Release`, `Suspend`, `Close` | `harness.ts` `init`, `resume`, `reconcileOrphans`, `hold`, `suspend`; `scheduler.ts` `hold`, `joinAll`; `session.ts` `close` |
| `Crash`, `Exit`, `StorageFault` | the process ends; `storage.commit` rejects |
| `CreateTask`, `MarkTask`, `WaitForTask`, `WaitForIdle` | `createTask`, `abortTask`/`markTask`, `waitForTask`, `waitForIdle` |
| `Reserve`, `ReserveFails`, `DrainStops`, `Dispatch` | `drain`, `reserveEligible`, `dispatch` |
| `HandlerCheckpoint`, `HandlerNext`, `HandlerDone`, `HandlerThrow`, `HandlerStray`, `StrayCommit`, `Transition` | `runPhases` and what its handlers may do |
| `CloseRun`, `AbortHandlerReturns`, `SettleAbort`, `FaultTask`, `CommitRefused` | the closing, aborting and faulting commits of `dispatch` |
| `Ended`, `RetireCommit`, `RetireRefused`, `Truncate` | the finally block and `session.retire` |

### JsonlStorage

`main` and `sidecar` are the files, sequences of records with their commit
number; `mem` is the tables of an open storage with `this.seq`; `op` is the commit
under way. `commit()` is taken apart: `BeginCommit` (validate and sort),
`AppendSidecar` once per file, `Publish` (the append to main, `apply()`),
`RetireTaskSidecar`. `Stop` can come between any two; `StopInAppend` leaves half a
line, `StopInPublish` a published commit that nobody acknowledged. A failed append
is such a stop, because the session then closes the storage. `Open` cuts torn
lines, cuts unconfirmed tails, replays and removes leftovers; `OpenInterrupted`
does any part of that. Replay is written as what it finds (`Confirmed`,
`ReplayedTask`, `ReplayedSticky`) and when it throws (`ReplayFails`). The value of
a task is the number of the commit that last patched it, the value of the sticky
document the set of commits since its last base.

`PatchAndEnd` says whether one batch may hold both a patch that leaves a task
live and one that ends it. The passing runs exclude it, and the run
`jsonl_patch_and_end` shows what happens with it (see Findings).

### Transcript

`entries` is the list of entries, an id being a place in it; an entry keeps its
kind and its head (0 for none). `NewestHead`, `From`, `Body` and `Context` are
`deriveContext`, `Throughs` is what `chooseThrough` can return, `Retained` is the
first entry that a finished collapse keeps. The list that `context()` returns begins with
the head, although the head is newer than the entries it keeps; the model follows
that order. `turn` is the place of the conversation's turn tasks, `queued` says
that a reset waits in the inbox, and `collapse` is the live `pi.collapse` task with
its checkpoint (`stage`, `expected`, `attempt`) and two histories, `calls` and
`since`.

| Actions | Code |
| --- | --- |
| `Send`, `Write`, `Reset`, `ManualCollapse`, `AbortTurn` | the conversation handle of `harness.ts`, `send` and `write` of `session.ts` |
| `Prepare`, `Attempt`, `Answer`, `CallTool`, `GenerationFails`, `Overflow` | the commits of `kinds/generation.ts` |
| `ToolEnds`, `PostTools` | the closing commits of `kinds/tool.ts`, `kinds/post-tools.ts` |
| `Capture`, `HookSummary`, `Summarize`, `Retry`, `Summarized`, `AttemptFails`, `Fails`, `Stale`, `Finish`, `AbortCollapse` | the phases of `kinds/collapse.ts` |
| `Crash` | the process ends; the next one finds the checkpoint |

Abstracted: token counts (an exchange may have any size and a request may be too
large at any time), several tool calls of one turn (one), and what a boundary
places (at most a reset, a message beside it and a message that starts the next
turn). Left out: edits, and a head that points into a parent conversation.

### TurnInbox

`input` holds the records of the inputs (status, mode and answer), `inbox` the
identifiers in `sticky.inbox`, `entries` the transcript as far as the properties
tell entries apart, `task` the live tasks of the conversation, and the ended ones
that a live one waits for. An input's identifier is its rank in the order of
acceptance. The fields of a task record are what its input, checkpoint and outcome
say: the inputs it owns, the call of a tool, the phase of a tool (`executing` is
not stored; a tool task that a reopened process finds in `started` is
`interrupted`), the control that a tool's result asks for. `hurt` is a history
variable: an abort or a fault ended a turn task since the last boundary. Every
action is one commit.

`Stale`, `Cut`, `Picks` and `Selections` are the selection of `boundary()`. The queue modes
are sticky state that a caller may set at any time, so each boundary may use either.
`Moved` and `Boundary` are its writes.

| Actions | Code |
| --- | --- |
| `Send` (`SendIdle`, `Queue`), `Write` (`WriteIdle`, `Queue`), `Withdraw` | `send`, `write`, `withdrawInput` of `session.ts`; `reset` of the conversation handle is a write with head `self` |
| `AnswerFinal`, `CallTools`, `Fail`, `Overflow` | the closing commits of `kinds/generation.ts` |
| `RefuseTool`, `StartTool`, `ExecuteTool`, `FinishTool`, `RecoverTool` | `initial`, `started` and `invoke` of `kinds/tool.ts` |
| `EndAsked`, `EndReset`, `CarryOn` | the three ends of the closing commit of `kinds/post-tools.ts` |
| `CloseCollapse` | the end of the collapse that an overflow waits for |
| `MarkTask`, `AbortConversation`, `AbortTask` | `abortTask`, `abort` of the conversation handle, the commits of `kind.abort` |
| `Fault`, `Crash` | the faulting commit of `scheduler.ts`; the process ends |

### SessionRouter

An action is what runs between two awaits. The state of the router keeps its
names where it can: `host` is `hostedSessions` with the state of each handle, `att`
the attachments (their lease, and how far `releasing` has come), `route`
`attachmentsByClient`, `queue` `clientOperations`. `disconnectedClients` is the set of
clients with a disconnect operation in `queue`, which is how long the code keeps
them there. `line` and `job` are the management requests of
`services/server.ts`, one at a time for all clients, and how far the first one has come
in `attachClientNow` or `removeSession`. `sent` is what `publishAttachment` has given to
the socket of a client and the socket has not taken; the promise of a publication is
settled when it is taken (`Take`), in order, or with the connection. `view` is the
attachment that a client was told of last. `owed` counts the operations that `close()` waits for.
`lost` and `late` are histories that name the clients of the two deviations below.

| Actions | Code |
| --- | --- |
| `Ask`, `Enter`, `Create`, `Done` | `SessionManagement` and `serialize` of `packages/coding-agent/src/experimental/services/server.ts` |
| `StartAttach`, `Open`, `OpenFails`, `Acquired`, `Lease`, `LeaseFails`, `LeaseHeld`, `Attached`, `Undone` | `attachClientNow`, `acquire`, `open`, from await to await, the one of `publishAttachment` included |
| `Take` | `UnixByteConnection.send` and `write` (`transports/unix/listener.ts`): the socket takes the bytes; the environment's step |
| `StartDetach`, `EndDetach`, `BeginRelease`, `Drained`, `EndRelease`, `EndDisconnect` | `detachClient`, `disconnect`, `releaseAttachment`, `clearAttachment` |
| `Invoke`, `Admit`, `Settle` | `executeServiceCall`, `startServiceCall`, `trackOperation` |
| `Disconnect` | `Server.disconnect`: what is still to be sent is given up, the contexts of the requests are aborted (`Forgotten`, `Deleting`), and the client drops what it knew |
| `StartRemove`, `StopRemoved`, `EndRemove` | `removeSession`, and the deletion in the application |
| `Crash`, `Stopped`, `Invalidate` | a worker dies, retires or is stopped (`session-worker-manager.ts`); `invalidate` |
| `Close`, `CloseConnections`, `CloseAttachments`, `CloseHandles`, `EndClose` | `Server.close`, `closeServerState`, `SessionRouter.closeInternal` |

## Runs

| Run | Instance | Shows |
| --- | --- | --- |
| `kernel` | 2 tasks, 2 disruptions, left-behind commits | `HandlersSeeStoredState`, `EffectRemembered`, `NothingOverlooked`, `StoppedMeansStopped`, `ExecutionsJoin`, `CheckpointByHandler`, and that the kernel implements `TaskLifecycle` |
| `kernel_liveness` | 1 task, 1 caller, 2 disruptions, left-behind commits | `WaitersWoken`, `MarkedEnds`, `ReadyStarts` |
| `kernel_dependencies` | a foreground and a background task, 1 caller, undisturbed | `WaitersWoken`, `ReadyStarts` through a dependency |
| `jsonl` | 2 tasks and a sticky file, 4 commits (3 once both tasks are used) | `Recoverable`, and that the files implement `AtomicStorage` |
| `jsonl_patch_and_end` | 1 task, 3 commits | violation of `Recoverable` |
| `transcript` | 5 entries, 1 retry, 1 crash | `NothingComesBack`, `RecentStays`, `LateHeadWins`, `BoundedCalls`, `CollapseEnds` |
| `transcript_kept_suffix` | 8 entries, no retry, no crash | violation of `KeptSuffixStays` |
| `transcript_no_fault` | 8 entries, no retry, no crash | violation of `NoTurnFaults` |
| `turn_inbox` | 3 inputs, 2 calls (one safe to replay), 1 further round, 1 disruption | `InboxIsQueued`, `OwnedOnce`, `OwnedVisible`, `AnswerSeesInput`, `StrandedBehindReset`, `ResultsFollowCalls`, `UnsafeToolOnce`, `AcceptedSettles`, and that the inbox implements `InputLifecycle` |
| `turn_stranded` | the same | violation of `NothingStranded` |
| `session_router` | 2 connections, 2 sessions, 2 handles, 2 attachments, 2 requests, 1 call, 1 dying worker | `HeldIsRouted`, `ReleasedQuiet`, `ViewFollows`, `CloseReleasesAll`, `LossReleasesUnlessLate`, `RequestsEnd` |
| `connection_loss` | the same with 1 session, which one client opens and keeps (`OpenedSpec`) | violation of `ConnectionLossReleases` |

Bounds. `MaxDisruptions` counts crashes, storage failures, holds and suspends
together: two are enough for a crash during the recovery from the first, for a
hold and then a crash, and for a suspend of a process that reopened after one.
Two tasks are enough for a dependency, a successor created by a closing commit,
and one task's commit racing the other's drain. The scheduler handles tasks
independently otherwise, and the theorems hold for any number. In the storage
a commit can create, patch and end a task, or write a base of the sticky file, so that
four allow two bases, a truncation between them and commits after a reopen; the
constraint `LogBound` keeps two tasks and a long log apart. In the transcript
`MaxEntries` bounds what turns and callers append; only the summary of a live
collapse may pass it, so that no collapse is stuck on the bound. Five entries and
the summaries allow two collapses one after the other, a reset between a reading
of the head and the end, and a whole turn beside a collapse. In the inbox three inputs are the least with which a
reset can stand between a followUp that owns the turn and another one that waits;
two calls, one of them safe to replay, tell the two kinds of replay apart and give a
faulted call a neighbour; one further round is a tool round, an overflow or a
continuation before the turn ends; one disruption is an abort, a mark, a fault or a
crash at any point. Instances with two rounds and two disruptions (11.9 million
states) and with four inputs (5.1 million) were checked once and show the same. For
the router two connections are enough for one to wait in the line behind the other,
two sessions for a switch, two handles for a session that is opened again after its
worker died, and two requests for an attach with a switch, a detach or a removal
behind it. Without the liveness properties an instance with one session, three
requests and three attachments (1.7 million states) was checked once. Deadlock is not
checked: when every task is over and the bounds are used up, the system rests.

Fairness (`Fairness`). A handler's promise settles (weak fairness of its return,
not of a particular result); the line is first in, first out, so an operation
that waits on it is served although others keep coming (strong fairness of
`OnLine(t)`); the host reopens and resumes what went down, and releases what it
holds. No fairness is assumed for marks, creations, stray commits or disruptions.
`Transcript` assumes weak fairness of the steps of a live collapse as a whole
(its handlers' promises settle, and a reopened process resumes it), none for turns,
callers, aborts or crashes. `TurnInbox` assumes weak fairness of its tasks' steps as a
whole: a ready task is run (`ReadyStarts` of the kernel), a provider answers in the
end and a tool returns; which answer it is, and whether anybody sends, aborts or
withdraws, is left open. `SessionRouter` assumes weak fairness of the router and
workers as a whole: a promise chain that can go on does, a worker answers or dies,
and a handle that is closed ends (`stopWorkerInternal` kills a worker that does not).
Of clients the specification assumes nothing: they ask, call, read and go as they
like. `RequestsEnd` cannot hold so, because `send()` settles only when the socket takes
the bytes or closes, and has no time limit; it therefore says in its own statement
under which condition it holds: that every client, again and again, has taken all that
was published to it, or has gone. `LossReleasesUnlessLate` needs no such condition,
since what was to be sent to a lost connection is given up.

## Proofs

`TaskKernelProofs` assumes only `KernelAssumption`, which gives the constants
their kind; TLC evaluates it in every kernel run.

`TypeCorrect` is proved first. The properties are not inductive, so the proof
strengthens them to `IInv`:

- `TableMatches`, `RecordMatches`: what the stages of an execution say about the
  stored record (an execution in the run stages has a running task with the phase
  it works from; an abort stage has a marked one);
- `EffectRemembered`;
- `LoopMatches`: `ReservedMatches` (what was reserved is running, without an
  invocation, until dispatched), `StopMatches` (a held or closed scheduler has no
  execution), `WakeMatches`, `NothingOverlooked` and `WaitersWoken` (the dirty flag
  or a running drain stands for every task and caller that still has to be served).

`Invariance` proves `Spec => []IInv` with one lemma per action or group of actions
and one step per conjunct that it can disturb. `StoredStateSeen`,
`EffectsRemembered`, `NoLostWakeUp`, `NoWaiterLeft` and `StoppedIsStopped` follow.
`Refinement` shows that every step of the kernel maps to a step of `TaskLifecycle`
or a stutter, and `Joined` that `ExecutionsJoin` holds of every step. `StoredByHandler`
goes through the commits one by one (`StoredAt`): the drain and the closing commits
store the initial phase or none (`EndStores`), so that an in-flight one can only come from a handler
that still runs, although a handler may leave commits behind in the queue.

`TranscriptProofs` assumes `TranscriptAssumption` (the bounds are naturals). Its
argument goes through one fact, `Grown`: a step only appends entries, and a new
head does not point before the present beginning of the context. `Steps` proves it
action by action; for `Finish` it needs that the kept entry is one of the context
(`RetainedIs`). `TypeCorrect` and `NothingReturns` follow: the beginning of the
context never moves back (`HeadsMoveForward`). `RecentEntriesStay` needs that only
`Finish` appends a summary (`OnlyFinishSummarises`) and that the new context begins
where the summary points (`SummaryStarts`). `LateHeadsWin` and `CallsBounded` need
the invariant `CollapseInv`: the expected head is not newer than the transcript was
when it was read, and calls are counted by the attempt. Neither bound on entries
nor on crashes plays a part in these proofs.

`TurnInboxProofs` assumes `InboxAssumption` (the bounds are naturals, the safe calls
are a set of them). Three kinds of fact make up the inductive invariant `IInv`:
`Books` relates the inbox, the stored inputs and the placed ones (the inbox is what
is queued, and only what is done has an answer);
`Groups` relates the owners to the placed inputs (each placed input has one live
owner, which is a generation or a post_tools, and the groups of different tasks are
disjoint); `ToolRuns` relates the executions of a call to the phase of its task
(none before the tool has started, at most one unless the call is safe).
`Numbered` says that the accepted identifiers are an initial segment, so that a new
input is new, and `CallsBefore` that a post_tools follows the message whose calls it
joins, so that its answer exists. One lemma per action proves a good step: how the
step changes the inputs (`GoodStep`), the task table (`TableStep`) and the
transcript (`LogStep`). `InboxAgrees`, `OneOwner` and `ToolsOnce` follow, and
`Refinement` maps each step to moves of single inputs in `InputLifecycle`. The proofs
hold for any number of inputs, calls, rounds and disruptions, so the bounds of the
run play no part in them.

`TurnOrderProofs` adds what needs the order of things. Its invariant `OneTurn` says that
there is one owner at most, that live tools belong to the post_tools that waits for them
(or, when that has gone, to a turn that an abort or a fault has ended), and
that only a generation joins. Each step leaves the turn as it is, closes one of its tasks,
ends the turn, goes on in a single generation, or hands over to tools and a post_tools
(`SameShape`, `ClosedShape`, `NoTurnShape`, `AloneShape`, `HandedShape`). Then:

- `StrandedOnlyBehindReset`: what ends the last turn task without an abort or a fault
  passes a final boundary, which leaves nothing, or one of post_tools with a reset, which
  leaves followUps that were accepted behind the reset;
- `OwnedInSight` and `AnswersSee` follow from `Seen`: an input is written once (`Listed`),
  a placed one behind every head (`InSight`), what a post_tools owns before the calls it
  joins (`PostSees`), and an answered steering input before its answer with no head between
  (`AnsweredAfter`). The step that could break it is a boundary that appends inputs
  with a reset among them: the placed inputs in front of the reset are the ones it settles;
- `ResultsComplete`: results follow their calls (`ResultsFollow`), and while calls are
  worked on they are the last ones and nothing but their results is behind them
  (`CallsOpen`): a task has an entry exactly when its call has a result, and different
  tasks have different calls. A post_tools closes the calls that have none, so that the
  generation that joins finds all of them.

`JsonlStorageProofs` assumes `StorageAssumption` (bounds are naturals, the name of the
sticky file is no task). `TypeCorrect` needs no more. `AlwaysRecoverable` and
`Implements` (every step of the files is a step of `AtomicStorage` or a stutter) state
`~PatchAndEnd` as a hypothesis, because they are false without it: see the first
finding. The invariant `IInv` speaks of the directory as the next open would cut it, so
that one statement covers every instant of a commit and of an interrupted repair:

- `LogGood`: the commits in main are numbered one by one, and a task is patched
  between its creation and its end;
- `FileGood`, for each sidecar file: `Ordered` (increasing numbers, each of a commit
  that names the file, or of the commit that main does not have yet) and `Kept` (what
  main names is there, unless a later base or an end made it superfluous);
- `Serving`: an open storage holds what replay would find;
- `OpGood`: the commit under way has staged one record in each file it is done with,
  and files are unlinked only for tasks that have ended in main.

`GoodFilesReplay` shows that replay accepts such files, and `SameReplay` that it
depends only on confirmed records of live files; so cutting a tail, truncating a sticky file at
its last base and unlinking the file of an ended task change nothing that was served.
A refinement step then only has to be shown for `Publish`, which changes the tables as
one batch.

`SessionRouterProofs` assumes `RouterAssumption` (clients and sessions exist, the bounds
are naturals, at least one handle). `TypeCorrect`, `HeldRouted`, `CallsSettleFirst`,
`ViewsFollow` and `ClosedReleases` follow from `Invariant`, whose `IInv` says for every
wait of the router who waits and for what:

- `Numbered`, `Leases`, `LineOK`, `AtWork`: identifiers, leases, the request at the head of
  the line and the operation of the client that made it;
- `SwitchOK`, `LeasingOK`: which attachment an attach replaces, and the one lease that is
  being acquired belongs to it;
- `RouteOK`, `HeldIsRouted`: a route and a held lease name each other;
- `EndingOK`, `PublishOK`: while an attachment is released, its client is kept from its
  calls, and an end that is not published is that of a switch or of a lost connection;
- `ViewFollows`, which is inductive beside these when it speaks of `Informed`, what a
  client knows once it has read all there is: reading (`Take`) does not change it;
- `HostOK`, `EmptiedOK`, `CallOK`: a handle has no attachments once it may close, and a
  running call is one that somebody waits for;
- `QueueOK`, `CloseOK`: what the queues hold, and what each stage of `close()` has
  achieved.

One lemma per action proves the step. `close()` is the delicate one: it collects the
attachments once, so nothing may attach afterwards. `QueueOK` bounds the attaches in
the queues by the operations it still waits for (`owed`), and from the third stage `owed` is
zero: no attach is queued, hence none is under way (`NoneAttaches`).

Only model-checked: the liveness properties `MarkedEnds`, `ReadyStarts`, `CollapseEnds`,
`AcceptedSettles`, `LossReleasesUnlessLate` and `RequestsEnd`, with the fairness they
assume, because fairness speaks of `ENABLED`, which is out of the prover's reach; and the
properties of the runs that expect a violation, which are false. Where a data structure
would need a definition by recursion (replay of a log, folds), the modules say what the
result is instead, because induction over data cannot be proved either.

## Findings

- `Recoverable` with `PatchAndEnd`. A transition or closing callback may store a
  checkpoint and end its task in the same commit (`scheduler.ts` re-reads the task
  for exactly this case). The checkpoint goes to the task's sidecar, main names the
  sidecar, the sidecar is unlinked, and the next open throws "missing record for
  published sequence", although published records are promised to recover.

- `KeptSuffixStays`. The closing commit of a collapse looks for the first entry
  above `through` in a list that begins with the head. When `through` is an entry
  that an earlier summary kept, it finds that summary, and the kept entries
  between the two drop out of the context without having been summarised, against
  `packages/agent/docs/pico/pico-handoff-v2.md:1443`. The counterexample: a message, a
  system entry, an answer; a collapse through the message; a manual collapse through
  the system entry, after which the answer is gone. `RecentStays` states what does
  hold, and is proved.
- `NoTurnFaults`. `overflow()` creates a collapse without asking whether one is
  live; the closing commit is refused and the generation faults, against
  `pico-handoff-v2.md:1579-1580` ("Collapse never blocks generation or input").
- `NothingStranded`. While tools run, a reset and then a followUp are queued.
  `post_tools` finds the reset, asks for the boundary `postTools`, which places no
  followUp, and ends the turn without a successor: the followUp stays in the inbox of an
  idle conversation until the next send, against
  `packages/agent/test/harness/pico3/busy.test.ts:122` ("nothing is stranded when the
  last turn task terminalizes") and `hardening-handoff.md:175`. `StrandedBehindReset`
  states that nothing else is stranded, unless an abort or a fault ended the turn;
  these drain no queue, by design.
- `ConnectionLossReleases`. An attach waits in the application's line while its
  connection closes. The router's disconnect operation finds nothing to release,
  ends and forgets the client; the attach, to a session that is already hosted because
  another client has it open, then acquires a lease for a connection that is gone. (A
  session that is not hosted is not opened for such a client: the aborted context makes
  `resolveSession` reject.) Nothing releases it until the worker ends, the session is removed or
  the server closes. `packages/server/test/conformance.test.ts:383`: "connection loss
  releases its attachment". `LossReleasesUnlessLate` states that every other lost
  connection gives its lease back.

Other disagreements were met while reading, and no run is about them:

- `Session.retire` puts `storage.truncate` on the line through `enter()` alone
  (`session.ts:1415`), so that a truncation which is already queued still runs when a
  storage failure or `close()` has closed the storage, although
  `packages/agent/docs/pico/v3/hardening-handoff.md:244` says that queued operations
  reject.
- The generation created after an overflow's collapse does not read its outcome
  (`kinds/generation.ts:630`), although `pico-handoff-v2.md:1419-1420` says so; it
  overflows again, and begins a further collapse, any number of times.
- `write()` and `reset()` on an idle conversation do not look at the inbox
  (`session.ts:746`), although section 9.5 of `pico-handoff-v2.md` has one rule for all
  placements: a followUp that an abort left queued is placed behind a later reset.
- A switch of sessions releases the old attachment without publishing it. When the
  new lease then fails, the client still believes in the old one
  (`packages/server/src/session-router.ts:166`, `:178`), although
  `packages/server/README.md:10` has changes published. `ViewFollows` names this case
  (`lost`).
- A client that is connected and does not read holds its own attach
  (`session-router.ts:192`), or the detach, removal or release of its attachment (`:258`), at
  `publishAttachment`, and with the first request in line those of all other clients
  (`services/server.ts:51`). No document promises otherwise, so this is a limit that
  `RequestsEnd` states, not a finding; without the condition TLC shows it at once. (If so
  much more is sent to the client that `maxPendingBytes` is passed, its connection is
  closed, and the line goes on.)
- A removal waits for the calls admitted before it; a call that is admitted while it
  waits runs into the closing of the handle (`session-router.ts:238`). `ReleasedQuiet`
  names this case.

## Not modelled

Of the kernel: `registerTaskKind` in a running process (the set of kinds is chosen at
`Open`); a faulted session that is resumed (nothing it starts can commit);
conversation scopes, `owns`, forks and edits; the contents of documents, and of
entries beyond what the properties read; identifiers and their high-water mark; power
loss with `fsync: false`; file descriptors; the deduplication of a send by
`requestId`; a queued write whose head is an older entry; streamed output and tool
slots, and with them the reset of `sticky.turn` (`scheduler.ts:290`, `kinds/post-tools.ts:159`);
watches and views (a bounded queue of deltas per watcher); hooks that throw.

Of the server: the handshake, frames and the codec, request identifiers and their
cancellation, service subscriptions and their encoders, the client's pending
requests, the launching and discovery of workers, demand time-outs, and a server that
is replaced by another one. A release that fails is a release that ends, as in the
code. A `handle.close` that rejects (`session-router.ts:81`, `:134`, `:279`) is left out: a
handle that is closed ends. Calls of the server's own services other than session
management are left out, and so are the service updates that share a connection's
socket with the publications.

The rest of the repository (the older agent loop and sessions, providers, the
command line, the terminal interface, chord, telemetry, evaluations) is outside these
models; `PROJECT.json` gives the reason for each.

## Plan

Done: `TaskKernel`, `JsonlStorage`, `Transcript`, `TurnInbox`, `SessionRouter`. Next:

1. `Overlay`: what one transaction reads of its own writes, against the tables
   after the batch (`session.ts:965` is the hazard).
2. `Watch`: capture, update and deliver with a bounded queue; a watcher's copy
   equals the document it watches or says that it is behind.
3. `TaskKernel` again: registration of kinds in a running process, marks of several
   tasks in one commit.
4. The workers beneath `SessionRouter`: launch, demand with its time-out and
   compensation, and a server that takes over from another.
