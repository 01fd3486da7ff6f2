------------------------------ MODULE Transcript ------------------------------
(***************************************************************************)
(* The transcript of one conversation of packages/agent/src/harness/pico3,  *)
(* what of it the model is shown (context.ts), and the compaction task that *)
(* replaces its beginning by a summary (kinds/collapse.ts) while the turn    *)
(* it was made for, or a later one, goes on.                                *)
(*                                                                          *)
(* `entries' is append-only; an entry's place is its id.  An entry with a   *)
(* head moves the start of the context: to itself (reset, handoff) or to    *)
(* the first entry that a summary keeps.  Every action is one commit, or    *)
(* one reading, on the session line.  Token estimates are abstracted: an    *)
(* exchange may have any size, so chooseThrough may choose the end of any   *)
(* exchange but the newest, and any request may overflow.                   *)
(***************************************************************************)
EXTENDS Naturals, Sequences

CONSTANTS MaxRetries,   \* the retry policy's maxRetries
          MaxEntries,   \* bound: entries of the transcript
          MaxCrashes    \* bound: crashes

ASSUME TranscriptAssumption ==
  /\ MaxRetries \in Nat
  /\ MaxEntries \in Nat
  /\ MaxCrashes \in Nat

VARIABLES entries,    \* the entries, by id
          turn,       \* what the conversation's turn tasks are doing
          queued,     \* whether the inbox holds a reset
          collapse,   \* the live pi.collapse task
          crashes     \* how many crashes there have been

vars == <<entries, turn, queued, collapse, crashes>>

-------------------------------------------------------------------------------
Kinds == {"message",    \* user, system, notice, display-only and other entries
          "assistant", "result", "summary",
          "reset"}      \* a reset or a handoff

Turns == {"idle",
          "faulted",      \* idle, the last generation having faulted
          "initial",      \* a generation, in its initial()
          "model",        \* one in a later phase
          "undone", "uncompacted",    \* the same, after a collapse for it has
                                      \* ended without a summary
          "waiting",      \* one that is created after a collapse
          "tools",        \* a tool
          "post",         \* post_tools
          "orphaned"}     \* post_tools, the tool having left no result

Stages == {"none",         \* no collapse is live
           "created",      \* pending, or running initial() from its beginning
           "captured",     \* initial() has read the head
           "summarizing",  \* checkpointed, the provider is being called
           "interrupted",  \* so checkpointed, the process that called is gone
           "retrying", "prepared"}

Idle == turn \in {"idle", "faulted"}

Preparing == turn \in {"initial", "undone"}

Generating == turn \in {"model", "uncompacted"}

Entry(kind, head) == [kind |-> kind, head |-> head]

Message == Entry("message", 0)

\* calls, since: history, the provider calls made and the transcript's length
\* when the head was read.
NoCollapse == [stage |-> "none", through |-> 0, expected |-> 0, attempt |-> 0,
               calls |-> 0, since |-> 0]

-------------------------------------------------------------------------------
(* The context: the newest head, and what follows from where it points.      *)

Last == Len(entries)

Heads == {i \in 1..Last : entries[i].head # 0}

\* The newest entry with a head, 0 when there is none.
NewestHead ==
  IF Heads = {} THEN 0 ELSE CHOOSE h \in Heads : \A i \in Heads : i <= h

From == IF Heads = {} THEN 1 ELSE entries[NewestHead].head

\* The context's entries but for the head, which stands before them.
Body == {i \in From..Last : entries[i].head = 0}

Context == Body \cup ({NewestHead} \ {0})

\* Faulty variant of Retained: all entries are looked through.
RetainedOfAll(through) ==
  {i \in 1..Last : i > through /\ \A k \in 1..Last : k > through => i <= k}

\* Faulty variant of Retained: the last entry instead of the first.
RetainedLast(through) ==
  {i \in Body : i > through /\ \A k \in Body : k <= i}

\* The first of the context's entries after `through', as a set of at most one;
\* the head stands before all others.
Retained(through) ==
  IF NewestHead > through THEN {NewestHead}
  ELSE {i \in Body :
          i > through /\ \A k \in Body : k > through => i <= k}

\* An assistant entry or a result that continues its exchange.
InExchange(i) ==
  \E a \in Body :
    /\ a <= i /\ entries[a].kind = "assistant"
    /\ \A k \in Body : a < k /\ k <= i => entries[k].kind = "result"

EndsExchange(i) ==
  InExchange(i) =>
    ~ \E j \in Body :
        /\ j > i /\ entries[j].kind = "result"
        /\ \A k \in Body : ~(i < k /\ k < j)

\* Where the prefix to be summarised may end: the ends of the exchanges of the
\* context, but for the newest one.
Throughs ==
  {i \in Context :
     /\ i = NewestHead \/ EndsExchange(i)
     /\ \E k \in Body : i = NewestHead \/ i < k}

-------------------------------------------------------------------------------
Init ==
  /\ entries = <<>>
  /\ turn = "idle"
  /\ queued = FALSE
  /\ collapse = NoCollapse
  /\ crashes = 0

Live == collapse.stage # "none"

\* Bound on the transcript, which only the summary of a live collapse may pass.
Room == Last' <= MaxEntries

\* Faulty variant of WithReset: the head is the entry after it.
WithResetAhead(es) == Append(es, Entry("reset", Len(es) + 2))

WithReset(es) == Append(es, Entry("reset", Len(es) + 1))

\* What boundary() may place: a queued reset, and one of the queued inputs and
\* writes, before it (a write) or after it.
AtBoundary(es) ==
  IF queued
    THEN {WithReset(es), WithReset(Append(es, Message)), Append(WithReset(es), Message)}
    ELSE {es, Append(es, Message)}

\* A final boundary: the turn ends, unless an input or a continuation follows.
TurnEnds(es) ==
  /\ queued' = FALSE
  /\ \E placed \in AtBoundary(es) :
       \/ entries' = placed /\ turn' = "idle"
       \/ entries' = Append(placed, Message) /\ turn' = "initial"

CreateCollapse(through) ==
  collapse' = [NoCollapse EXCEPT !.stage = "created", !.through = through]

\* A generation's closing commit looks whether the context is over the
\* threshold before it appends, and then begins a collapse if none is live.
Threshold ==
  \/ UNCHANGED collapse
  \/ /\ ~Live
     /\ \E t \in Throughs : CreateCollapse(t)

\* send() to an idle conversation; what is queued is placed first.
Send ==
  /\ Idle
  /\ \E placed \in AtBoundary(entries) : entries' = Append(placed, Message)
  /\ turn' = "initial"
  /\ queued' = FALSE
  /\ Room
  /\ UNCHANGED <<collapse, crashes>>

\* write() to an idle conversation, of an entry without a head.
Write ==
  /\ Idle
  /\ entries' = Append(entries, Message)
  /\ Room
  /\ UNCHANGED <<turn, queued, collapse, crashes>>

\* reset(): queued in a busy conversation.
Reset ==
  /\ IF Idle
       THEN entries' = WithReset(entries) /\ UNCHANGED queued
       ELSE queued' = TRUE /\ UNCHANGED entries
  /\ Room
  /\ UNCHANGED <<turn, collapse, crashes>>

\* initial() ends with a system entry, when there is something new to say.
Prepare ==
  /\ Preparing
  /\ turn' = IF turn = "initial" THEN "model" ELSE "uncompacted"
  /\ entries' \in {entries, Append(entries, Message)}
  /\ Room
  /\ UNCHANGED <<queued, collapse, crashes>>

\* An attempt that fails, or was interrupted, and is made again.
Attempt ==
  /\ Generating
  /\ entries' = Append(entries, Message)
  /\ Room
  /\ UNCHANGED <<turn, queued, collapse, crashes>>

\* A generation ends with an answer.
Answer ==
  /\ Generating
  /\ Threshold
  /\ TurnEnds(Append(entries, Entry("assistant", 0)))
  /\ Room
  /\ UNCHANGED crashes

\* A generation ends with a tool call.
CallTool ==
  /\ Generating
  /\ Threshold
  /\ entries' = Append(entries, Entry("assistant", 0))
  /\ turn' = "tools"
  /\ Room
  /\ UNCHANGED <<queued, crashes>>

\* A generation fails, with a display-only entry or without.
GenerationFails ==
  /\ \/ (Preparing \/ Generating) /\ TurnEnds(entries)
     \/ Generating /\ TurnEnds(Append(entries, Message))
  /\ Room
  /\ UNCHANGED <<collapse, crashes>>

\* The request is too large: a collapse and the generation after it.  With one
\* live already createTask throws, and the generation faults.
Overflow ==
  /\ Generating
  /\ \/ /\ Throughs = {}
        /\ TurnEnds(Append(entries, Message))
        /\ UNCHANGED collapse
     \/ /\ Live /\ Throughs # {}
        /\ turn' = "faulted"
        /\ UNCHANGED <<entries, queued, collapse>>
     \/ /\ ~Live
        /\ \E t \in Throughs : CreateCollapse(t)
        /\ turn' = "waiting"
        /\ UNCHANGED <<entries, queued>>
  /\ Room
  /\ UNCHANGED crashes

\* A tool ends, with its result or, orphaned or faulted, without one.
ToolEnds ==
  /\ turn = "tools"
  /\ \/ entries' = Append(entries, Entry("result", 0)) /\ turn' = "post"
     \/ UNCHANGED entries /\ turn' = "orphaned"
  /\ Room
  /\ UNCHANGED <<queued, collapse, crashes>>

\* post_tools makes up a missing result; a handoff or terminate ends the turn, a
\* queued reset does too.
PostTools ==
  /\ turn \in {"post", "orphaned"}
  /\ LET es == IF turn = "post" THEN entries ELSE Append(entries, Entry("result", 0))
     IN \/ TurnEnds(es) \/ TurnEnds(WithReset(es))
        \/ /\ ~queued
           /\ entries' \in AtBoundary(es)
           /\ turn' = "initial"
           /\ UNCHANGED queued
  /\ Room
  /\ UNCHANGED <<collapse, crashes>>

\* The turn's tasks are aborted; an aborted tool still leaves a result.
AbortTurn ==
  /\ ~Idle
  /\ turn' = "idle"
  /\ \/ turn # "tools" /\ UNCHANGED entries
     \/ Generating /\ entries' = Append(entries, Message)
     \/ turn = "tools" /\ entries' = Append(entries, Entry("result", 0))
  /\ Room
  /\ UNCHANGED <<queued, collapse, crashes>>

\* Conversation.collapse(): rejected when one is live or nothing is to be had.
ManualCollapse ==
  /\ ~Live
  /\ \E t \in Throughs : CreateCollapse(t)
  /\ Last < MaxEntries
  /\ UNCHANGED <<entries, turn, queued, crashes>>

-------------------------------------------------------------------------------
(* The phases of pi.collapse.                                                 *)

\* The end of a collapse makes the generation that waits for it ready.
Ends(next) ==
  /\ collapse' = NoCollapse
  /\ turn' = IF turn = "waiting" THEN next ELSE turn

\* initial() reads the newest head, before the hooks.
Capture ==
  /\ collapse.stage = "created"
  /\ collapse' = [collapse EXCEPT !.stage = "captured",
                                  !.expected = NewestHead, !.since = Last]
  /\ UNCHANGED <<entries, turn, queued, crashes>>

\* No model, declined by a hook, or a failure that is not retried.
Fails ==
  /\ collapse.stage \in {"created", "captured", "summarizing", "interrupted"}
  /\ Ends("undone")
  /\ UNCHANGED <<entries, queued, crashes>>

HeadMoved == NewestHead # collapse.expected

Stale ==
  /\ collapse.stage \in {"captured", "prepared"} /\ HeadMoved
  /\ Ends("undone")
  /\ UNCHANGED <<entries, queued, crashes>>

\* A hook has given the summary.
HookSummary ==
  /\ collapse.stage = "captured" /\ ~HeadMoved
  /\ collapse' = [collapse EXCEPT !.stage = "prepared"]
  /\ UNCHANGED <<entries, turn, queued, crashes>>

Call(attempt) ==
  /\ collapse' = [collapse EXCEPT !.stage = "summarizing",
                                  !.attempt = attempt, !.calls = @ + 1]
  /\ UNCHANGED <<entries, turn, queued, crashes>>

Summarize ==
  /\ collapse.stage = "captured" /\ ~HeadMoved
  /\ Call(1)

\* Faulty variant of Retry: the head is read again.
RetryWithNewHead ==
  /\ collapse.stage = "retrying"
  /\ collapse' = [collapse EXCEPT !.stage = "summarizing", !.calls = @ + 1,
                                  !.attempt = @ + 1, !.expected = NewestHead]
  /\ UNCHANGED <<entries, turn, queued, crashes>>

\* Faulty variant of Retry: the attempt is not counted.
RetryUncounted ==
  /\ collapse.stage = "retrying"
  /\ collapse' = [collapse EXCEPT !.stage = "summarizing"]
  /\ UNCHANGED <<entries, turn, queued, crashes>>

\* After the backoff; the head is not looked at before finalization.
Retry ==
  /\ collapse.stage = "retrying"
  /\ Call(collapse.attempt + 1)

Summarized ==
  /\ collapse.stage = "summarizing"
  /\ collapse' = [collapse EXCEPT !.stage = "prepared"]
  /\ UNCHANGED <<entries, turn, queued, crashes>>

\* Faulty variant of AttemptFails: the interrupted attempt is made again.
AttemptFailsUncounted ==
  IF collapse.stage = "interrupted" THEN Call(collapse.attempt)
  ELSE /\ collapse.stage = "summarizing"
       /\ collapse.attempt <= MaxRetries
       /\ collapse' = [collapse EXCEPT !.stage = "retrying"]
       /\ UNCHANGED <<entries, turn, queued, crashes>>

\* A retryable failure; a call that the process did not outlive counts as one.
AttemptFails ==
  /\ collapse.stage \in {"summarizing", "interrupted"}
  /\ IF collapse.attempt <= MaxRetries
       THEN collapse' = [collapse EXCEPT !.stage = "retrying"] /\ UNCHANGED turn
       ELSE Ends("undone")
  /\ UNCHANGED <<entries, queued, crashes>>

Finish ==
  /\ collapse.stage = "prepared" /\ ~HeadMoved
  /\ \E head \in IF Retained(collapse.through) = {} THEN {Last + 1}
                 ELSE Retained(collapse.through) :
       entries' = Append(entries, Entry("summary", head))
  /\ Ends("initial")
  /\ UNCHANGED <<queued, crashes>>

\* Aborted with the conversation or by itself.
AbortCollapse ==
  /\ Live
  /\ Ends("undone")
  /\ UNCHANGED <<entries, queued, crashes>>

\* The process ends and the session is opened again.
Crash ==
  /\ crashes < MaxCrashes
  /\ crashes' = crashes + 1
  /\ collapse' = [collapse EXCEPT !.stage =
                    CASE @ = "captured"    -> "created"
                      [] @ = "summarizing" -> "interrupted"
                      [] OTHER             -> @]
  /\ UNCHANGED <<entries, turn, queued>>

-------------------------------------------------------------------------------
CollapseStep ==
  \/ Capture \/ Fails \/ Stale \/ HookSummary \/ Summarize
  \/ Retry \/ Summarized \/ AttemptFails \/ Finish

Next ==
  \/ Send \/ Write \/ Reset \/ Prepare \/ Attempt \/ Answer \/ CallTool
  \/ GenerationFails \/ Overflow \/ ToolEnds \/ PostTools \/ AbortTurn
  \/ ManualCollapse
  \/ CollapseStep \/ AbortCollapse \/ Crash

Spec == Init /\ [][Next]_vars

\* A collapse that is live is run: its handlers' promises settle.
FairSpec == Spec /\ WF_vars(CollapseStep)

-------------------------------------------------------------------------------
(* Properties.                                                                *)

\* The type invariant.  An entry's head is none (0), itself or an older entry.
TypeOK ==
  /\ entries \in Seq([kind : Kinds, head : Nat])
  /\ \A i \in 1..Last : entries[i].head <= i
  /\ turn \in Turns
  /\ queued \in BOOLEAN
  /\ collapse \in [stage : Stages, through : Nat, expected : Nat,
                   attempt : Nat, calls : Nat, since : Nat]
  /\ crashes \in Nat

\* Heads only move forward (validateEntry, find() in collapse.ts): an entry
\* that has left the context never comes back to it, whatever collapses,
\* resets and handoffs follow.
NothingComesBack ==
  [][\A i \in 1..Last : i \in Context' => i \in Context]_vars

Summarises == Last' > Last /\ entries'[Last'].kind = "summary"

\* What a collapse's prefix does not reach and no head is newer than stays:
\* entries of the turn that went on meanwhile are not lost (collapse.ts,
\* prepared).
RecentStays ==
  [][Summarises =>
       \A i \in Body :
         i > collapse.through /\ i > NewestHead => i \in Context']_vars

\* A head that lands between initial()'s reading and the finalization wins,
\* through retries and restarts: the summary is not appended (expectedHead in
\* the checkpoints of collapse.ts).
LateHeadWins ==
  [][Summarises => \A i \in 1..Last : i > collapse.since => entries[i].head = 0]_vars

\* The provider is not called more often than the policy allows, however often
\* the process ends in the middle of a call (collapse.ts, summarizing).
BoundedCalls == collapse.calls <= MaxRetries + 1

\* A collapse ends, and with it the wait of the generation created after it.
CollapseEnds == Live ~> ~Live

-------------------------------------------------------------------------------
(* What the repository says and the code does not do.                         *)

\* "The summary's `head` is the first entry after `through`": all that follows
\* the summarised prefix stays in the context.
KeptSuffixStays ==
  [][Summarises =>
       \A i \in Body : i > collapse.through => i \in Context']_vars

\* "Collapse never blocks generation or input": a generation does not fault
\* because a collapse is live.
NoTurnFaults == turn # "faulted"
==============================================================================
