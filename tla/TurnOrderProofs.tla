--------------------------- MODULE TurnOrderProofs ---------------------------
(***************************************************************************)
(* Further proofs about TurnInbox, for every bound: a conversation has one *)
(* turn at a time, and what follows from it for the transcript and for     *)
(* what the last turn leaves in the inbox.                                 *)
(***************************************************************************)
EXTENDS TurnInboxProofs

-------------------------------------------------------------------------------
(***************************************************************************)
(* One turn at a time.                                                     *)
(***************************************************************************)
Owner(t)    == task[t].live /\ task[t].kind \in OwnerKinds
LiveTool(t) == task[t].live /\ task[t].kind = "pi.tool"
LivePost(t) == task[t].live /\ task[t].kind = "pi.post_tools"

\* The tools of a turn are waited for by its post_tools; when that is gone, an
\* abort or a fault has ended it.  Only a generation is asked to join.
OneTurn ==
  /\ \A t, u \in TaskId : Owner(t) /\ Owner(u) => t = u
  /\ \A d, u \in TaskId : LiveTool(d) /\ Owner(u) => LivePost(u) /\ d \in task[u].after
  /\ \A u \in TaskId : LivePost(u) => \A d \in task[u].after : task[d].kind = "pi.tool"
  /\ \A d \in TaskId : LiveTool(d) => hurt \/ \E u \in TaskId : LivePost(u)
  /\ \A u \in TaskId : task[u].live /\ task[u].joins => task[u].kind = "pi.generation"

\* No task of a turn is live; the generation x is the only one.
NoTurn == \A u \in TaskId : task[u].live => ~IsTurn(u) /\ ~task[u].joins

Alone(x) ==
  /\ task[x].live /\ task[x].kind = "pi.generation"
  /\ \A u \in TaskId \ {x} : task[u].live => ~IsTurn(u) /\ ~task[u].joins

\* The tasks of the turn stay as they are.
SameTurn ==
  /\ \A u \in TaskId :
       /\ task'[u].live = task[u].live /\ task'[u].kind = task[u].kind
       /\ task'[u].after = task[u].after /\ task'[u].joins = task[u].joins
       /\ task'[u].call = task[u].call /\ task'[u].entry = task[u].entry
       /\ task'[u].inputs = task[u].inputs
  /\ hurt' = hurt

\* The task t ends, and what others wait for is kept.
Ends(t, g) ==
  /\ ~g[t].live
  /\ \A u \in TaskId \ {t} : task[u].live => g[u] = task[u]
  /\ \A u \in TaskId : g[u].live => u # t /\ task[u].live
  /\ \A v \in TaskId \ {t} : \A u \in task[v].after : task[v].live =>
       /\ g[u].kind = task[u].kind /\ g[u].call = task[u].call
       /\ u # t => g[u] = task[u]

Closes(t) == Ends(t, task') /\ (hurt' \/ (hurt' = hurt /\ ~Owner(t)))

\* The generation t hands over to tools and the post_tools x.
HandsOver(t, x) ==
  /\ Owner(t) /\ task[t].kind = "pi.generation"
  /\ task'[x].live /\ task'[x].kind = "pi.post_tools" /\ ~task'[x].joins
  /\ task'[x].inputs = task[t].inputs
  /\ \A d \in task'[x].after : LiveTool(d)'
  /\ \A u \in TaskId \ ({x} \cup task'[x].after) :
       task'[u].live => ~IsTurn(u)'
  /\ \A u \in TaskId \ {x} : task'[u].live => ~task'[u].joins

LEMMA SameShape ==
  ASSUME TypeOK, OneTurn, SameTurn
  PROVE  OneTurn'
<1>1. \A u \in TaskId :
        /\ task'[u].live = task[u].live /\ task'[u].kind = task[u].kind
        /\ task'[u].after = task[u].after /\ task'[u].joins = task[u].joins
  BY DEF SameTurn
<1>2. \A u \in TaskId : /\ Owner(u)' <=> Owner(u)
                        /\ LiveTool(u)' <=> LiveTool(u)
                        /\ LivePost(u)' <=> LivePost(u)
  BY <1>1 DEF Owner, LiveTool, LivePost
<1>3. /\ \A t, u \in TaskId : Owner(t)' /\ Owner(u)' => t = u
      /\ \A d, u \in TaskId : LiveTool(d)' /\ Owner(u)' => LivePost(u)' /\ d \in task'[u].after
  BY <1>1, <1>2 DEF OneTurn
<1>4. \A u \in TaskId : LivePost(u)' => \A d \in task'[u].after : task'[d].kind = "pi.tool"
  <2> SUFFICES ASSUME NEW u \in TaskId, LivePost(u)', NEW d \in task'[u].after
               PROVE  task'[d].kind = "pi.tool"
    OBVIOUS
  <2>1. d \in TaskId
    BY <1>1 DEF TypeOK, TaskRecord
  <2> QED
    BY <1>1, <1>2, <2>1 DEF OneTurn
<1>5. \A d \in TaskId : LiveTool(d)' => hurt' \/ \E u \in TaskId : LivePost(u)'
  BY <1>2 DEF OneTurn, SameTurn
<1>6. \A u \in TaskId : task'[u].live /\ task'[u].joins => task'[u].kind = "pi.generation"
  BY <1>1 DEF OneTurn
<1> QED
  BY <1>3, <1>4, <1>5, <1>6 DEF OneTurn

LEMMA ClosedShape ==
  ASSUME TypeOK, OneTurn, NEW t \in TaskId, Closes(t)
  PROVE  OneTurn'
<1>1. \A u \in TaskId : task'[u].live => u # t /\ task[u].live /\ task'[u] = task[u]
  BY DEF Closes, Ends
<1>2. \A u \in TaskId : LivePost(u)' => \A d \in task'[u].after : task'[d].kind = "pi.tool"
  <2> SUFFICES ASSUME NEW u \in TaskId, LivePost(u)', NEW d \in task'[u].after
               PROVE  task'[d].kind = "pi.tool"
    OBVIOUS
  <2>1. u # t /\ LivePost(u) /\ task'[u] = task[u]
    BY <1>1 DEF LivePost
  <2>2. task[d].kind = "pi.tool" /\ task[u].live
    BY <2>1 DEF OneTurn, LivePost
  <2> QED
    BY <2>1, <2>2 DEF Closes, Ends
<1>3. \A d \in TaskId : LiveTool(d)' => hurt' \/ \E u \in TaskId : LivePost(u)'
  <2> SUFFICES ASSUME NEW d \in TaskId, LiveTool(d)', ~hurt'
               PROVE  \E u \in TaskId : LivePost(u)'
    OBVIOUS
  <2>1. ~hurt /\ ~Owner(t)
    BY DEF Closes
  <2>2. LiveTool(d)
    BY <1>1 DEF LiveTool
  <2>3. PICK u \in TaskId : LivePost(u)
    BY <2>1, <2>2 DEF OneTurn
  <2>4. u # t
    BY <2>1, <2>3 DEF Owner, LivePost, OwnerKinds
  <2>5. task'[u] = task[u]
    BY <2>3, <2>4 DEF Closes, Ends, LivePost
  <2> QED
    BY <2>3, <2>5 DEF LivePost
<1>4. /\ \A u \in TaskId : Owner(u)' => Owner(u) /\ task'[u] = task[u]
      /\ \A u \in TaskId : LiveTool(u)' => LiveTool(u)
      /\ \A u \in TaskId : task'[u].live /\ task'[u].joins => task'[u].kind = "pi.generation"
  BY <1>1 DEF Owner, LiveTool, OneTurn
<1>5. \A u, v \in TaskId : Owner(u)' /\ Owner(v)' => u = v
  BY <1>4 DEF OneTurn
<1>6. \A d, u \in TaskId : LiveTool(d)' /\ Owner(u)' => LivePost(u)' /\ d \in task'[u].after
  BY <1>4 DEF OneTurn, LivePost
<1> QED
  BY <1>2, <1>3, <1>4, <1>5, <1>6 DEF OneTurn

LEMMA NoTurnShape ==
  ASSUME NoTurn'
  PROVE  OneTurn'
BY DEF NoTurn, OneTurn, IsTurn, Owner, LiveTool, LivePost, OwnerKinds

LEMMA AloneShape ==
  ASSUME NEW x \in TaskId, Alone(x)'
  PROVE  OneTurn' /\ Busy'
<1>1. \A u \in TaskId : Owner(u)' \/ LiveTool(u)' \/ LivePost(u)' => u = x
  BY DEF Alone, IsTurn, Owner, LiveTool, LivePost, OwnerKinds
<1>2. ~LiveTool(x)' /\ ~LivePost(x)' /\ task'[x].kind = "pi.generation" /\ task'[x].live
  BY DEF Alone, LiveTool, LivePost
<1>3. \A u \in TaskId : task'[u].live /\ task'[u].joins => u = x
  BY DEF Alone
<1>4. Busy'
  BY <1>2 DEF Busy, IsTurn
<1> QED
  BY <1>1, <1>2, <1>3, <1>4 DEF OneTurn

LEMMA HandedShape ==
  ASSUME NEW t \in TaskId, NEW x \in TaskId, HandsOver(t, x)
  PROVE  OneTurn' /\ Busy'
<1>1. \A u \in TaskId : Owner(u)' => u = x
  BY DEF HandsOver, Owner, OwnerKinds, LiveTool, IsTurn
<1>2. \A d \in TaskId : LiveTool(d)' => d \in task'[x].after
  BY DEF HandsOver, LiveTool, IsTurn
<1>3. LivePost(x)' /\ Owner(x)' /\ Busy'
  BY DEF HandsOver, LivePost, Owner, OwnerKinds, Busy, IsTurn
<1>4. \A u \in TaskId : LivePost(u)' => u = x
  BY <1>1 DEF LivePost, Owner, OwnerKinds
<1>5. \A d \in task'[x].after : task'[d].kind = "pi.tool"
  BY DEF HandsOver, LiveTool
<1>6. \A u \in TaskId : task'[u].live => ~task'[u].joins
  BY DEF HandsOver
<1> QED
  BY <1>1, <1>2, <1>3, <1>4, <1>5, <1>6 DEF OneTurn

-------------------------------------------------------------------------------
(***************************************************************************)
(* How the tasks of a turn come and go.                                    *)
(***************************************************************************)
LEMMA EndEnds ==
  ASSUME task \in Table, NEW t \in TaskId, NEW f \in Table,
         \A u \in TaskId \ {t} : f[u] = task[u],
         f[t].kind = task[t].kind, f[t].call = task[t].call
  PROVE  /\ Ends(t, End(f, t))
         /\ \A v \in TaskId \ {t} : task[v].live /\ t \in task[v].after =>
              End(f, t)[t].entry = f[t].entry
<1> DEFINE g == [f EXCEPT ![t].live = FALSE, ![t].inputs = {}]
           e == End(f, t)
<1>1. /\ ~g[t].live /\ \A u \in TaskId \ {t} : g[u] = task[u]
      /\ g[t].kind = task[t].kind /\ g[t].call = task[t].call /\ g[t].entry = f[t].entry
  <2>1. f[t] \in TaskRecord /\ \A u \in TaskId \ {t} : g[u] = f[u]
    BY DEF Table
  <2>2. g[t] = [f[t] EXCEPT !.live = FALSE, !.inputs = {}]
    BY DEF Table, TaskRecord
  <2>3. LET r == [f[t] EXCEPT !.live = FALSE, !.inputs = {}]
        IN r.kind = f[t].kind /\ r.call = f[t].call /\ r.entry = f[t].entry /\ ~r.live
    BY <2>1 DEF TaskRecord
  <2> HIDE DEF g
  <2> QED
    BY <2>1, <2>2, <2>3
<1>2. e = [u \in TaskId |->
        IF g[u].live \/ \E v \in TaskId : g[v].live /\ u \in g[v].after THEN g[u] ELSE NoTask]
  BY DEF End
<1> HIDE DEF g, e
<1>3. ~NoTask.live
  BY DEF NoTask
<1>4. \A u \in TaskId : e[u] = g[u] \/ (e[u] = NoTask /\ ~g[u].live)
  BY <1>2
<1>5. \A v \in TaskId \ {t} : \A u \in TaskId : task[v].live /\ u \in task[v].after => e[u] = g[u]
  BY <1>1, <1>2
<1>6. \A v \in TaskId : task[v].after \subseteq TaskId
  BY DEF Table, TaskRecord
<1>7. ~e[t].live /\ \A u \in TaskId \ {t} : task[u].live => e[u] = task[u]
  BY <1>1, <1>3, <1>4
<1>8. \A u \in TaskId : e[u].live => u # t /\ task[u].live
  BY <1>1, <1>3, <1>4
<1>9. \A v \in TaskId \ {t} : \A u \in task[v].after : task[v].live =>
        /\ e[u].kind = task[u].kind /\ e[u].call = task[u].call
        /\ u # t => e[u] = task[u]
  BY <1>1, <1>5, <1>6
<1>10. \A v \in TaskId \ {t} : task[v].live /\ t \in task[v].after => e[t].entry = f[t].entry
  BY <1>1, <1>5
<1> QED
  BY <1>7, <1>8, <1>9, <1>10 DEF Ends, e

\* When the task that owns the group closes, the turn is over unless it goes on in
\* a new task.
LEMMA OwnerEnds ==
  ASSUME IInv, OneTurn, NEW t \in TaskId, NEW kind \in OwnerKinds, Runs(t, kind)
  PROVE  /\ \A u \in TaskId : End(task, t)[u].live =>
              End(task, t)[u] = task[u] /\ ~IsTurn(u) /\ ~task[u].joins
         /\ InState("placed") = task[t].inputs
<1>1. task \in Table /\ Owner(t) /\ Groups(task, InState("placed"))
  BY Before DEF IInv, Runs, Ready, Owner
<1>2. Ends(t, End(task, t))
  BY <1>1, EndEnds
<1>3. \A u \in TaskId : ~LiveTool(u)
  <2> SUFFICES ASSUME NEW u \in TaskId, LiveTool(u) PROVE FALSE
    OBVIOUS
  <2>1. u \in task[t].after
    BY <1>1 DEF OneTurn
  <2> QED
    BY <2>1 DEF LiveTool, Runs, Ready
<1>4. ASSUME NEW u \in TaskId, End(task, t)[u].live
      PROVE  End(task, t)[u] = task[u] /\ ~IsTurn(u) /\ ~task[u].joins
  <2>1. u # t /\ task[u].live /\ End(task, t)[u] = task[u]
    BY <1>2, <1>4 DEF Ends
  <2>2. ~Owner(u) /\ ~LiveTool(u)
    BY <1>1, <1>3, <2>1 DEF OneTurn
  <2>3. ~IsTurn(u)
    BY <2>1, <2>2 DEF Owner, LiveTool, OwnerKinds, IsTurn
  <2> QED
    BY <2>1, <2>3 DEF OneTurn, IsTurn
<1>5. InState("placed") = task[t].inputs
  BY <1>1, ZenonT(60) DEF Groups, OneTurn, Owner
<1> QED
  BY <1>4, <1>5

-------------------------------------------------------------------------------
(***************************************************************************)
(* The steps that end a turn or carry it on past a boundary.               *)
(***************************************************************************)
IsInput(e) == e.kind \in {"user", "write", "reset"}
IsHead(e)  == e.kind \in {"reset", "handoff"}

\* Entries that are no inputs, and no entry with a head of its own.
Plain(s)   == s \in Seq(Entry) /\ \A k \in DOMAIN s : ~IsInput(s[k])
NoHeads(s) == \A k \in DOMAIN s : ~IsHead(s[k])

\* Entries that are neither calls nor results; and what the step that ends t begins with.
Aside(s)     == s \in Seq(Entry) /\ \A k \in DOMAIN s : s[k].kind \notin {"calls", "result"}
Missing(t)   == IF task[t].kind = "pi.post_tools" THEN Synthesised(t) ELSE <<>>
Begins(t, a) == \E h : Aside(h) /\ a = Missing(t) \o h

\* The answer of a turn: the message that the step appends, or the one whose calls
\* are joined.
Answers2(t, a, answer) ==
  \/ task[t].kind = "pi.generation" /\ a = <<[kind |-> "assistant", of |-> 0]>>
     /\ answer = Len(entries) + 1
  \/ task[t].kind = "pi.post_tools" /\ answer = LastCalls

\* The group of t is settled.
Concludes(t, B, a, status, answer) ==
  /\ Owner(t) /\ Runs(t, task[t].kind) /\ Boundary(B) /\ Plain(a) /\ Begins(t, a)
  /\ B \in Selections("final") \/ (B \in Selections("postTools") /\ Cut # 0)
  /\ input' = Settled(Moved(B), task[t].inputs, status, answer)
  /\ entries' = entries \o (a \o Entries(B))
  /\ CreateFor(End(task, t), Triggers(B))
  /\ (status = "done" /\ Answers2(t, a, answer)) \/ (status = "unanswered" /\ answer = 0)

\* A generation r takes the group of t over.
Continues(t, B, a, b, r) ==
  /\ Owner(t) /\ Runs(t, task[t].kind) /\ Boundary(B)
  /\ Plain(a) /\ Plain(b) /\ NoHeads(a) /\ NoHeads(b) /\ Begins(t, a) /\ Aside(b)
  /\ Cut = 0 /\ B \in Selections("final") \cup Selections("postTools")
  /\ input' = Moved(B)
  /\ entries' = entries \o (a \o Entries(B) \o b)
  /\ r \in TaskRecord /\ r.live /\ r.kind = "pi.generation" /\ Create(End(task, t), r)
  /\ r.joins => task[t].kind = "pi.post_tools"

Concluding(t) ==
  \E at \in {"final", "postTools"} : \E B \in Selections(at) : \E a, status, answer :
    Concludes(t, B, a, status, answer)

Continuing(t) ==
  \E at \in {"final", "postTools"} : \E B \in Selections(at) : \E a, b, r :
    Continues(t, B, a, b, r)

LEMMA OneEntry ==
  ASSUME NEW e \in Entry, ~IsInput(e)
  PROVE  Plain(<<e>>) /\ (~IsHead(e) => NoHeads(<<e>>))
BY DEF Plain, NoHeads

LEMMA NoEntry == Plain(<<>>) /\ NoHeads(<<>>) /\ Aside(<<>>)
BY DEF Plain, NoHeads, Aside

LEMMA AsideEntry ==
  ASSUME NEW e \in Entry, e.kind \notin {"calls", "result"}
  PROVE  Aside(<<e>>)
BY DEF Aside

LEMMA AsideConcat ==
  ASSUME NEW a, NEW b, Aside(a), Aside(b)
  PROVE  Aside(a \o b)
<1>1. a \in Seq(Entry) /\ b \in Seq(Entry)
  BY DEF Aside
<1>2. /\ a \o b \in Seq(Entry)
      /\ \A k \in DOMAIN (a \o b) : \/ k \in DOMAIN a /\ (a \o b)[k] = a[k]
                                    \/ k - Len(a) \in DOMAIN b /\ (a \o b)[k] = b[k - Len(a)]
  BY <1>1
<1> QED
  BY <1>2 DEF Aside

\* A generation ends without results.
LEMMA BeginsPlain ==
  ASSUME NEW t, task[t].kind # "pi.post_tools", NEW a, Aside(a)
  PROVE  Begins(t, a)
<1>1. a = <<>> \o a
  BY DEF Aside
<1>2. a = Missing(t) \o a
  BY <1>1 DEF Missing
<1> QED
  BY <1>2 DEF Begins

LEMMA PlainConcat ==
  ASSUME NEW a, NEW b, Plain(a), Plain(b)
  PROVE  Plain(a \o b) /\ (NoHeads(a) /\ NoHeads(b) => NoHeads(a \o b))
<1>1. a \in Seq(Entry) /\ b \in Seq(Entry)
  BY DEF Plain
<1>2. /\ a \o b \in Seq(Entry)
      /\ \A k \in DOMAIN (a \o b) : \/ k \in DOMAIN a /\ (a \o b)[k] = a[k]
                                    \/ k - Len(a) \in DOMAIN b /\ (a \o b)[k] = b[k - Len(a)]
  BY <1>1
<1> QED
  BY <1>2 DEF Plain, NoHeads

LEMMA SynthesisedPlain ==
  ASSUME NEW t \in TaskId, task \in Table
  PROVE  Plain(Synthesised(t)) /\ NoHeads(Synthesised(t))
<1>1. Synthesised(t) \in Seq(Entry)
  BY SynthesisedTyped
<1>2. \A k \in DOMAIN Synthesised(t) : Synthesised(t)[k].kind = "result"
  BY DEF Synthesised
<1> QED
  BY <1>1, <1>2 DEF Plain, NoHeads, IsInput, IsHead

LEMMA HandoffPlain ==
  ASSUME NEW t
  PROVE  Plain(Handoff(t)) /\ Aside(Handoff(t)) /\ (Asked(t) = {} => NoHeads(Handoff(t)))
<1> DEFINE e == [kind |-> "handoff", of |-> 0]
<1>1. e \in Entry /\ ~IsInput(e) /\ e.kind \notin {"calls", "result"}
  BY DEF Entry, IsInput
<1>2. Handoff(t) \in {<<>>, <<e>>} /\ (Asked(t) = {} => Handoff(t) = <<>>)
  BY DEF Handoff
<1> HIDE DEF e
<1>3. Plain(<<e>>) /\ Aside(<<e>>)
  BY <1>1, OneEntry, AsideEntry
<1> QED
  BY <1>2, <1>3, NoEntry

\* What a step appends, as one piece.
LEMMA Pieces ==
  ASSUME NEW a \in Seq(Entry), NEW b \in Seq(Entry), NEW c \in Seq(Entry), entries \in Seq(Entry)
  PROVE  /\ entries \o a \o b = entries \o (a \o b)
         /\ entries \o a \o b \o c = entries \o (a \o b \o c)
<1>1. a \o b \in Seq(Entry)
  BY Associative
<1>2. entries \o a \o b = entries \o (a \o b)
  BY Associative
<1>3. entries \o (a \o b) \o c = entries \o (a \o b \o c)
  BY <1>1, Associative
<1> QED
  BY <1>2, <1>3

LEMMA SelectedTyped ==
  ASSUME IInv, NEW at, NEW B \in Selections(at)
  PROVE  B \subseteq InputId /\ Entries(B) \in Seq(Entry) /\ Triggers(B) \in SUBSET InputId
<1>1. input \in InputTable /\ Books(input, inbox, InState("placed"))
  BY Before DEF IInv
<1>2. B \subseteq InputId
  BY <1>1, MovedIs DEF KeepsBooks
<1> QED
  BY <1>1, <1>2, EntriesTyped DEF Triggers

LEMMA AnswerTurns ==
  ASSUME IInv, NEW t \in TaskId, AnswerFinal(t)
  PROVE  Concluding(t) \/ Continuing(t)
<1> DEFINE e == [kind |-> "assistant", of |-> 0]
           c == [kind |-> "continue", of |-> 0]
           said == Append(entries, e)
<1>1. PICK B \in Selections("final") :
        /\ Boundary(B)
        /\ \/ /\ Cut = 0
              /\ entries' = Append(said \o Entries(B), c)
              /\ Create(End(task, t), Generation(task[t].inputs))
              /\ input' = Moved(B)
           \/ /\ entries' = said \o Entries(B)
              /\ CreateFor(End(task, t), Triggers(B))
              /\ input' = Settled(Moved(B), task[t].inputs, "done", Len(entries) + 1)
  BY DEF AnswerFinal, Answered
<1>2. /\ entries \in Seq(Entry) /\ Entries(B) \in Seq(Entry) /\ task[t].inputs \in SUBSET InputId
  BY SelectedTyped, Before DEF TypeOK
<1>3. /\ e \in Entry /\ c \in Entry /\ ~IsInput(e) /\ ~IsInput(c) /\ ~IsHead(e) /\ ~IsHead(c)
      /\ e.kind \notin {"calls", "result"} /\ c.kind \notin {"calls", "result"}
  BY DEF Entry, IsInput, IsHead
<1>4. Runs(t, "pi.generation") /\ Owner(t) /\ task[t].kind = "pi.generation"
  BY DEF AnswerFinal, Runs, Ready, Owner, OwnerKinds
<1> DEFINE g == Generation(task[t].inputs)
<1>5. g \in TaskRecord /\ g.live /\ g.kind = "pi.generation" /\ ~g.joins
  BY <1>2, RecordsTyped DEF Generation, NoTask
<1>6. Plain(<<e>>) /\ NoHeads(<<e>>) /\ Plain(<<c>>) /\ NoHeads(<<c>>)
      /\ <<e>> \in Seq(Entry) /\ <<c>> \in Seq(Entry) /\ Begins(t, <<e>>) /\ Aside(<<c>>)
  <2> HIDE DEF e, c
  <2>1. Aside(<<e>>) /\ Aside(<<c>>)
    BY <1>3, AsideEntry
  <2>2. Begins(t, <<e>>)
    BY <1>4, <2>1, BeginsPlain
  <2> QED
    BY <1>3, <2>1, <2>2, OneEntry DEF Plain
<1>7. /\ said \o Entries(B) = entries \o (<<e>> \o Entries(B))
      /\ Append(said \o Entries(B), c) = entries \o (<<e>> \o Entries(B) \o <<c>>)
  <2> HIDE DEF e, c
  <2>1. said = entries \o <<e>>
    BY <1>2, <1>3, AppendIsConcat
  <2> HIDE DEF said
  <2>2. /\ said \o Entries(B) = entries \o (<<e>> \o Entries(B))
        /\ said \o Entries(B) \o <<c>> = entries \o (<<e>> \o Entries(B) \o <<c>>)
    <3>1. /\ <<e>> \in Seq(Entry) /\ Entries(B) \in Seq(Entry) /\ <<c>> \in Seq(Entry)
          /\ entries \in Seq(Entry)
      BY <1>2, <1>6
    <3>2. /\ entries \o <<e>> \o Entries(B) = entries \o (<<e>> \o Entries(B))
          /\ entries \o <<e>> \o Entries(B) \o <<c>> = entries \o (<<e>> \o Entries(B) \o <<c>>)
      BY <3>1, Pieces
    <3> QED
      BY <2>1, <3>2, Zenon
  <2>3. said \o Entries(B) \in Seq(Entry)
    BY <1>2, <1>6, <2>1
  <2>4. Append(said \o Entries(B), c) = said \o Entries(B) \o <<c>>
    BY <1>3, <2>3, AppendIsConcat
  <2> QED
    BY <2>2, <2>4
<1> HIDE DEF said, g
<1>8. CASE /\ Cut = 0 /\ entries' = Append(said \o Entries(B), c)
           /\ Create(End(task, t), g) /\ input' = Moved(B)
  <2>1. Continues(t, B, <<e>>, <<c>>, g)
    BY <1>1, <1>4, <1>5, <1>6, <1>7, <1>8 DEF Continues
  <2> QED
    BY <2>1 DEF Continuing
<1>9. CASE /\ entries' = said \o Entries(B) /\ CreateFor(End(task, t), Triggers(B))
           /\ input' = Settled(Moved(B), task[t].inputs, "done", Len(entries) + 1)
  <2>1. Concludes(t, B, <<e>>, "done", Len(entries) + 1)
    BY <1>1, <1>4, <1>6, <1>7, <1>9 DEF Concludes, Answers2
  <2> QED
    BY <2>1 DEF Concluding
<1> QED
  BY <1>1, <1>8, <1>9 DEF g

LEMMA FailTurns ==
  ASSUME IInv, NEW t \in TaskId, Fail(t)
  PROVE  Concluding(t)
<1> DEFINE e == [kind |-> "notice", of |-> 0]
<1>1. PICK B \in Selections("final"), notice \in {<<>>, <<e>>} :
        /\ input' = Settled(Moved(B), task[t].inputs, "unanswered", 0)
        /\ Boundary(B)
        /\ entries' = entries \o notice \o Entries(B)
        /\ CreateFor(End(task, t), Triggers(B))
  BY DEF Fail
<1>2. entries \in Seq(Entry) /\ Entries(B) \in Seq(Entry)
  BY SelectedTyped, Before DEF TypeOK
<1>3. Plain(notice) /\ notice \in Seq(Entry) /\ Aside(notice)
  <2>1. e \in Entry /\ ~IsInput(e) /\ e.kind \notin {"calls", "result"}
    BY DEF Entry, IsInput
  <2> HIDE DEF e
  <2>2. Plain(<<>>) /\ Plain(<<e>>) /\ Aside(<<>>) /\ Aside(<<e>>)
    BY <2>1, OneEntry, NoEntry, AsideEntry
  <2> QED
    BY <1>1, <2>2 DEF Plain
<1>4. entries' = entries \o (notice \o Entries(B))
  BY <1>1, <1>2, <1>3, Pieces
<1>5. Runs(t, "pi.generation") /\ Owner(t) /\ task[t].kind = "pi.generation"
  BY DEF Fail, Runs, Ready, Owner, OwnerKinds
<1>6. Begins(t, notice)
  BY <1>3, <1>5, BeginsPlain
<1>7. Concludes(t, B, notice, "unanswered", 0)
  BY <1>1, <1>3, <1>4, <1>5, <1>6 DEF Concludes
<1> QED
  BY <1>7 DEF Concluding

LEMMA JoinAppends ==
  ASSUME IInv, NEW t \in TaskId, NEW at, NEW B \in Selections(at), Join(t, B)
  PROVE  LET a == Synthesised(t) \o Handoff(t)
         IN /\ Plain(a) /\ (Asked(t) = {} => NoHeads(a)) /\ Begins(t, a)
            /\ entries' = entries \o (a \o Entries(B))
            /\ Boundary(B) /\ Owner(t) /\ Runs(t, task[t].kind) /\ task[t].kind = "pi.post_tools"
<1>1. entries \in Seq(Entry) /\ Entries(B) \in Seq(Entry) /\ task \in Table
  BY SelectedTyped, Before DEF TypeOK
<1>2. /\ Plain(Synthesised(t)) /\ NoHeads(Synthesised(t)) /\ Plain(Handoff(t))
      /\ (Asked(t) = {} => NoHeads(Handoff(t))) /\ Aside(Handoff(t))
  BY <1>1, SynthesisedPlain, HandoffPlain
<1>3. Synthesised(t) \in Seq(Entry) /\ Handoff(t) \in Seq(Entry)
  BY <1>2 DEF Plain
<1>4. entries \o Synthesised(t) \o Handoff(t) \o Entries(B)
        = entries \o (Synthesised(t) \o Handoff(t) \o Entries(B))
  BY <1>1, <1>3, Pieces, ZenonT(60)
<1>5. Plain(Synthesised(t) \o Handoff(t))
      /\ (Asked(t) = {} => NoHeads(Synthesised(t) \o Handoff(t)))
  BY <1>2, PlainConcat
<1>6. task[t].kind = "pi.post_tools"
  BY DEF Join, Runs
<1>7. Begins(t, Synthesised(t) \o Handoff(t))
  BY <1>2, <1>6 DEF Begins, Missing
<1> QED
  BY <1>4, <1>5, <1>7 DEF Join, Runs, Ready, Owner, OwnerKinds

LEMMA PostToolsTurns ==
  ASSUME IInv, NEW t \in TaskId, PostTools(t)
  PROVE  Concluding(t) \/ Continuing(t)
<1> DEFINE a == Synthesised(t) \o Handoff(t)
<1>1. CASE EndAsked(t)
  <2>1. PICK B \in Selections("final") :
          /\ Join(t, B) /\ CreateFor(End(task, t), Triggers(B))
          /\ input' = Settled(Moved(B), task[t].inputs, "done", LastCalls)
    BY <1>1 DEF EndAsked
  <2>2. Concludes(t, B, a, "done", LastCalls)
    BY <2>1, JoinAppends DEF Concludes, Answers2
  <2> QED
    BY <2>2 DEF Concluding
<1>2. CASE EndReset(t)
  <2>1. PICK B \in Selections("postTools") :
          /\ Join(t, B) /\ CreateFor(End(task, t), Triggers(B))
          /\ input' = Settled(Moved(B), task[t].inputs, "unanswered", 0)
    BY <1>2 DEF EndReset
  <2>2. Concludes(t, B, a, "unanswered", 0)
    BY <1>2, <2>1, JoinAppends DEF Concludes, EndReset
  <2> QED
    BY <2>2 DEF Concluding
<1>3. CASE CarryOn(t)
  <2>1. PICK B \in Selections("postTools") : CarryOnGroup(t, B)
    BY <1>3 DEF CarryOn
  <2> DEFINE ids == task[t].inputs \cup Triggers(B)
             r   == [Generation(ids) EXCEPT !.joins = TRUE]
  <2>2. Join(t, B) /\ input' = Moved(B) /\ Create(End(task, t), r)
    BY <2>1 DEF CarryOnGroup
  <2>3. ids \in SUBSET InputId
    BY SelectedTyped, Before
  <2> HIDE DEF ids
  <2>4. r \in TaskRecord /\ r.live /\ r.kind = "pi.generation"
    BY <2>3, RecordsTyped DEF Generation, NoTask, TaskRecord
  <2> HIDE DEF r
  <2>5. /\ Plain(a) /\ NoHeads(a) /\ entries' = entries \o (a \o Entries(B)) /\ Begins(t, a)
        /\ Boundary(B) /\ Owner(t) /\ Runs(t, task[t].kind) /\ Cut = 0
        /\ task[t].kind = "pi.post_tools"
    BY <1>3, <2>2, JoinAppends DEF CarryOn
  <2>6. a \o Entries(B) \o <<>> = a \o Entries(B)
    <3>1. a \o Entries(B) \in Seq(Entry)
      BY <2>5, SelectedTyped, Associative DEF Plain
    <3> HIDE DEF a
    <3> QED
      BY <3>1
  <2>7. Continues(t, B, a, <<>>, r)
    BY <2>2, <2>4, <2>5, <2>6, NoEntry DEF Continues
  <2> QED
    BY <2>7 DEF Continuing
<1> QED
  BY <1>1, <1>2, <1>3 DEF PostTools

-------------------------------------------------------------------------------
(***************************************************************************)
(* Every step leaves one turn.                                             *)
(***************************************************************************)
TurnKinds == {"pi.generation", "pi.tool", "pi.post_tools"}

\* No live task of a turn in a table.
Quiet(f) == \A u \in TaskId : f[u].live => f[u].kind \notin TurnKinds /\ ~f[u].joins

LEMMA QuietEnd ==
  ASSUME IInv, OneTurn, NEW t \in TaskId, Owner(t), Runs(t, task[t].kind)
  PROVE  End(task, t) \in Table /\ Quiet(End(task, t)) /\ InState("placed") = task[t].inputs
<1>1. End(task, t) \in Table
  BY EndIs, Before
<1>2. task[t].kind \in OwnerKinds
  BY DEF Owner
<1>3. /\ \A u \in TaskId : End(task, t)[u].live =>
           End(task, t)[u] = task[u] /\ ~IsTurn(u) /\ ~task[u].joins
      /\ InState("placed") = task[t].inputs
  BY <1>2, OwnerEnds
<1> QED
  BY <1>1, <1>3 DEF Quiet, TurnKinds, IsTurn

LEMMA CreatedAlone ==
  ASSUME NEW f \in Table, Quiet(f), NEW r \in TaskRecord, r.live, r.kind = "pi.generation",
         Create(f, r)
  PROVE  \E x \in TaskId : Alone(x)' /\ task'[x] = r
<1>1. PICK x \in Free(f) : x \in TaskId /\ task' = [f EXCEPT ![x] = r]
  BY CreateIs
<1>2. task'[x] = r /\ \A u \in TaskId \ {x} : task'[u] = f[u]
  BY <1>1 DEF Table
<1>3. Alone(x)'
  BY <1>1, <1>2 DEF Alone, Quiet, TurnKinds, IsTurn
<1> QED
  BY <1>1, <1>2, <1>3

LEMMA CreatedFor ==
  ASSUME NEW f \in Table, Quiet(f), NEW ids \in SUBSET InputId, CreateFor(f, ids)
  PROVE  /\ ids = {} => NoTurn'
         /\ ids # {} => \E x \in TaskId : Alone(x)' /\ task'[x] = Generation(ids)
<1>1. CASE ids = {}
  BY <1>1 DEF CreateFor, NoTurn, Quiet, IsTurn, TurnKinds
<1>2. CASE ids # {}
  <2>1. Create(f, Generation(ids)) /\ Generation(ids) \in TaskRecord
    BY <1>2, RecordsTyped DEF CreateFor
  <2>2. Generation(ids).live /\ Generation(ids).kind = "pi.generation"
    BY DEF Generation, NoTask
  <2> QED
    BY <1>2, <2>1, <2>2, CreatedAlone
<1> QED
  BY <1>1, <1>2

LEMMA ConcludedTurn ==
  ASSUME IInv, OneTurn, NEW t \in TaskId, NEW at, NEW B \in Selections(at), NEW a, NEW status,
         NEW answer, Concludes(t, B, a, status, answer)
  PROVE  /\ Triggers(B) = {} => NoTurn'
         /\ Triggers(B) # {} => \E x \in TaskId : Alone(x)' /\ task'[x] = Generation(Triggers(B))
<1>1. End(task, t) \in Table /\ Quiet(End(task, t))
  BY QuietEnd DEF Concludes
<1>2. Triggers(B) \in SUBSET InputId
  BY SelectedTyped
<1>3. CreateFor(End(task, t), Triggers(B))
  BY DEF Concludes
<1> QED
  BY <1>1, <1>2, <1>3, CreatedFor

LEMMA ContinuedTurn ==
  ASSUME IInv, OneTurn, NEW t \in TaskId, NEW B, NEW a, NEW b, NEW r, Continues(t, B, a, b, r)
  PROVE  \E x \in TaskId : Alone(x)' /\ task'[x] = r
<1>1. End(task, t) \in Table /\ Quiet(End(task, t))
  BY QuietEnd DEF Continues
<1> QED
  BY <1>1, CreatedAlone DEF Continues

LEMMA IdleIsQuiet ==
  ASSUME OneTurn, ~Busy
  PROVE  Quiet(task)
BY DEF OneTurn, Busy, Quiet, IsTurn, TurnKinds

LEMMA SendTurn ==
  ASSUME IInv, OneTurn, SendIdle
  PROVE  \E x \in TaskId : Alone(x)' /\ ~task'[x].joins
<1>1. PICK B \in Selections("final") : Create(task, Generation(Triggers(B) \cup {NextId}))
  BY DEF SendIdle
<1> DEFINE ids == Triggers(B) \cup {NextId}
           r   == Generation(ids)
<1>2. ids \in SUBSET InputId
  <2>1. NextId \in InputId
    BY NextIdIsFree DEF IInv, SendIdle
  <2> QED
    BY <2>1, SelectedTyped
<1> HIDE DEF ids
<1>3. r \in TaskRecord /\ r.live /\ r.kind = "pi.generation" /\ ~r.joins
  BY <1>2, RecordsTyped DEF Generation, NoTask
<1>4. Create(task, r)
  BY <1>1 DEF ids
<1> HIDE DEF r
<1>5. task \in Table /\ Quiet(task)
  BY Before, IdleIsQuiet DEF SendIdle
<1> QED
  BY <1>3, <1>4, <1>5, CreatedAlone

\* The tools of a message and what joins them.
LEMMA CallTurn ==
  ASSUME IInv, OneTurn, NEW t \in TaskId, CallTools(t)
  PROVE  \E x \in TaskId : HandsOver(t, x)
           /\ \E n \in CallId :
                /\ entries' = Append(entries, [kind |-> "calls", of |-> n])
                /\ {task'[d].call : d \in task'[x].after} = 1..n
                /\ \A d, e \in task'[x].after : task'[d].call = task'[e].call => d = e
                /\ \A d \in task'[x].after : ~task'[d].entry
                /\ task'[x].after \subseteq TaskId
<1> DEFINE f == End(task, t)
<1>1. PICK n \in CallId :
        LET s     == Places(f, n + 1)
            tools == {s[k] : k \in 1..n}
        IN /\ Room(f, n + 1)
           /\ entries' = Append(entries, [kind |-> "calls", of |-> n])
           /\ task' = [u \in TaskId |->
                IF u \in tools
                THEN [NoTask EXCEPT !.kind = "pi.tool", !.live = TRUE,
                                    !.call = CHOOSE k \in 1..n : s[k] = u]
                ELSE IF u = s[n + 1]
                THEN [NoTask EXCEPT !.kind = "pi.post_tools", !.live = TRUE, !.after = tools,
                                    !.inputs = task[t].inputs]
                ELSE f[u]]
  BY DEF CallTools
<1> DEFINE s     == Places(f, n + 1)
           tools == {s[k] : k \in 1..n}
           last  == s[n + 1]
           call(u) == CHOOSE k \in 1..n : s[k] = u
           tool(u) == [NoTask EXCEPT !.kind = "pi.tool", !.live = TRUE, !.call = call(u)]
           post  == [NoTask EXCEPT !.kind = "pi.post_tools", !.live = TRUE, !.after = tools,
                                   !.inputs = task[t].inputs]
<1>2. n \in Nat /\ n \in 1..MaxCalls /\ MaxCalls \in Nat
  BY InboxAssumption DEF CallId
<1>3. task[t].kind = "pi.generation" /\ Owner(t) /\ Quiet(f)
  <2>1. task[t].kind = "pi.generation" /\ Owner(t) /\ Runs(t, task[t].kind)
    BY DEF CallTools, Runs, Ready, Owner, OwnerKinds
  <2> QED
    BY <2>1, QuietEnd
<1> HIDE DEF f
<1>4. s \in [1..(n + 1) -> Free(f)] /\ InOrder(s)
  <2>1. n + 1 \in Nat
    BY <1>2
  <2>2. Room(f, n + 1)
    BY <1>1, Zenon
  <2> QED
    BY <2>1, <2>2, PlacesAre
<1> HIDE DEF s
<1>5. \A k, l \in 1..(n + 1) : s[k] \in TaskId /\ (s[k] = s[l] => k = l)
  BY <1>2, <1>4 DEF InOrder, Free, TaskId
<1>6. last \in TaskId /\ last \notin tools /\ tools \subseteq TaskId
  BY <1>2, <1>5
<1>7. /\ \A k \in 1..n : call(s[k]) = k /\ s[k] \in tools
      /\ \A u \in tools : call(u) \in 1..n /\ s[call(u)] = u
  BY <1>2, <1>5
<1> HIDE DEF call
<1>8. \A u \in tools : /\ tool(u).kind = "pi.tool" /\ tool(u).live /\ tool(u).call = call(u)
                       /\ ~tool(u).entry /\ ~tool(u).joins
  BY DEF NoTask
<1>9. /\ post.kind = "pi.post_tools" /\ post.live /\ post.after = tools /\ ~post.joins
      /\ post.inputs = task[t].inputs
  BY DEF NoTask
<1>10. task' = [u \in TaskId |-> IF u \in tools THEN tool(u) ELSE IF u = last THEN post ELSE f[u]]
  BY <1>1 DEF tools, s, tool, post, last, call
<1> HIDE DEF tools, tool, post, last
<1>11. /\ task'[last] = post /\ \A u \in tools : task'[u] = tool(u)
       /\ \A u \in TaskId \ ({last} \cup tools) : task'[u] = f[u]
  BY <1>6, <1>10
<1>12. HandsOver(t, last)
  <2>1. \A u \in TaskId \ ({last} \cup tools) : task'[u].live => ~IsTurn(u)'
    BY <1>3, <1>11 DEF Quiet, IsTurn, TurnKinds
  <2>2. \A u \in TaskId \ {last} : task'[u].live => ~task'[u].joins
    BY <1>3, <1>8, <1>11 DEF Quiet
  <2> QED
    BY <1>3, <1>6, <1>8, <1>9, <1>11, <2>1, <2>2 DEF HandsOver, LiveTool
<1>13. task'[last].after = tools
  BY <1>9, <1>11
<1>14. {task'[d].call : d \in tools} = 1..n
  <2>1. \A d \in tools : task'[d].call = call(d) /\ call(d) \in 1..n
    BY <1>7, <1>8, <1>11
  <2>2. \A k \in 1..n : \E d \in tools : task'[d].call = k
    BY <1>7, <2>1
  <2> QED
    BY <2>1, <2>2
<1>15. \A d, e \in tools : task'[d].call = task'[e].call => d = e
  BY <1>7, <1>8, <1>11
<1>16. \A d \in tools : ~task'[d].entry
  BY <1>8, <1>11
<1>17. entries' = Append(entries, [kind |-> "calls", of |-> n])
  BY <1>1
<1> QED
  BY <1>6, <1>12, <1>13, <1>14, <1>15, <1>16, <1>17

LEMMA OverflowTurn ==
  ASSUME IInv, OneTurn, NEW t \in TaskId, Overflow(t)
  PROVE  \E x \in TaskId : Alone(x)' /\ ~task'[x].joins /\ UNCHANGED <<input, inbox, entries, hurt>>
<1> DEFINE f == End(task, t)
           s == Places(f, 2)
           collapse == [NoTask EXCEPT !.kind = "pi.collapse", !.live = TRUE]
           next == [Generation(task[t].inputs) EXCEPT !.after = {s[1]}]
<1>1. /\ Room(f, 2) /\ task' = [f EXCEPT ![s[1]] = collapse, ![s[2]] = next]
      /\ UNCHANGED <<input, inbox, entries, hurt>>
  BY DEF Overflow
<1>2. f \in Table /\ Quiet(f)
  <2>1. Owner(t) /\ Runs(t, task[t].kind)
    BY DEF Overflow, Runs, Ready, Owner, OwnerKinds
  <2> QED
    BY <2>1, QuietEnd
<1> HIDE DEF f
<1>3. s \in [1..2 -> Free(f)] /\ InOrder(s)
  BY <1>1, PlacesAre
<1> HIDE DEF s
<1>4. s[1] # s[2] /\ s[1] \in TaskId /\ s[2] \in TaskId
  BY <1>3 DEF InOrder, Free, TaskId
<1>5. /\ collapse.kind = "pi.collapse" /\ ~collapse.joins
      /\ next.kind = "pi.generation" /\ next.live /\ ~next.joins
  BY DEF Generation, NoTask
<1> HIDE DEF collapse, next
<1>6. /\ task'[s[1]] = collapse /\ task'[s[2]] = next
      /\ \A u \in TaskId \ {s[1], s[2]} : task'[u] = f[u]
  BY <1>1, <1>2, <1>4 DEF Table
<1>7. PICK x, y \in TaskId :
        /\ task'[y] = collapse /\ task'[x] = next /\ x # y
        /\ \A u \in TaskId \ {y, x} : task'[u] = f[u]
  BY <1>4, <1>6
<1>8. \A u \in TaskId \ {x} : task'[u].live => task'[u].kind \notin TurnKinds /\ ~task'[u].joins
  BY <1>2, <1>5, <1>7 DEF Quiet, TurnKinds
<1>9. Alone(x)' /\ ~task'[x].joins
  BY <1>5, <1>7, <1>8 DEF Alone, IsTurn, TurnKinds
<1> QED
  BY <1>1, <1>7, <1>9

\* A task that ends and creates none.  The result of a tool is kept with it.
LEMMA EndedTurn ==
  ASSUME IInv, NEW t \in TaskId, task[t].live, NEW f \in Table,
         \A u \in TaskId \ {t} : f[u] = task[u],
         f[t].kind = task[t].kind, f[t].call = task[t].call, task' = End(f, t)
  PROVE  /\ Ends(t, task')
         /\ \A v \in TaskId \ {t} : task[v].live /\ t \in task[v].after =>
              task'[t].entry = f[t].entry
BY Before, EndEnds

LEMMA CloseToolTurn ==
  ASSUME IInv, NEW t \in TaskId, LiveTool(t), NEW control \in Controls, CloseTool(t, control)
  PROVE  /\ Closes(t) /\ hurt' = hurt
         /\ \A v \in TaskId \ {t} : task[v].live /\ t \in task[v].after => task'[t].entry
         /\ entries' = Append(entries, [kind |-> "result", of |-> task[t].call])
<1> DEFINE f == [task EXCEPT ![t].entry = TRUE, ![t].control = control]
<1>1. task \in Table /\ task[t] \in TaskRecord
  BY Before
<1>2. /\ f \in Table /\ \A u \in TaskId \ {t} : f[u] = task[u]
      /\ f[t].kind = task[t].kind /\ f[t].call = task[t].call /\ f[t].entry
  <2> DEFINE r == [task[t] EXCEPT !.entry = TRUE, !.control = control]
  <2>1. r \in TaskRecord /\ r.kind = task[t].kind /\ r.call = task[t].call /\ r.entry
    BY <1>1 DEF TaskRecord
  <2>2. f = [task EXCEPT ![t] = r]
    BY <1>1 DEF Table, TaskRecord
  <2> HIDE DEF r, f
  <2> QED
    BY <1>1, <2>1, <2>2 DEF Table
<1>3. task' = End(f, t) /\ hurt' = hurt
      /\ entries' = Append(entries, [kind |-> "result", of |-> task[t].call])
  BY DEF CloseTool
<1> HIDE DEF f
<1>4. Ends(t, task')
      /\ \A v \in TaskId \ {t} : task[v].live /\ t \in task[v].after => task'[t].entry
  BY <1>2, <1>3, EndedTurn DEF LiveTool
<1>5. ~Owner(t)
  BY DEF LiveTool, Owner, OwnerKinds
<1> QED
  BY <1>3, <1>4, <1>5 DEF Closes

LEMMA AbortTurn ==
  ASSUME IInv, NEW t \in TaskId, AbortTask(t)
  PROVE  /\ Closes(t) /\ (IsTurn(t) => hurt')
         /\ LiveTool(t) =>
              /\ entries' = Append(entries, [kind |-> "result", of |-> task[t].call])
              /\ \A v \in TaskId \ {t} : task[v].live /\ t \in task[v].after => task'[t].entry
         /\ ~LiveTool(t) => entries' = entries
<1> DEFINE f == [task EXCEPT ![t].entry = TRUE]
<1>1. task \in Table /\ task[t] \in TaskRecord /\ task[t].live
  BY Before DEF AbortTask
<1>2. /\ f \in Table /\ \A u \in TaskId \ {t} : f[u] = task[u]
      /\ f[t].kind = task[t].kind /\ f[t].call = task[t].call /\ f[t].entry
  <2> DEFINE r == [task[t] EXCEPT !.entry = TRUE]
  <2>1. r \in TaskRecord /\ r.kind = task[t].kind /\ r.call = task[t].call /\ r.entry
    BY <1>1 DEF TaskRecord
  <2>2. f = [task EXCEPT ![t] = r]
    BY <1>1 DEF Table, TaskRecord
  <2> HIDE DEF r, f
  <2> QED
    BY <1>1, <2>1, <2>2 DEF Table
<1>3. hurt' = (hurt \/ IsTurn(t))
  BY DEF AbortTask
<1>4. (IsTurn(t) => hurt') /\ (hurt' \/ (hurt' = hurt /\ ~Owner(t)))
  <2>1. Owner(t) => IsTurn(t)
    BY DEF Owner, OwnerKinds, IsTurn
  <2>2. hurt \in BOOLEAN
    BY DEF IInv, TypeOK
  <2>3. CASE IsTurn(t)
    BY <1>3, <2>3
  <2>4. CASE ~IsTurn(t)
    BY <1>3, <2>1, <2>2, <2>4
  <2> QED
    BY <2>3, <2>4
<1>5. CASE LiveTool(t)
  <2>1. task' = End(f, t) /\ entries' = Append(entries, [kind |-> "result", of |-> task[t].call])
    BY <1>5 DEF AbortTask, LiveTool
  <2> HIDE DEF f
  <2>2. Ends(t, task')
        /\ \A v \in TaskId \ {t} : task[v].live /\ t \in task[v].after => task'[t].entry
    BY <1>1, <1>2, <2>1, EndedTurn
  <2>3. IsTurn(t)
    BY <1>5 DEF LiveTool, IsTurn
  <2> QED
    BY <1>4, <1>5, <2>1, <2>2, <2>3 DEF Closes
<1>6. CASE ~LiveTool(t)
  <2>1. task' = End(task, t) /\ entries' = entries
    BY <1>1, <1>6 DEF AbortTask, LiveTool
  <2>2. Ends(t, task')
    BY <1>1, <2>1, EndedTurn
  <2> QED
    BY <1>4, <1>6, <2>1, <2>2 DEF Closes
<1> QED
  BY <1>5, <1>6

LEMMA FaultTurn ==
  ASSUME IInv, NEW t \in TaskId, Fault(t)
  PROVE  /\ Closes(t) /\ (IsTurn(t) => hurt') /\ entries' = entries
         /\ \A v \in TaskId \ {t} : task[v].live /\ t \in task[v].after =>
              task'[t].entry = task[t].entry
<1>1. task \in Table /\ task[t].live /\ task' = End(task, t)
  BY Before DEF Fault, Ready
<1>2. hurt' = (hurt \/ IsTurn(t))
  BY DEF Fault
<1>3. (IsTurn(t) => hurt') /\ (hurt' \/ (hurt' = hurt /\ ~Owner(t)))
  <2>1. Owner(t) => IsTurn(t)
    BY DEF Owner, OwnerKinds, IsTurn
  <2>2. hurt \in BOOLEAN
    BY DEF IInv, TypeOK
  <2>3. CASE IsTurn(t)
    BY <1>2, <2>3
  <2>4. CASE ~IsTurn(t)
    BY <1>2, <2>1, <2>2, <2>4
  <2> QED
    BY <2>3, <2>4
<1>4. Ends(t, task')
      /\ \A v \in TaskId \ {t} : task[v].live /\ t \in task[v].after => task'[t].entry = task[t].entry
  BY <1>1, EndedTurn
<1> QED
  BY <1>3, <1>4 DEF Closes, Fault

LEMMA CollapseTurn ==
  ASSUME IInv, NEW t \in TaskId, CloseCollapse(t)
  PROVE  Closes(t) /\ ~IsTurn(t) /\ hurt' = hurt
<1>1. task \in Table /\ task[t].live /\ task' = End(task, t) /\ task[t].kind = "pi.collapse"
      /\ hurt' = hurt
  BY Before DEF CloseCollapse, Runs, Ready
<1>2. Ends(t, task')
  BY <1>1, EndedTurn
<1> QED
  BY <1>1, <1>2 DEF Closes, Owner, OwnerKinds, IsTurn

\* A step that at most marks a task or moves it to another phase.
Touched(r, q) ==
  \E mark \in BOOLEAN, phase \in Phases, runs \in Nat :
    q = [r EXCEPT !.mark = mark, !.phase = phase, !.runs = runs]

LEMMA TouchedTurn ==
  ASSUME TypeOK, \A u \in TaskId : Touched(task[u], task'[u]), hurt' = hurt
  PROVE  SameTurn
<1> SUFFICES ASSUME NEW u \in TaskId
             PROVE  /\ task'[u].live = task[u].live /\ task'[u].kind = task[u].kind
                    /\ task'[u].after = task[u].after /\ task'[u].joins = task[u].joins
                    /\ task'[u].call = task[u].call /\ task'[u].entry = task[u].entry
                    /\ task'[u].inputs = task[u].inputs
  BY DEF SameTurn
<1> DEFINE r == task[u]
           q == task'[u]
<1>1. r \in TaskRecord
  BY DEF TypeOK
<1>2. PICK mark \in BOOLEAN, phase \in Phases, runs \in Nat :
        q = [r EXCEPT !.mark = mark, !.phase = phase, !.runs = runs]
  BY DEF Touched
<1> HIDE DEF r, q
<1>3. /\ q.live = r.live /\ q.kind = r.kind /\ q.after = r.after /\ q.joins = r.joins
      /\ q.call = r.call /\ q.entry = r.entry /\ q.inputs = r.inputs
  BY <1>1, <1>2 DEF TaskRecord
<1> QED
  BY <1>3 DEF r, q

LEMMA NotTouched ==
  ASSUME NEW r \in TaskRecord
  PROVE  Touched(r, r)
<1>1. r = [r EXCEPT !.mark = r.mark, !.phase = r.phase, !.runs = r.runs]
  BY DEF TaskRecord
<1>2. r.mark \in BOOLEAN /\ r.phase \in Phases /\ r.runs \in Nat
  BY DEF TaskRecord
<1> QED
  BY <1>1, <1>2 DEF Touched

LEMMA PhaseTouched ==
  ASSUME NEW r \in TaskRecord, NEW phase \in Phases, NEW runs \in Nat
  PROVE  Touched(r, [r EXCEPT !.phase = phase, !.runs = runs])
<1>1. [r EXCEPT !.phase = phase, !.runs = runs]
        = [r EXCEPT !.mark = r.mark, !.phase = phase, !.runs = runs]
  BY DEF TaskRecord
<1>2. r.mark \in BOOLEAN
  BY DEF TaskRecord
<1> QED
  BY <1>1, <1>2 DEF Touched

LEMMA MarkTouched ==
  ASSUME NEW r \in TaskRecord
  PROVE  Touched(r, [r EXCEPT !.mark = TRUE])
<1>1. [r EXCEPT !.mark = TRUE] = [r EXCEPT !.mark = TRUE, !.phase = r.phase, !.runs = r.runs]
  BY DEF TaskRecord
<1>2. r.phase \in Phases /\ r.runs \in Nat
  BY DEF TaskRecord
<1> QED
  BY <1>1, <1>2 DEF Touched

LEMMA StartTurn ==
  ASSUME IInv, NEW t \in TaskId, StartTool(t)
  PROVE  SameTurn
<1>1. task \in [TaskId -> TaskRecord] /\ TypeOK
  BY DEF IInv, TypeOK
<1> DEFINE r == [task[t] EXCEPT !.phase = "started", !.runs = task[t].runs]
<1>2. task' = [task EXCEPT ![t] = r]
  <2>1. [task[t] EXCEPT !.phase = "started"] = r
    BY <1>1 DEF TaskRecord
  <2> QED
    BY <1>1, <2>1 DEF StartTool
<1>3. Touched(task[t], r)
  BY <1>1, PhaseTouched DEF TaskRecord, Phases
<1> HIDE DEF r
<1>4. \A u \in TaskId : Touched(task[u], task'[u])
  BY <1>1, <1>2, <1>3, NotTouched
<1> QED
  BY <1>1, <1>4, TouchedTurn DEF StartTool

LEMMA ExecuteTurn ==
  ASSUME IInv, NEW t \in TaskId, Execute(t)
  PROVE  SameTurn
<1>1. task \in [TaskId -> TaskRecord] /\ TypeOK
  BY DEF IInv, TypeOK
<1> DEFINE r == [task[t] EXCEPT !.phase = "executing", !.runs = task[t].runs + 1]
<1>2. task' = [task EXCEPT ![t] = r]
  BY <1>1 DEF Execute, TaskRecord
<1>3. Touched(task[t], r)
  <2>1. task[t].runs + 1 \in Nat /\ "executing" \in Phases
    BY <1>1 DEF TaskRecord, Phases
  <2> QED
    BY <1>1, <2>1, PhaseTouched
<1> HIDE DEF r
<1>4. \A u \in TaskId : Touched(task[u], task'[u])
  BY <1>1, <1>2, <1>3, NotTouched
<1> QED
  BY <1>1, <1>4, TouchedTurn DEF Execute

LEMMA MarkTurn ==
  ASSUME IInv, NEW t \in TaskId, MarkTask(t)
  PROVE  SameTurn
<1>1. task \in [TaskId -> TaskRecord] /\ TypeOK
  BY DEF IInv, TypeOK
<1> DEFINE r == [task[t] EXCEPT !.mark = TRUE]
<1>2. task' = [task EXCEPT ![t] = r]
  BY <1>1 DEF MarkTask
<1>3. Touched(task[t], r)
  BY <1>1, MarkTouched
<1> HIDE DEF r
<1>4. \A u \in TaskId : Touched(task[u], task'[u])
  BY <1>1, <1>2, <1>3, NotTouched
<1> QED
  BY <1>1, <1>4, TouchedTurn DEF MarkTask

LEMMA AbortConversationTurn ==
  ASSUME IInv, AbortConversation
  PROVE  SameTurn
<1>1. task \in [TaskId -> TaskRecord] /\ TypeOK
  BY DEF IInv, TypeOK
<1>2. \A u \in TaskId : task'[u] = task[u] \/ task'[u] = [task[u] EXCEPT !.mark = TRUE]
  BY DEF AbortConversation
<1>3. \A u \in TaskId : Touched(task[u], task'[u])
  BY <1>1, <1>2, NotTouched, MarkTouched
<1> QED
  BY <1>1, <1>3, TouchedTurn DEF AbortConversation

LEMMA CrashTurn ==
  ASSUME IInv, Crash
  PROVE  SameTurn
<1>1. task \in [TaskId -> TaskRecord] /\ TypeOK
  BY DEF IInv, TypeOK
<1>2. \A u \in TaskId : task'[u] = task[u] \/ task'[u] = [task[u] EXCEPT !.phase = "interrupted"]
  BY DEF Crash
<1>3. \A u \in TaskId : Touched(task[u], task'[u])
  <2> SUFFICES ASSUME NEW u \in TaskId PROVE Touched(task[u], task'[u])
    OBVIOUS
  <2> DEFINE r == task[u]
  <2>1. r \in TaskRecord /\ r.runs \in Nat /\ "interrupted" \in Phases
    BY <1>1 DEF TaskRecord, Phases
  <2>2. task'[u] = r \/ task'[u] = [r EXCEPT !.phase = "interrupted"]
    BY <1>2
  <2> HIDE DEF r
  <2>3. [r EXCEPT !.phase = "interrupted"] = [r EXCEPT !.phase = "interrupted", !.runs = r.runs]
    BY <2>1 DEF TaskRecord
  <2>4. Touched(r, task'[u])
    <3>1. Touched(r, r)
      BY <2>1, NotTouched
    <3>2. Touched(r, [r EXCEPT !.phase = "interrupted", !.runs = r.runs])
      BY <2>1, PhaseTouched
    <3> QED
      BY <2>2, <2>3, <3>1, <3>2
  <2> QED
    BY <2>4 DEF r
<1> QED
  BY <1>1, <1>3, TouchedTurn DEF Crash

LEMMA StillTurn ==
  ASSUME UNCHANGED <<task, hurt>>
  PROVE  SameTurn
BY DEF SameTurn

\* The step puts nothing in the inbox, or finds a turn that will empty it.
InTime == inbox' \subseteq inbox \/ Busy

LEMMA AnyStep ==
  ASSUME IInv, [Next]_vars
  PROVE  \/ SameTurn /\ InTime
         \/ SendIdle
         \/ \E t \in TaskId : Concluding(t) \/ Continuing(t)
         \/ \E t \in TaskId : CallTools(t) \/ Overflow(t)
         \/ \E t \in TaskId : Closes(t) /\ inbox' = inbox
<1>1. CASE Send
  <2>1. CASE \E mode \in Steering : Queue(mode)
    BY <2>1, StillTurn DEF Queue, InTime
  <2> QED
    BY <1>1, <2>1 DEF Send
<1>2. CASE Write
  BY <1>2, StillTurn DEF Write, WriteIdle, Queue, InTime
<1>3. CASE \E i \in InputId : Withdraw(i)
  BY <1>3, StillTurn DEF Withdraw, InTime
<1>4. ASSUME NEW t \in TaskId, Progress(t)
      PROVE  (SameTurn /\ InTime) \/ Concluding(t) \/ Continuing(t) \/ CallTools(t)
             \/ Overflow(t) \/ (Closes(t) /\ inbox' = inbox)
  <2>1. CASE AnswerFinal(t)
    BY <2>1, AnswerTurns
  <2>2. CASE Fail(t)
    BY <2>2, FailTurns
  <2>3. CASE CloseCollapse(t)
    BY <2>3, CollapseTurn DEF CloseCollapse
  <2>4. ASSUME NEW control \in Controls, Runs(t, "pi.tool"), CloseTool(t, control)
        PROVE  Closes(t) /\ inbox' = inbox
    BY <2>4, CloseToolTurn DEF Runs, Ready, LiveTool, CloseTool
  <2>5. CASE RefuseTool(t) \/ FinishTool(t)
    <3>1. PICK control \in Controls : Runs(t, "pi.tool") /\ CloseTool(t, control)
      BY <2>5 DEF RefuseTool, FinishTool, Controls
    <3> QED
      BY <2>4, <3>1
  <2>6. CASE StartTool(t)
    BY <2>6, StartTurn DEF StartTool, InTime
  <2>7. CASE ExecuteTool(t)
    BY <2>7, ExecuteTurn DEF ExecuteTool, Execute, InTime
  <2>8. CASE RecoverTool(t)
    <3>1. CASE Execute(t)
      BY <3>1, ExecuteTurn DEF Execute, InTime
    <3>2. CASE CloseTool(t, "none")
      <4>1. Runs(t, "pi.tool") /\ "none" \in Controls
        BY <2>8 DEF RecoverTool, Controls
      <4> QED
        BY <2>4, <3>2, <4>1
    <3> QED
      BY <2>8, <3>1, <3>2 DEF RecoverTool
  <2>9. CASE PostTools(t)
    BY <2>9, PostToolsTurns
  <2>10. CASE AbortTask(t)
    BY <2>10, AbortTurn DEF AbortTask
  <2> QED
    BY <1>4, <2>1, <2>2, <2>3, <2>5, <2>6, <2>7, <2>8, <2>9, <2>10 DEF Progress
<1>5. ASSUME NEW t \in TaskId, MarkTask(t)
      PROVE  SameTurn /\ InTime
  BY <1>5, MarkTurn DEF MarkTask, InTime
<1>6. ASSUME NEW t \in TaskId, Fault(t)
      PROVE  Closes(t) /\ inbox' = inbox
  BY <1>6, FaultTurn DEF Fault
<1>7. CASE AbortConversation \/ Crash
  BY <1>7, AbortConversationTurn, CrashTurn DEF AbortConversation, Crash, InTime
<1>8. CASE UNCHANGED vars
  BY <1>8, StillTurn DEF vars, InTime
<1> QED
  BY <1>1, <1>2, <1>3, <1>4, <1>5, <1>6, <1>7, <1>8 DEF Next

LEMMA OneTurnStep ==
  ASSUME IInv, OneTurn, [Next]_vars
  PROVE  OneTurn'
<1>1. CASE SameTurn
  BY <1>1, SameShape DEF IInv
<1>2. CASE SendIdle
  BY <1>2, SendTurn, AloneShape
<1>3. ASSUME NEW t \in TaskId, Concluding(t) PROVE OneTurn'
  <2>1. PICK at \in {"final", "postTools"} : \E B \in Selections(at) : \E a, status, answer :
          Concludes(t, B, a, status, answer)
    BY <1>3 DEF Concluding
  <2>2. PICK B \in Selections(at) : \E a, status, answer : Concludes(t, B, a, status, answer)
    BY <2>1
  <2>3. PICK a, status, answer : Concludes(t, B, a, status, answer)
    BY <2>2
  <2>4. NoTurn' \/ \E x \in TaskId : Alone(x)'
    BY <2>3, ConcludedTurn
  <2> QED
    BY <2>4, NoTurnShape, AloneShape
<1>4. ASSUME NEW t \in TaskId, Continuing(t) PROVE OneTurn'
  BY <1>4, ContinuedTurn, AloneShape DEF Continuing
<1>5. ASSUME NEW t \in TaskId, CallTools(t) PROVE OneTurn'
  BY <1>5, CallTurn, HandedShape
<1>6. ASSUME NEW t \in TaskId, Overflow(t) PROVE OneTurn'
  BY <1>6, OverflowTurn, AloneShape
<1>7. ASSUME NEW t \in TaskId, Closes(t) PROVE OneTurn'
  BY <1>7, ClosedShape DEF IInv
<1> QED
  BY <1>1, <1>2, <1>3, <1>4, <1>5, <1>6, <1>7, AnyStep

LEMMA OneTurnInit == Init => OneTurn
BY DEF Init, OneTurn, NoTask, Owner, LiveTool, LivePost, OwnerKinds

-------------------------------------------------------------------------------
(***************************************************************************)
(* What the last turn leaves in the inbox.                                 *)
(***************************************************************************)
LEMMA CutIs ==
  ASSUME inbox \subseteq InputId
  PROVE  /\ Cut \in Nat /\ (Cut # 0 => Cut \in inbox /\ ModeIs(Cut, {"reset"}))
         /\ \A i \in inbox : ModeIs(i, {"reset"}) => i <= Cut /\ Cut # 0
<1> DEFINE heads == {i \in inbox : ModeIs(i, {"reset"})}
<1>1. CASE heads = {}
  BY <1>1 DEF Cut
<1>2. CASE heads # {}
  <2>1. heads \in SUBSET (0..MaxInputs) /\ MaxInputs \in Nat /\ heads \in SUBSET Nat
    <3>1. heads \subseteq inbox /\ inbox \subseteq 1..MaxInputs
      BY DEF InputId
    <3> HIDE DEF heads
    <3> QED
      BY <3>1, InboxAssumption
  <2> HIDE DEF heads
  <2>2. PICK m \in heads : \A i \in heads : i <= m
    BY <1>2, <2>1, GreatestExists
  <2>3. Max(heads) = m
    BY <2>1, <2>2, MaxIs
  <2>4. Cut = m
    BY <1>2, <2>3 DEF Cut, heads
  <2>5. m # 0 /\ m \in inbox /\ m \in Nat
    BY <2>1 DEF heads, InputId
  <2> QED
    BY <2>2, <2>4, <2>5 DEF heads
<1> QED
  BY <1>1, <1>2

\* Whatever the queue mode, something is picked when there is something.
LEMMA PicksSome ==
  ASSUME inbox \subseteq InputId, NEW mode, NEW S \in Picks(mode), S = {}
  PROVE  \A i \in inbox \ Stale : ~ModeIs(i, {mode})
<1> DEFINE items == {i \in inbox \ Stale : ModeIs(i, {mode})}
           least == {i \in items : \A j \in items : i <= j}
<1>1. S \in {items, least}
  BY DEF Picks
<1>2. items \in SUBSET Nat
  <2>1. items \subseteq inbox /\ inbox \subseteq Nat
    BY DEF InputId
  <2> QED
    BY <2>1
<1>3. items # {} => least # {}
  <2> HIDE DEF items
  <2> QED
    BY <1>2, LeastExists
<1>4. items = {}
  BY <1>1, <1>3
<1> QED
  BY <1>4

\* A boundary that places no steer and no followUp leaves none, but that the one of
\* post_tools does not look at the followUps.
LEMMA LeftBehind ==
  ASSUME IInv, NEW at \in {"final", "postTools"}, NEW B \in Selections(at), Triggers(B) = {}
  PROVE  \A i \in inbox \ (B \cup Stale) : at = "postTools" /\ ModeIs(i, {"followUp"})
<1>1. inbox \subseteq InputId /\ input \in InputTable
  BY DEF IInv, TypeOK, InputTable
<1> DEFINE F == IF at = "final" THEN Picks("followUp") ELSE {{}}
<1>2. PICK s \in Picks("steer"), f \in F : B = QueuedWrites \cup s \cup f
  <2>1. B \in {QueuedWrites \cup s \cup f : s \in Picks("steer"), f \in F}
    BY SMTT(30) DEF Selections
  <2> HIDE DEF F
  <2> QED
    BY <2>1
<1>3. \A S \in Picks("steer") : \A i \in S : ModeIs(i, Steering)
  BY DEF Picks, ModeIs, Steering
<1>4. \A S \in Picks("followUp") : \A i \in S : ModeIs(i, Steering)
  BY DEF Picks, ModeIs, Steering
<1>5. s = {} /\ f = {}
  BY <1>2, <1>3, <1>4 DEF Triggers
<1>6. \A i \in inbox \ Stale : ~ModeIs(i, {"steer"})
  BY <1>1, <1>5, PicksSome
<1>7. at = "final" => \A i \in inbox \ Stale : ~ModeIs(i, {"followUp"})
  BY <1>1, <1>2, <1>5, PicksSome
<1>8. \A i \in inbox : \/ ModeIs(i, {"steer"}) \/ ModeIs(i, {"followUp"}) \/ ModeIs(i, Writing)
  BY <1>1 DEF ModeIs, InputTable, InputRecord, Modes, Steering
<1>9. \A i \in inbox \ B : ~ModeIs(i, Writing)
  BY <1>2 DEF QueuedWrites
<1> QED
  BY <1>6, <1>7, <1>8, <1>9

LEMMA BehindStays ==
  ASSUME IInv, [Next]_vars, NEW i \in inbox, i \in inbox', BehindReset(i)
  PROVE  BehindReset(i)'
<1>1. \A r \in InputId : Moves(input[r], input'[r])
  BY StepIsOK DEF StepOK, GoodStep
<1>2. i \in InputId /\ input[i].status = "queued" /\ input'[i].status = "queued"
  <2>1. IInv'
    BY Inductive
  <2> QED
    BY <2>1 DEF IInv, Books
<1>3. input'[i] = input[i]
  BY <1>1, <1>2 DEF Moves
<1>4. \A r \in InState("done") : r \in InputId /\ input'[r] = input[r]
  BY <1>1 DEF InState, Moves
<1> QED
  BY <1>3, <1>4 DEF BehindReset, ModeIs, InState

\* The boundary that ends the last turn leaves nothing, or puts a reset before it.
LEMMA ConcludedLeaves ==
  ASSUME IInv, OneTurn, NEW t \in TaskId, NEW at \in {"final", "postTools"},
         NEW B \in Selections(at), NEW a, NEW status, NEW answer,
         Concludes(t, B, a, status, answer), ~Busy'
  PROVE  \A i \in inbox' : BehindReset(i)'
<1>1. Triggers(B) = {}
  <2>1. \A x \in TaskId : Alone(x)' => Busy'
    BY AloneShape
  <2> QED
    BY <2>1, ConcludedTurn
<1>2. inbox' = inbox \ (B \cup Stale) /\ inbox \subseteq InputId /\ task[t].inputs \subseteq InputId
  BY Before DEF Concludes, Boundary, TypeOK
<1> SUFFICES ASSUME NEW i \in inbox' PROVE BehindReset(i)'
  OBVIOUS
<1>3. B \in Selections("postTools") /\ Cut # 0 /\ ModeIs(i, {"followUp"})
  <2>1. ~(B \in Selections("final"))
    BY <1>1, <1>2, LeftBehind
  <2>2. B \in Selections("postTools") /\ Cut # 0
    BY <2>1 DEF Concludes
  <2> QED
    BY <1>1, <1>2, <2>2, LeftBehind
<1>4. /\ Cut \in inbox /\ ModeIs(Cut, {"reset"}) /\ Cut \in B /\ Cut \notin Stale
      /\ Cut \in InputId /\ Cut \in Nat
  <2>1. Cut \in inbox /\ ModeIs(Cut, {"reset"}) /\ Cut \in Nat
    BY <1>2, <1>3, CutIs
  <2>2. Cut \in QueuedWrites /\ Cut \notin Stale
    BY <2>1 DEF QueuedWrites, Stale, ModeIs, Writing, Steering
  <2> QED
    BY <1>2, <2>1, <2>2, SelectionsAre
<1>5. Cut < i
  <2>1. i \in inbox /\ i \notin Stale /\ ModeIs(i, Steering) /\ i \in Nat
    BY <1>2, <1>3 DEF ModeIs, Steering, InputId
  <2>2. ~(i < Cut)
    BY <2>1 DEF Stale
  <2>3. i # Cut
    BY <1>3, <1>4 DEF ModeIs
  <2> QED
    BY <1>4, <2>1, <2>2, <2>3
<1> DEFINE r == Cut
<1>6. r \in InputId /\ r < i /\ r \in B /\ r \notin Stale /\ r \in inbox /\ ModeIs(r, {"reset"})
  BY <1>4, <1>5
<1> HIDE DEF r
<1>7. PICK c \in InputId : /\ c < i /\ c \in B /\ c \notin Stale /\ c \in inbox
                           /\ ModeIs(c, {"reset"})
  BY <1>6
<1>8. /\ input[c].status = "queued" /\ input[i].status = "queued" /\ input[c].waited
      /\ input[c] \in InputRecord /\ c \notin task[t].inputs /\ i \in InputId
      /\ i \notin task[t].inputs
  BY <1>2, <1>7, Before DEF IInv, Books, InState, InputTable
<1>9. input' = Settled(Moved(B), task[t].inputs, status, answer)
  BY DEF Concludes
<1>10. input'[c] = Moved(B)[c] /\ input'[i] = Moved(B)[i]
  BY <1>8, <1>9 DEF Settled
<1>11. Moved(B)[c] = [input[c] EXCEPT !.status = "done"]
  BY <1>7 DEF Moved, ModeIs, Writing
<1>12. input'[c].status = "done" /\ input'[c].waited /\ input'[c].mode = "reset"
  BY <1>7, <1>8, <1>10, <1>11 DEF ModeIs, InputRecord
<1>13. input'[i] = input[i]
  BY <1>2, <1>8, <1>10 DEF Moved
<1> QED
  BY <1>3, <1>7, <1>12, <1>13 DEF BehindReset, ModeIs, InState

LEMMA StrandStep ==
  ASSUME IInv, OneTurn, StrandedBehindReset, [Next]_vars
  PROVE  StrandedBehindReset'
<1> SUFFICES ASSUME ~Busy', ~hurt' PROVE \A i \in inbox' : BehindReset(i)'
  BY DEF StrandedBehindReset
<1>0. ASSUME ~Busy, ~hurt, inbox' \subseteq inbox
      PROVE  \A i \in inbox' : BehindReset(i)'
  <2>1. \A i \in inbox' : i \in inbox /\ BehindReset(i)
    BY <1>0 DEF StrandedBehindReset
  <2> QED
    BY <2>1, BehindStays
<1>1. \A x \in TaskId : ~Alone(x)' /\ \A t \in TaskId : ~HandsOver(t, x)
  BY AloneShape, HandedShape
<1>2. CASE SameTurn /\ InTime
  <2>1. ~Busy /\ ~hurt
    BY <1>2 DEF SameTurn, Busy, IsTurn
  <2> QED
    BY <1>0, <1>2, <2>1 DEF InTime
<1>3. CASE SendIdle
  BY <1>1, <1>3, SendTurn
<1>4. ASSUME NEW t \in TaskId, Concluding(t)
      PROVE  \A i \in inbox' : BehindReset(i)'
  <2>1. PICK at \in {"final", "postTools"} : \E B \in Selections(at) : \E a, status, answer :
          Concludes(t, B, a, status, answer)
    BY <1>4 DEF Concluding
  <2>2. PICK B \in Selections(at) : \E a, status, answer : Concludes(t, B, a, status, answer)
    BY <2>1
  <2>3. PICK a, status, answer : Concludes(t, B, a, status, answer)
    BY <2>2
  <2> QED
    BY <2>3, ConcludedLeaves
<1>5. ASSUME NEW t \in TaskId, Continuing(t) PROVE FALSE
  BY <1>1, <1>5, ContinuedTurn DEF Continuing
<1>6. ASSUME NEW t \in TaskId, CallTools(t) PROVE FALSE
  BY <1>1, <1>6, CallTurn
<1>7. ASSUME NEW t \in TaskId, Overflow(t) PROVE FALSE
  BY <1>1, <1>7, OverflowTurn
<1>8. ASSUME NEW t \in TaskId, Closes(t), inbox' = inbox
      PROVE  \A i \in inbox' : BehindReset(i)'
  <2>1. hurt' = hurt /\ ~Owner(t) /\ ~hurt
    BY <1>8 DEF Closes
  <2>2. ASSUME NEW u \in TaskId, u # t, task[u].live, IsTurn(u) PROVE FALSE
    <3>1. task'[u] = task[u]
      BY <1>8, <2>2 DEF Closes, Ends
    <3> QED
      BY <2>2, <3>1 DEF Busy, IsTurn
  <2>3. \A u \in TaskId : ~LivePost(u)
    BY <2>1, <2>2 DEF LivePost, IsTurn, Owner, OwnerKinds
  <2>4. ~LiveTool(t)
    BY <2>1, <2>3 DEF OneTurn
  <2>5. ~Busy
    BY <2>1, <2>2, <2>4 DEF Busy, IsTurn, LiveTool, Owner, OwnerKinds
  <2> QED
    BY <1>0, <1>8, <2>1, <2>5
<1> QED
  BY <1>2, <1>3, <1>4, <1>5, <1>6, <1>7, <1>8, AnyStep

\* When the last turn task has ended, with no abort or fault, whatever is still in
\* the inbox is a followUp that a reset placed by post_tools was before.
THEOREM StrandedOnlyBehindReset == Spec => []StrandedBehindReset
<1>1. Init => IInv /\ OneTurn /\ StrandedBehindReset
  <2>1. Init => StrandedBehindReset
    BY DEF Init, StrandedBehindReset
  <2> QED
    BY <2>1, InitOK, OneTurnInit
<1>2. IInv /\ OneTurn /\ StrandedBehindReset /\ [Next]_vars
        => (IInv /\ OneTurn /\ StrandedBehindReset)'
  BY Inductive, OneTurnStep, StrandStep
<1> QED
  BY <1>1, <1>2, PTL DEF Spec

-------------------------------------------------------------------------------
(***************************************************************************)
(* What a step writes: the entries of inputs, once each, and the heads.    *)
(***************************************************************************)
\* A sequence of entries lists the inputs of C once each.
Lists(s, C) ==
  /\ s \in Seq(Entry)
  /\ \A k \in DOMAIN s : IsInput(s[k]) => s[k].of \in C
  /\ \A k, l \in DOMAIN s : IsInput(s[k]) /\ IsInput(s[l]) /\ s[k].of = s[l].of => k = l
  /\ \A i \in C : \E k \in DOMAIN s : IsInput(s[k]) /\ s[k].of = i

\* The entries of T come after every head in it.
Ahead(s, T) ==
  \A i \in T : \E k \in DOMAIN s :
    IsInput(s[k]) /\ s[k].of = i /\ \A l \in DOMAIN s : IsHead(s[l]) => l < k

LEMMA SortedOnto ==
  ASSUME NEW n \in Nat, NEW S \in SUBSET (0..n)
  PROVE  /\ Sorted(S) \in Seq(S) /\ InOrder(Sorted(S))
         /\ DOMAIN Sorted(S) = 1..Len(Sorted(S))
         /\ \A i \in S : \E k \in DOMAIN Sorted(S) : Sorted(S)[k] = i
         /\ \A k, l \in DOMAIN Sorted(S) : Sorted(S)[k] = Sorted(S)[l] => k = l
<1> DEFINE m == Cardinality(S)
           s == Sorted(S)
<1>1. IsFiniteSet(S) /\ m \in Nat
  BY BoundedIsFinite
<1>2. s \in [1..m -> S] /\ InOrder(s)
  BY OrderExists DEF Sorted
<1> HIDE DEF m, s
<1>3. \A k, l \in 1..m : s[k] = s[l] => k = l
  <2> SUFFICES ASSUME NEW k \in 1..m, NEW l \in 1..m, s[k] = s[l] PROVE k = l
    OBVIOUS
  <2>1. s[k] \in Nat /\ s[l] \in Nat /\ k \in Nat /\ l \in Nat
    <3>1. s[k] \in S /\ s[l] \in S /\ \A i \in S : i \in Nat
      BY <1>2
    <3>2. m \in Nat
      BY <1>1
    <3>3. k \in Nat /\ l \in Nat
      BY <3>2
    <3>4. s[k] \in Nat
      BY <3>1
    <3>5. s[l] \in Nat
      BY <3>1
    <3> QED
      BY <3>3, <3>4, <3>5
  <2>2. ~(k < l) /\ ~(l < k)
    BY <1>2, <2>1 DEF InOrder
  <2> QED
    BY <2>1, <2>2
<1>4. s \in Injection(1..m, S)
  BY <1>2, <1>3 DEF Injection, IsInjective
<1>5. Cardinality(1..m) = m
  BY <1>1, FS_Interval
<1>6. s \in Surjection(1..m, S)
  BY <1>1, <1>4, <1>5, FS_Injection DEF m
<1>7. \A i \in S : \E k \in 1..m : s[k] = i
  BY <1>6 DEF Surjection
<1>8. s \in Seq(S) /\ Len(s) = m /\ DOMAIN s = 1..m
  BY <1>1, <1>2
<1> QED
  BY <1>2, <1>3, <1>7, <1>8 DEF s

LEMMA EntriesList ==
  ASSUME IInv, NEW at, NEW B \in Selections(at)
  PROVE  Lists(Entries(B), B) /\ Ahead(Entries(B), Triggers(B))
         /\ (Cut = 0 => NoHeads(Entries(B)))
<1>1. inbox \subseteq InputId /\ input \in InputTable /\ B \subseteq InputId
      /\ Entries(B) \in Seq(Entry)
  BY SelectedTyped, Before DEF TypeOK
<1>2. B \subseteq inbox /\ B \cap Stale = {} /\ Triggers(B) \subseteq B
  BY SelectionsAre
<1> DEFINE order == Sorted(B)
           s     == Entries(B)
<1>3. /\ order \in Seq(B) /\ InOrder(order) /\ DOMAIN order = 1..Len(order)
      /\ \A i \in B : \E k \in DOMAIN order : order[k] = i
      /\ \A k, l \in DOMAIN order : order[k] = order[l] => k = l
  <2>1. B \in SUBSET (0..MaxInputs) /\ MaxInputs \in Nat
    BY <1>1, InboxAssumption DEF InputId
  <2> QED
    BY <2>1, SortedOnto
<1>4. s = [k \in DOMAIN order |-> [kind |-> EntryKind(order[k]), of |-> order[k]]]
  BY DEF Entries
<1> HIDE DEF order, s
<1>5. DOMAIN s = DOMAIN order
      /\ \A k \in DOMAIN s : /\ s[k].kind = EntryKind(order[k]) /\ s[k].of = order[k]
                             /\ order[k] \in B
  BY <1>3, <1>4
<1>6. \A i \in InputId : EntryKind(i) \in {"user", "write", "reset"}
                         /\ (EntryKind(i) = "reset" => ModeIs(i, {"reset"}))
  BY <1>1 DEF EntryKind, ModeIs, Writing, Steering, Modes, InputTable, InputRecord
<1>7. \A k \in DOMAIN s : IsInput(s[k]) /\ (IsHead(s[k]) => ModeIs(order[k], {"reset"}))
  BY <1>1, <1>5, <1>6 DEF IsInput, IsHead
<1>8. Lists(s, B)
  BY <1>1, <1>3, <1>5, <1>7 DEF Lists, s
<1>9. \A k \in DOMAIN s : IsHead(s[k]) => order[k] <= Cut /\ Cut # 0
  BY <1>1, <1>2, <1>5, <1>7, CutIs
<1>10. Ahead(s, Triggers(B))
  <2> SUFFICES ASSUME NEW i \in Triggers(B)
               PROVE  \E k \in DOMAIN s : /\ IsInput(s[k]) /\ s[k].of = i
                                          /\ \A l \in DOMAIN s : IsHead(s[l]) => l < k
    BY DEF Ahead
  <2>1. i \in B /\ i \in inbox /\ i \notin Stale /\ ModeIs(i, Steering) /\ i \in Nat
    BY <1>1, <1>2 DEF Triggers, InputId
  <2>2. Cut <= i /\ Cut \in Nat
    BY <1>1, <2>1, CutIs DEF Stale
  <2>3. PICK k \in DOMAIN order : order[k] = i
    BY <1>3, <2>1
  <2>4. ASSUME NEW l \in DOMAIN s, IsHead(s[l]) PROVE l < k
    <3>1. order[l] <= Cut /\ order[l] \in Nat /\ ModeIs(order[l], {"reset"})
      <4>1. order[l] \in InputId
        BY <1>1, <1>5
      <4> QED
        BY <1>7, <1>9, <2>4, <4>1 DEF InputId
    <3>2. order[l] <= i /\ order[l] # i
      BY <2>1, <2>2, <3>1 DEF ModeIs, Steering
    <3>3. l \in Nat /\ k \in Nat /\ k # l
      BY <1>3, <1>5, <2>3, <3>2
    <3>4. ~(k < l)
      BY <1>3, <1>5, <2>1, <2>3, <3>1, <3>2 DEF InOrder
    <3> QED
      BY <3>3, <3>4
  <2> QED
    BY <1>5, <1>7, <2>3, <2>4
<1>11. Cut = 0 => NoHeads(s)
  BY <1>9 DEF NoHeads
<1> QED
  BY <1>8, <1>10, <1>11 DEF s

LEMMA ListsBetween ==
  ASSUME NEW a, NEW b, Plain(a), Plain(b), NEW s, NEW C, Lists(s, C)
  PROVE  /\ a \o s \o b \in Seq(Entry) /\ Lists(a \o s \o b, C)
         /\ NoHeads(a) /\ NoHeads(s) /\ NoHeads(b) => NoHeads(a \o s \o b)
<1> DEFINE r == a \o s \o b
<1>1. a \in Seq(Entry) /\ b \in Seq(Entry) /\ s \in Seq(Entry)
  BY DEF Plain, Lists
<1>2. /\ r \in Seq(Entry) /\ Len(r) = Len(a) + Len(s) + Len(b) /\ DOMAIN r = 1..Len(r)
      /\ Len(a) \in Nat /\ Len(b) \in Nat /\ Len(s) \in Nat
      /\ DOMAIN a = 1..Len(a) /\ DOMAIN b = 1..Len(b) /\ DOMAIN s = 1..Len(s)
      /\ \A k \in 1..Len(a) : r[k] = a[k]
      /\ \A k \in 1..Len(s) : r[Len(a) + k] = s[k]
      /\ \A k \in 1..Len(b) : r[Len(a) + Len(s) + k] = b[k]
  BY <1>1
<1> HIDE DEF r
<1>3. \A k \in DOMAIN r : \/ k \in DOMAIN a /\ r[k] = a[k]
                          \/ k - Len(a) \in DOMAIN s /\ r[k] = s[k - Len(a)]
                          \/ k - Len(a) - Len(s) \in DOMAIN b /\ r[k] = b[k - Len(a) - Len(s)]
  <2> SUFFICES ASSUME NEW k \in DOMAIN r
               PROVE  \/ k \in DOMAIN a /\ r[k] = a[k]
                      \/ k - Len(a) \in DOMAIN s /\ r[k] = s[k - Len(a)]
                      \/ k - Len(a) - Len(s) \in DOMAIN b /\ r[k] = b[k - Len(a) - Len(s)]
    OBVIOUS
  <2>1. CASE k <= Len(a)
    BY <1>2, <2>1
  <2>2. CASE Len(a) < k /\ k <= Len(a) + Len(s)
    <3>1. k - Len(a) \in 1..Len(s) /\ Len(a) + (k - Len(a)) = k
      BY <1>2, <2>2
    <3> QED
      BY <1>2, <3>1
  <2>3. CASE Len(a) + Len(s) < k
    <3>1. k - Len(a) - Len(s) \in 1..Len(b) /\ Len(a) + Len(s) + (k - Len(a) - Len(s)) = k
      BY <1>2, <2>3
    <3> QED
      BY <1>2, <3>1
  <2> QED
    BY <1>2, <2>1, <2>2, <2>3
<1>4. \A k \in DOMAIN r : IsInput(r[k]) => k - Len(a) \in DOMAIN s /\ r[k] = s[k - Len(a)]
  BY <1>3 DEF Plain
<1>5. \A k \in DOMAIN s : Len(a) + k \in DOMAIN r /\ r[Len(a) + k] = s[k]
  BY <1>2
<1>6. \A k, l \in DOMAIN r : k - Len(a) = l - Len(a) => k = l
  BY <1>2
<1>7. Lists(r, C)
  <2>1. \A k \in DOMAIN r : IsInput(r[k]) => r[k].of \in C
    BY <1>4 DEF Lists
  <2>2. \A k, l \in DOMAIN r : IsInput(r[k]) /\ IsInput(r[l]) /\ r[k].of = r[l].of => k = l
    BY <1>4, <1>6 DEF Lists
  <2>3. \A i \in C : \E k \in DOMAIN r : IsInput(r[k]) /\ r[k].of = i
    BY <1>5 DEF Lists
  <2> QED
    BY <1>2, <2>1, <2>2, <2>3 DEF Lists
<1>8. NoHeads(a) /\ NoHeads(s) /\ NoHeads(b) => NoHeads(r)
  BY <1>3 DEF NoHeads
<1> QED
  BY <1>2, <1>7, <1>8 DEF r

\* Heads may come before, none after.
LEMMA AheadAfter ==
  ASSUME NEW a, Plain(a), NEW s \in Seq(Entry), NEW T, Ahead(s, T)
  PROVE  Ahead(a \o s, T)
<1> DEFINE r == a \o s
<1>1. a \in Seq(Entry)
  BY DEF Plain
<1>2. /\ Len(r) = Len(a) + Len(s) /\ DOMAIN r = 1..Len(r)
      /\ Len(a) \in Nat /\ Len(s) \in Nat /\ DOMAIN a = 1..Len(a) /\ DOMAIN s = 1..Len(s)
      /\ \A k \in DOMAIN s : Len(a) + k \in DOMAIN r /\ r[Len(a) + k] = s[k]
  BY <1>1
<1>3. \A l \in DOMAIN r : l <= Len(a) \/ (l - Len(a) \in DOMAIN s /\ r[l] = s[l - Len(a)])
  BY <1>1
<1> HIDE DEF r
<1> SUFFICES ASSUME NEW i \in T
             PROVE  \E k \in DOMAIN r : /\ IsInput(r[k]) /\ r[k].of = i
                                        /\ \A l \in DOMAIN r : IsHead(r[l]) => l < k
  BY DEF Ahead, r
<1>4. PICK k \in DOMAIN s : /\ IsInput(s[k]) /\ s[k].of = i
                            /\ \A l \in DOMAIN s : IsHead(s[l]) => l < k
  BY DEF Ahead
<1>5. \A l \in DOMAIN r : IsHead(r[l]) => l < Len(a) + k
  BY <1>2, <1>3, <1>4
<1> QED
  BY <1>2, <1>4, <1>5

-------------------------------------------------------------------------------
(***************************************************************************)
(* Every input is written once, in sight of the generation that owns it and *)
(* before its answer.                                                      *)
(***************************************************************************)
Holds(p, i) == p \in DOMAIN entries /\ IsInput(entries[p]) /\ entries[p].of = i

Out == {"absent", "queued"}

Listed ==
  /\ \A p \in DOMAIN entries : IsInput(entries[p]) =>
       entries[p].of \in InputId /\ input[entries[p].of].status \notin Out
  /\ \A p, q \in DOMAIN entries :
       IsInput(entries[p]) /\ IsInput(entries[q]) /\ entries[p].of = entries[q].of => p = q

Sees(p, i) == Holds(p, i) /\ \A q \in DOMAIN entries : IsHead(entries[q]) => q < p

InSight == \A i \in InState("placed") : \E p \in DOMAIN entries : Sees(p, i)

\* The message c answers the input that p holds.
Saw(p, i, c) ==
  /\ Holds(p, i) /\ p < c /\ c \in DOMAIN entries
  /\ entries[c].kind \in {"assistant", "calls"}
  /\ \A q \in DOMAIN entries : IsHead(entries[q]) => ~(p <= q /\ q <= c)

AnsweredAfter ==
  \A i \in InState("done") : ModeIs(i, Steering) =>
    \E p \in DOMAIN entries : Saw(p, i, input[i].answer)

\* What a post_tools owns was there before the calls it joins.
Asks(p, i, c) == Holds(p, i) /\ c \in DOMAIN entries /\ p < c /\ entries[c].kind = "calls"

PostSees ==
  \A u \in TaskId : LivePost(u) => \A i \in task[u].inputs : \E p, c \in DOMAIN entries : Asks(p, i, c)

Seen == Listed /\ InSight /\ AnsweredAfter /\ PostSees

LEMMA Grown ==
  ASSUME TypeOK, NEW s \in Seq(Entry), entries' = entries \o s
  PROVE  /\ Len(entries) \in Nat /\ DOMAIN entries = 1..Len(entries)
         /\ Len(s) \in Nat /\ DOMAIN s = 1..Len(s)
         /\ DOMAIN entries' = 1..(Len(entries) + Len(s))
         /\ \A p \in DOMAIN entries : p \in DOMAIN entries' /\ entries'[p] = entries[p]
         /\ \A k \in DOMAIN s : /\ Len(entries) + k \in DOMAIN entries'
                                /\ entries'[Len(entries) + k] = s[k]
         /\ \A p \in DOMAIN entries' \ DOMAIN entries :
              p > Len(entries) /\ p - Len(entries) \in DOMAIN s /\ entries'[p] = s[p - Len(entries)]
<1>1. entries \in Seq(Entry)
  BY DEF TypeOK
<1> QED
  BY <1>1

LEMMA ListedStep ==
  ASSUME TypeOK, Listed, NEW C \in SUBSET InputId, NEW s, Lists(s, C), entries' = entries \o s,
         \A i \in InputId : Moves(input[i], input'[i]),
         \A i \in C : input[i].status \in Out /\ input'[i].status \notin Out
  PROVE  Listed'
<1>1. s \in Seq(Entry)
  BY DEF Lists
<1> DEFINE n == Len(entries)
<1>2. /\ n \in Nat /\ DOMAIN entries = 1..n /\ Len(s) \in Nat /\ DOMAIN s = 1..Len(s)
      /\ \A p \in DOMAIN entries : entries'[p] = entries[p]
      /\ \A p \in DOMAIN entries' \ DOMAIN entries :
           p - n \in DOMAIN s /\ entries'[p] = s[p - n] /\ p \in Nat
      /\ DOMAIN entries' = 1..(n + Len(s))
  BY <1>1, Grown
<1> HIDE DEF n
<1>3. ASSUME NEW p \in DOMAIN entries', IsInput(entries'[p])
      PROVE  /\ entries'[p].of \in InputId /\ input'[entries'[p].of].status \notin Out
             /\ p \in DOMAIN entries => input[entries'[p].of].status \notin Out
             /\ p \notin DOMAIN entries => input[entries'[p].of].status \in Out
  <2>1. CASE p \in DOMAIN entries
    <3>1. entries[p].of \in InputId /\ input[entries[p].of].status \notin Out
      BY <1>2, <1>3, <2>1 DEF Listed
    <3>2. input'[entries[p].of].status \notin Out
      BY <3>1 DEF Moves, Out
    <3> QED
      BY <1>2, <2>1, <3>1, <3>2
  <2>2. CASE p \notin DOMAIN entries
    <3>1. s[p - n].of \in C /\ entries'[p] = s[p - n]
      BY <1>2, <1>3, <2>2 DEF Lists
    <3> QED
      BY <2>2, <3>1
  <2> QED
    BY <2>1, <2>2
<1>4. ASSUME NEW p \in DOMAIN entries', NEW q \in DOMAIN entries', IsInput(entries'[p]),
             IsInput(entries'[q]), entries'[p].of = entries'[q].of
      PROVE  p = q
  <2>1. p \in DOMAIN entries <=> q \in DOMAIN entries
    BY <1>3, <1>4
  <2>2. CASE p \in DOMAIN entries
    BY <1>2, <1>4, <2>1, <2>2 DEF Listed
  <2>3. CASE p \notin DOMAIN entries
    <3>1. p - n = q - n
      BY <1>2, <1>4, <2>1, <2>3 DEF Lists
    <3>2. p \in Nat /\ q \in Nat
      BY <1>2, <2>1, <2>3
    <3> QED
      BY <1>2, <3>1, <3>2
  <2> QED
    BY <2>2, <2>3
<1> QED
  BY <1>3, <1>4 DEF Listed

LEMMA SightStep ==
  ASSUME TypeOK, InSight, NEW s \in Seq(Entry), entries' = entries \o s, NEW T, Ahead(s, T),
         \A i \in InState("placed")' : i \in T \/ (i \in InState("placed") /\ NoHeads(s))
  PROVE  InSight'
<1> DEFINE n == Len(entries)
<1>2. /\ n \in Nat /\ DOMAIN entries = 1..n /\ Len(s) \in Nat /\ DOMAIN s = 1..Len(s)
      /\ \A p \in DOMAIN entries : p \in DOMAIN entries' /\ entries'[p] = entries[p]
      /\ \A k \in DOMAIN s : n + k \in DOMAIN entries' /\ entries'[n + k] = s[k]
      /\ \A p \in DOMAIN entries' \ DOMAIN entries :
           p - n \in DOMAIN s /\ entries'[p] = s[p - n] /\ p \in Nat
      /\ DOMAIN entries' = 1..(n + Len(s))
  BY Grown
<1> HIDE DEF n
<1> SUFFICES ASSUME NEW i \in InState("placed")'
             PROVE  \E p \in DOMAIN entries' : Sees(p, i)'
  BY DEF InSight
<1>3. CASE i \in T
  <2>1. PICK k \in DOMAIN s : /\ IsInput(s[k]) /\ s[k].of = i
                              /\ \A l \in DOMAIN s : IsHead(s[l]) => l < k
    BY <1>3 DEF Ahead
  <2>2. \A q \in DOMAIN entries' : IsHead(entries'[q]) => q < n + k
    <3> SUFFICES ASSUME NEW q \in DOMAIN entries', IsHead(entries'[q]) PROVE q < n + k
      OBVIOUS
    <3>1. CASE q \in DOMAIN entries
      BY <1>2, <3>1
    <3>2. CASE q \notin DOMAIN entries
      <4>1. q - n < k /\ q \in Nat
        BY <1>2, <2>1, <3>2
      <4> QED
        BY <1>2, <4>1
    <3> QED
      BY <3>1, <3>2
  <2>3. n + k \in DOMAIN entries' /\ entries'[n + k] = s[k]
    BY <1>2
  <2>4. PICK p \in DOMAIN entries' : /\ entries'[p] = s[k]
                                    /\ \A q \in DOMAIN entries' : IsHead(entries'[q]) => q < p
    BY <2>2, <2>3
  <2>5. Sees(p, i)'
    BY <2>1, <2>4 DEF Sees, Holds
  <2> QED
    BY <2>5
<1>4. CASE i \in InState("placed") /\ NoHeads(s)
  <2>1. PICK p \in DOMAIN entries : Sees(p, i)
    BY <1>4 DEF InSight
  <2>2. \A q \in DOMAIN entries' : IsHead(entries'[q]) => q \in DOMAIN entries /\ IsHead(entries[q])
    BY <1>2, <1>4 DEF NoHeads
  <2>3. Sees(p, i)'
    BY <1>2, <2>1, <2>2 DEF Sees, Holds
  <2> QED
    BY <1>2, <2>1, <2>3
<1> QED
  BY <1>3, <1>4

LEMMA AnswerStep ==
  ASSUME TypeOK, AnsweredAfter, NEW s \in Seq(Entry), entries' = entries \o s,
         \A i \in InputId : Moves(input[i], input'[i]),
         \A i \in InState("placed") : input'[i].status = "done" =>
           \E p \in DOMAIN entries : Saw(p, i, input[i].answer)'
  PROVE  AnsweredAfter'
<1>1. /\ Len(entries) \in Nat /\ DOMAIN entries = 1..Len(entries)
      /\ \A p \in DOMAIN entries : p \in DOMAIN entries' /\ entries'[p] = entries[p]
      /\ \A p \in DOMAIN entries' \ DOMAIN entries : p > Len(entries) /\ p \in Nat
  BY Grown
<1> SUFFICES ASSUME NEW i \in InputId, input'[i].status = "done", input'[i].mode \in Steering
             PROVE  \E p \in DOMAIN entries' : Saw(p, i, input[i].answer)'
  BY DEF AnsweredAfter, InState, ModeIs
<1>2. CASE input[i].status = "done"
  <2>1. input'[i] = input[i]
    BY <1>2 DEF Moves
  <2>2. PICK p \in DOMAIN entries : Saw(p, i, input[i].answer)
    BY <1>2, <2>1 DEF AnsweredAfter, InState, ModeIs
  <2> DEFINE c == input[i].answer
  <2>3. c \in DOMAIN entries /\ Saw(p, i, c)
    BY <2>2 DEF Saw
  <2>4. \A q \in DOMAIN entries' : IsHead(entries'[q]) => ~(p <= q /\ q <= c)
    <3> SUFFICES ASSUME NEW q \in DOMAIN entries', IsHead(entries'[q]), p <= q, q <= c PROVE FALSE
      OBVIOUS
    <3>1. q \in DOMAIN entries
      BY <1>1, <2>3
    <3> QED
      BY <1>1, <2>3, <3>1 DEF Saw
  <2>5. Saw(p, i, input[i].answer)'
    BY <1>1, <2>1, <2>3, <2>4 DEF Saw, Holds
  <2> QED
    BY <1>1, <2>5
<1>3. CASE input[i].status = "placed"
  <2>1. PICK p \in DOMAIN entries : Saw(p, i, input[i].answer)'
    BY <1>3 DEF InState
  <2> QED
    BY <1>1, <2>1
<1>4. CASE input[i].status \notin {"done", "placed"}
  <2>1. input'[i].mode \in Writing
    BY <1>4 DEF Moves
  <2> QED
    BY <2>1 DEF Writing, Steering
<1> QED
  BY <1>2, <1>3, <1>4

LEMMA PostStays ==
  ASSUME TypeOK, PostSees, NEW s \in Seq(Entry), entries' = entries \o s,
         \A u \in TaskId : LivePost(u)' => LivePost(u) /\ task'[u].inputs = task[u].inputs
  PROVE  PostSees'
<1>1. \A p \in DOMAIN entries : p \in DOMAIN entries' /\ entries'[p] = entries[p]
  BY Grown
<1> SUFFICES ASSUME NEW u \in TaskId, LivePost(u)', NEW i \in task'[u].inputs
             PROVE  \E p, c \in DOMAIN entries' : Asks(p, i, c)'
  BY DEF PostSees
<1>2. PICK p, c \in DOMAIN entries : Asks(p, i, c)
  BY DEF PostSees
<1>3. Asks(p, i, c)'
  BY <1>1, <1>2 DEF Asks, Holds
<1> QED
  BY <1>1, <1>2, <1>3

-------------------------------------------------------------------------------
(***************************************************************************)
(* Every step keeps the inputs in sight.                                   *)
(***************************************************************************)
\* A step that writes no input and no head, and places and answers nothing.
Plainly ==
  /\ \E s : Plain(s) /\ NoHeads(s) /\ entries' = entries \o s
  /\ \A i \in InputId : /\ input[i].status # "placed" => input'[i].status # "placed"
                        /\ input[i].status # "done" => input'[i].status # "done"
  /\ \A u \in TaskId : LivePost(u)' => LivePost(u) /\ task'[u].inputs = task[u].inputs

LEMMA PlainlyStep ==
  ASSUME IInv, [Next]_vars, Seen, Plainly
  PROVE  Seen'
<1>1. PICK s : Plain(s) /\ NoHeads(s) /\ entries' = entries \o s
  BY DEF Plainly
<1>2. s \in Seq(Entry) /\ Lists(s, {}) /\ Ahead(s, {})
  BY <1>1 DEF Plain, Lists, Ahead
<1>3. TypeOK /\ \A i \in InputId : Moves(input[i], input'[i])
  BY StepIsOK DEF StepOK, GoodStep, IInv
<1>4. Listed'
  BY <1>1, <1>2, <1>3, ListedStep DEF Seen
<1>5. InSight'
  <2>1. \A i \in InState("placed")' : i \in InState("placed")
    BY DEF InState, Plainly
  <2> QED
    BY <1>1, <1>2, <1>3, <2>1, SightStep DEF Seen
<1>6. AnsweredAfter'
  <2>1. \A i \in InState("placed") : input'[i].status # "done"
    BY DEF InState, Plainly
  <2> QED
    BY <1>1, <1>2, <1>3, <2>1, AnswerStep DEF Seen
<1>7. PostSees'
  BY <1>1, <1>2, <1>3, PostStays DEF Seen, Plainly
<1> QED
  BY <1>4, <1>5, <1>6, <1>7 DEF Seen

LEMMA NoneWritten ==
  ASSUME TypeOK, entries' = entries
  PROVE  \E s : Plain(s) /\ NoHeads(s) /\ entries' = entries \o s
<1>1. entries' = entries \o <<>>
  BY NothingAppended DEF Appends
<1> QED
  BY <1>1, NoEntry

LEMMA ResultWritten ==
  ASSUME TypeOK, NEW k \in Nat, entries' = Append(entries, [kind |-> "result", of |-> k])
  PROVE  \E s : Plain(s) /\ NoHeads(s) /\ entries' = entries \o s
<1> DEFINE e == [kind |-> "result", of |-> k]
<1>1. e \in Entry /\ ~IsInput(e) /\ ~IsHead(e)
  BY DEF Entry, IsInput, IsHead
<1> HIDE DEF e
<1>2. entries' = entries \o <<e>>
  BY <1>1, AppendIs DEF Appends, e
<1>3. Plain(<<e>>) /\ NoHeads(<<e>>)
  BY <1>1, OneEntry
<1> QED
  BY <1>2, <1>3

LEMMA PostsSame ==
  ASSUME SameTurn \/ \E t \in TaskId : Closes(t)
  PROVE  \A u \in TaskId : LivePost(u)' => LivePost(u) /\ task'[u].inputs = task[u].inputs
<1>1. CASE SameTurn
  BY <1>1 DEF SameTurn, LivePost
<1>2. ASSUME NEW t \in TaskId, Closes(t), NEW u \in TaskId, LivePost(u)'
      PROVE  LivePost(u) /\ task'[u].inputs = task[u].inputs
  <2>1. u # t /\ task[u].live /\ task'[u] = task[u]
    BY <1>2 DEF Closes, Ends, LivePost
  <2> QED
    BY <1>2, <2>1 DEF LivePost
<1> QED
  BY <1>1, <1>2

\* Inputs that are only given up.
GivenUp(ids) == input' = Settled(input, ids, "unanswered", 0)

LEMMA GivenUpIs ==
  ASSUME IInv, NEW ids, GivenUp(ids) \/ input' = input
  PROVE  \A i \in InputId : /\ input[i].status # "placed" => input'[i].status # "placed"
                            /\ input[i].status # "done" => input'[i].status # "done"
<1>1. CASE GivenUp(ids)
  <2>1. input \in InputTable /\ 0 \in Nat
    BY Before
  <2>2. Fields(input, Settled(input, ids, "unanswered", 0), ids, "unanswered", 0)
    BY <2>1, SettledFields
  <2> QED
    BY <1>1, <2>2 DEF Fields, GivenUp
<1> QED
  BY <1>1

LEMMA SeenSteps ==
  ASSUME IInv, OneTurn, [Next]_vars
  PROVE  \/ Plainly
         \/ SendIdle \/ \E mode \in Writing : WriteIdle(mode)
         \/ \E t \in TaskId : Concluding(t) \/ Continuing(t) \/ CallTools(t)
<1>0. TypeOK /\ \A t \in TaskId : task[t].call \in Nat
  <2>1. MaxCalls \in Nat
    BY InboxAssumption
  <2> QED
    BY <2>1 DEF IInv, TypeOK, TaskRecord
<1> DEFINE Turned == SameTurn \/ \E t \in TaskId : Closes(t)
           Given  == \E ids : GivenUp(ids) \/ input' = input
<1>1. ASSUME Turned, Given, entries' = entries PROVE Plainly
  <2>1. /\ \A i \in InputId : /\ input[i].status # "placed" => input'[i].status # "placed"
                              /\ input[i].status # "done" => input'[i].status # "done"
    BY <1>1, GivenUpIs
  <2>2. \A u \in TaskId : LivePost(u)' => LivePost(u) /\ task'[u].inputs = task[u].inputs
    BY <1>1, PostsSame
  <2>3. \E s : Plain(s) /\ NoHeads(s) /\ entries' = entries \o s
    BY <1>0, <1>1, NoneWritten
  <2> QED
    BY <2>1, <2>2, <2>3 DEF Plainly
<1>2. ASSUME Turned, Given, NEW t \in TaskId,
             entries' = Append(entries, [kind |-> "result", of |-> task[t].call])
      PROVE  Plainly
  <2>1. /\ \A i \in InputId : /\ input[i].status # "placed" => input'[i].status # "placed"
                              /\ input[i].status # "done" => input'[i].status # "done"
    BY <1>2, GivenUpIs
  <2>2. \A u \in TaskId : LivePost(u)' => LivePost(u) /\ task'[u].inputs = task[u].inputs
    BY <1>2, PostsSame
  <2>3. \E s : Plain(s) /\ NoHeads(s) /\ entries' = entries \o s
    BY <1>0, <1>2, ResultWritten
  <2> QED
    BY <2>1, <2>2, <2>3 DEF Plainly
<1>3. ASSUME NEW mode \in Modes, Queue(mode) PROVE Plainly
  <2>1. SameTurn /\ entries' = entries
    BY <1>3, StillTurn DEF Queue
  <2>2. NextId \in InputId /\ input[NextId].status = "absent" /\ input \in InputTable
    BY <1>3, Before, NextIdIsFree DEF IInv, Queue
  <2> DEFINE k == NextId
             r == [status |-> "queued", mode |-> mode, waited |-> TRUE, answer |-> 0]
  <2>3. input' = [input EXCEPT ![k] = r] /\ r.status = "queued"
    BY <1>3 DEF Queue
  <2> HIDE DEF r, k
  <2>4. \A i \in InputId : /\ input[i].status # "placed" => input'[i].status # "placed"
                           /\ input[i].status # "done" => input'[i].status # "done"
    BY <2>2, <2>3 DEF InputTable
  <2>5. \A u \in TaskId : LivePost(u)' => LivePost(u) /\ task'[u].inputs = task[u].inputs
    BY <2>1, PostsSame
  <2>6. \E s : Plain(s) /\ NoHeads(s) /\ entries' = entries \o s
    BY <1>0, <2>1, NoneWritten
  <2> QED
    BY <2>4, <2>5, <2>6 DEF Plainly
<1>4. ASSUME NEW t \in TaskId, NEW control \in Controls, Runs(t, "pi.tool"), CloseTool(t, control)
      PROVE  Plainly
  <2>1. Closes(t) /\ entries' = Append(entries, [kind |-> "result", of |-> task[t].call])
    BY <1>4, CloseToolTurn DEF Runs, Ready, LiveTool
  <2>2. input' = input
    BY <1>4 DEF CloseTool
  <2> QED
    BY <1>2, <2>1, <2>2
<1>5. ASSUME NEW t \in TaskId, Progress(t)
      PROVE  Plainly \/ Concluding(t) \/ Continuing(t) \/ CallTools(t)
  <2>1. CASE AnswerFinal(t) \/ Fail(t) \/ PostTools(t)
    BY <2>1, AnswerTurns, FailTurns, PostToolsTurns
  <2>2. CASE CloseCollapse(t)
    BY <1>1, <2>2, CollapseTurn DEF CloseCollapse
  <2>3. CASE RefuseTool(t) \/ FinishTool(t)
    <3>1. PICK control \in Controls : Runs(t, "pi.tool") /\ CloseTool(t, control)
      BY <2>3 DEF RefuseTool, FinishTool, Controls
    <3> QED
      BY <1>4, <3>1
  <2>4. CASE StartTool(t)
    BY <1>1, <2>4, StartTurn DEF StartTool
  <2>5. ASSUME Execute(t) PROVE Plainly
    BY <1>1, <2>5, ExecuteTurn DEF Execute
  <2>6. CASE ExecuteTool(t)
    BY <2>5, <2>6 DEF ExecuteTool
  <2>7. CASE RecoverTool(t)
    <3>1. CASE CloseTool(t, "none")
      <4>1. Runs(t, "pi.tool") /\ "none" \in Controls
        BY <2>7 DEF RecoverTool, Controls
      <4> QED
        BY <1>4, <3>1, <4>1
    <3> QED
      BY <2>5, <2>7, <3>1 DEF RecoverTool
  <2>8. CASE AbortTask(t)
    <3>1. Closes(t) /\ GivenUp(task[t].inputs)
      BY <2>8, AbortTurn DEF AbortTask, GivenUp
    <3>2. CASE LiveTool(t)
      BY <1>2, <2>8, <3>1, <3>2, AbortTurn
    <3>3. CASE ~LiveTool(t)
      BY <1>1, <2>8, <3>1, <3>3, AbortTurn
    <3> QED
      BY <3>2, <3>3
  <2>9. CASE Overflow(t)
    <3>1. PICK x \in TaskId : Alone(x)' /\ UNCHANGED <<input, inbox, entries, hurt>>
      BY <2>9, OverflowTurn
    <3>2. \A u \in TaskId : ~LivePost(u)'
      BY <3>1 DEF Alone, IsTurn, LivePost
    <3>3. \E s : Plain(s) /\ NoHeads(s) /\ entries' = entries \o s
      BY <1>0, <3>1, NoneWritten
    <3> QED
      BY <3>1, <3>2, <3>3 DEF Plainly
  <2> QED
    BY <1>5, <2>1, <2>2, <2>3, <2>4, <2>6, <2>7, <2>8, <2>9 DEF Progress
<1>6. CASE \E t \in TaskId : MarkTask(t) \/ Fault(t)
  <2>1. PICK t \in TaskId : MarkTask(t) \/ Fault(t)
    BY <1>6
  <2>2. CASE MarkTask(t)
    BY <1>1, <2>2, MarkTurn DEF MarkTask
  <2>3. CASE Fault(t)
    BY <1>1, <2>3, FaultTurn DEF Fault, GivenUp
  <2> QED
    BY <2>1, <2>2, <2>3
<1>7. CASE AbortConversation
  BY <1>1, <1>7, AbortConversationTurn DEF AbortConversation, GivenUp
<1>8. CASE Crash
  BY <1>1, <1>8, CrashTurn DEF Crash
<1>9. CASE \E i \in InputId : Withdraw(i)
  BY <1>1, <1>9, StillTurn DEF Withdraw, GivenUp
<1>10. CASE UNCHANGED vars
  BY <1>1, <1>10, StillTurn DEF vars
<1>11. CASE Send \/ Write
  BY <1>3, <1>11 DEF Send, Write, Modes
<1> QED
  BY <1>5, <1>6, <1>7, <1>8, <1>9, <1>10, <1>11 DEF Next

LEMMA IdleOwnsNone ==
  ASSUME IInv, ~Busy
  PROVE  InState("placed") = {} /\ \A u \in TaskId : ~LivePost(u)
<1>1. Groups(task, InState("placed"))
  BY DEF IInv
<1>2. \A u \in TaskId : task[u].inputs = {}
  BY <1>1 DEF Groups, Busy, IsTurn, OwnerKinds
<1> QED
  BY <1>1, <1>2 DEF Groups, Busy, IsTurn, LivePost

\* The inputs that a boundary places, and the others.
LEMMA SelectedOut ==
  ASSUME IInv, NEW at, NEW B \in Selections(at)
  PROVE  /\ Moved(B) \in InputTable /\ B \in SUBSET InputId /\ Triggers(B) \subseteq B
         /\ \A i \in B : input[i].status = "queued" /\ Moved(B)[i].status \notin Out
         /\ \A i \in InputId : Moved(B)[i].status = "placed" =>
              i \in Triggers(B) \/ i \in InState("placed")
         /\ \A i \in InState("placed") : Moved(B)[i] = input[i] /\ i \in InputId
<1>1. Books(input, inbox, InState("placed"))
  BY DEF IInv
<1>2. KeepsBooks(B, InState("placed")) /\ MovesOn(B)
  BY <1>1, MovedIs
<1>3. B \subseteq inbox /\ Triggers(B) \subseteq B
  BY SelectionsAre
<1>4. \A i \in B : i \in InputId /\ input[i].status = "queued"
  BY <1>1, <1>3 DEF Books
<1>5. \A i \in B : Moved(B)[i].status # "queued"
  BY <1>2, <1>4 DEF KeepsBooks, Books
<1>6. \A i \in B : Moved(B)[i].status # "absent"
  BY <1>2, <1>4 DEF MovesOn
<1>7. \A i \in InState("placed") : Moved(B)[i] = input[i] /\ i \in InputId
  BY <1>2 DEF MovesOn, InState
<1> QED
  BY <1>2, <1>3, <1>4, <1>5, <1>6, <1>7 DEF KeepsBooks, Books, Out

LEMMA WriteIdleSeen ==
  ASSUME IInv, [Next]_vars, Seen, NEW mode \in Writing, WriteIdle(mode)
  PROVE  Seen'
<1> DEFINE k == NextId
           e == [kind |-> mode, of |-> k]
           r == [NoInput EXCEPT !.status = "done", !.mode = mode]
<1>1. k \in InputId /\ input[k].status = "absent" /\ input \in InputTable /\ ~Busy
  BY Before, NextIdIsFree DEF IInv, WriteIdle
<1>2. input' = [input EXCEPT ![k] = r] /\ r.status = "done"
  BY DEF WriteIdle, NoInput
<1>3. e \in Entry /\ IsInput(e) /\ e.of = k
  BY <1>1 DEF Entry, IsInput, Writing, InputId
<1>4. entries' = Append(entries, e) /\ task' = task
  BY DEF WriteIdle
<1> HIDE DEF k, e, r
<1>5. entries' = entries \o <<e>> /\ TypeOK /\ <<e>> \in Seq(Entry)
  BY <1>3, <1>4, AppendIs DEF Appends, IInv
<1>6. Lists(<<e>>, {k})
  BY <1>3, <1>5 DEF Lists
<1>7. \A i \in InputId : Moves(input[i], input'[i])
  BY StepIsOK DEF StepOK, GoodStep
<1>8. /\ input'[k].status = "done"
      /\ \A i \in InputId \ {k} : input'[i] = input[i]
  BY <1>1, <1>2 DEF InputTable
<1>9. InState("placed") = {} /\ \A u \in TaskId : ~LivePost(u)
  BY <1>1, IdleOwnsNone
<1>10. Listed'
  <2>1. \A i \in {k} : input[i].status \in Out /\ input'[i].status \notin Out
    BY <1>1, <1>8 DEF Out
  <2>2. {k} \in SUBSET InputId
    BY <1>1
  <2> QED
    BY <1>5, <1>6, <1>7, <2>1, <2>2, ListedStep DEF Seen
<1>11. InSight'
  <2>1. InState("placed")' = {}
    BY <1>8, <1>9 DEF InState
  <2> QED
    BY <2>1 DEF InSight
<1>12. AnsweredAfter'
  BY <1>5, <1>7, <1>9, AnswerStep DEF Seen
<1>13. PostSees'
  BY <1>4, <1>9 DEF PostSees, LivePost
<1> QED
  BY <1>10, <1>11, <1>12, <1>13 DEF Seen

\* A message after all that.
LEMMA UserAfter ==
  ASSUME NEW s, NEW C, Lists(s, C), NEW T, Ahead(s, T), NEW e \in Entry, e.kind = "user", e.of \notin C
  PROVE  Lists(s \o <<e>>, C \cup {e.of}) /\ Ahead(s \o <<e>>, T \cup {e.of})
<1> DEFINE r == s \o <<e>>
           n == Len(s)
<1>1. s \in Seq(Entry) /\ IsInput(e) /\ ~IsHead(e)
  BY DEF Lists, IsInput, IsHead
<1>2. /\ r \in Seq(Entry) /\ n \in Nat /\ DOMAIN s = 1..n /\ DOMAIN r = 1..(n + 1)
      /\ \A k \in DOMAIN s : k \in DOMAIN r /\ r[k] = s[k]
      /\ r[n + 1] = e /\ n + 1 \in DOMAIN r
  BY <1>1
<1>3. \A k \in DOMAIN r : k \in DOMAIN s \/ k = n + 1
  BY <1>2
<1> HIDE DEF r, n
<1>4. Lists(r, C \cup {e.of})
  <2>1. \A k \in DOMAIN r : IsInput(r[k]) => r[k].of \in C \cup {e.of}
    BY <1>2, <1>3 DEF Lists
  <2>2. \A k, l \in DOMAIN r : IsInput(r[k]) /\ IsInput(r[l]) /\ r[k].of = r[l].of => k = l
    <3>1. \A k \in DOMAIN s : IsInput(s[k]) => s[k].of # e.of
      BY DEF Lists
    <3> QED
      BY <1>2, <1>3, <3>1 DEF Lists
  <2>3. \A i \in C : \E k \in DOMAIN r : IsInput(r[k]) /\ r[k].of = i
    BY <1>2 DEF Lists
  <2>4. \E k \in DOMAIN r : IsInput(r[k]) /\ r[k].of = e.of
    BY <1>1, <1>2
  <2> QED
    BY <1>2, <2>1, <2>2, <2>3, <2>4 DEF Lists
<1>5. Ahead(r, T \cup {e.of})
  <2>1. \A l \in DOMAIN r : IsHead(r[l]) => l \in DOMAIN s /\ IsHead(s[l])
    BY <1>1, <1>2, <1>3
  <2>2. ASSUME NEW i \in T
        PROVE  \E k \in DOMAIN r : /\ IsInput(r[k]) /\ r[k].of = i
                                   /\ \A l \in DOMAIN r : IsHead(r[l]) => l < k
    BY <1>2, <2>1, <2>2 DEF Ahead
  <2>3. \E k \in DOMAIN r : /\ IsInput(r[k]) /\ r[k].of = e.of
                            /\ \A l \in DOMAIN r : IsHead(r[l]) => l < k
    <3>1. \A l \in DOMAIN r : IsHead(r[l]) => l < n + 1
      BY <1>2, <2>1
    <3> QED
      BY <1>1, <1>2, <3>1
  <2> QED
    BY <2>2, <2>3 DEF Ahead
<1> QED
  BY <1>4, <1>5 DEF r

LEMMA SendIdleSeen ==
  ASSUME IInv, OneTurn, [Next]_vars, Seen, SendIdle
  PROVE  Seen'
<1>1. PICK B \in Selections("final") :
        /\ input' = [Moved(B) EXCEPT ![NextId] = [NoInput EXCEPT !.status = "placed"]]
        /\ entries' = entries \o Entries(B) \o <<[kind |-> "user", of |-> NextId]>>
  BY DEF SendIdle
<1> DEFINE k == NextId
           e == [kind |-> "user", of |-> k]
           r == [NoInput EXCEPT !.status = "placed"]
           s == Entries(B) \o <<e>>
<1>2. k \in InputId /\ input[k].status = "absent" /\ ~Busy
  BY NextIdIsFree DEF IInv, SendIdle
<1>3. e \in Entry /\ e.kind = "user" /\ e.of = k /\ r.status = "placed"
  BY <1>2 DEF Entry, InputId, NoInput
<1>4. input' = [Moved(B) EXCEPT ![k] = r] /\ entries' = entries \o Entries(B) \o <<e>>
  BY <1>1
<1> HIDE DEF k, e, r
<1>5. /\ Moved(B) \in InputTable /\ B \in SUBSET InputId
      /\ \A i \in B : input[i].status = "queued" /\ Moved(B)[i].status \notin Out
      /\ \A i \in InputId : Moved(B)[i].status = "placed" =>
              i \in Triggers(B) \/ i \in InState("placed")
  BY SelectedOut
<1>6. InState("placed") = {} /\ \A u \in TaskId : ~LivePost(u)
  BY <1>2, IdleOwnsNone
<1>7. Lists(s, B \cup {k}) /\ Ahead(s, Triggers(B) \cup {k})
  <2>1. Lists(Entries(B), B) /\ Ahead(Entries(B), Triggers(B)) /\ k \notin B
    BY <1>2, <1>5, EntriesList
  <2> QED
    BY <1>3, <2>1, UserAfter
<1>8. TypeOK /\ s \in Seq(Entry) /\ entries' = entries \o s
  <2>1. TypeOK /\ entries \in Seq(Entry) /\ Entries(B) \in Seq(Entry) /\ <<e>> \in Seq(Entry)
    BY <1>3, SelectedTyped DEF IInv, TypeOK
  <2> QED
    BY <1>4, <2>1, Associative
<1> HIDE DEF s
<1>9. \A i \in InputId : Moves(input[i], input'[i])
  BY StepIsOK DEF StepOK, GoodStep
<1>10. input'[k].status = "placed" /\ \A i \in InputId \ {k} : input'[i] = Moved(B)[i]
  BY <1>2, <1>3, <1>4, <1>5 DEF InputTable
<1>11. Listed'
  <2>1. \A i \in B \cup {k} : input[i].status \in Out /\ input'[i].status \notin Out
    BY <1>2, <1>5, <1>10 DEF Out
  <2>2. B \cup {k} \in SUBSET InputId
    BY <1>2, <1>5
  <2> QED
    BY <1>7, <1>8, <1>9, <2>1, <2>2, ListedStep DEF Seen
<1>12. InSight'
  <2>1. \A i \in InState("placed")' : i \in Triggers(B) \cup {k}
    BY <1>5, <1>6, <1>10 DEF InState
  <2> QED
    BY <1>7, <1>8, <2>1, SightStep DEF Seen
<1>13. AnsweredAfter'
  BY <1>6, <1>8, <1>9, AnswerStep DEF Seen
<1>14. PostSees'
  <2>1. \E x \in TaskId : Alone(x)'
    BY SendTurn
  <2> QED
    BY <2>1 DEF PostSees, Alone, IsTurn, LivePost
<1> QED
  BY <1>11, <1>12, <1>13, <1>14 DEF Seen

LEMMA CallToolsSeen ==
  ASSUME IInv, OneTurn, [Next]_vars, Seen, NEW t \in TaskId, CallTools(t)
  PROVE  Seen'
<1>1. PICK x \in TaskId : HandsOver(t, x) /\ \E n \in CallId :
        entries' = Append(entries, [kind |-> "calls", of |-> n])
  BY CallTurn
<1>2. PICK n \in CallId : entries' = Append(entries, [kind |-> "calls", of |-> n])
  BY <1>1
<1> DEFINE e == [kind |-> "calls", of |-> n]
<1>3. e \in Entry /\ ~IsInput(e) /\ ~IsHead(e) /\ e.kind = "calls"
  BY InboxAssumption DEF Entry, IsInput, IsHead, CallId
<1>4. entries' = Append(entries, e)
  BY <1>2
<1> HIDE DEF e
<1>5. /\ entries' = entries \o <<e>> /\ TypeOK /\ <<e>> \in Seq(Entry)
      /\ Plain(<<e>>) /\ NoHeads(<<e>>)
  BY <1>3, <1>4, AppendIs, OneEntry DEF Appends, IInv
<1>6. Lists(<<e>>, {}) /\ Ahead(<<e>>, {})
  BY <1>5 DEF Plain, Lists, Ahead
<1>7. input' = input /\ \A i \in InputId : Moves(input[i], input'[i])
  BY StepIsOK DEF StepOK, GoodStep, CallTools
<1>8. Listed'
  <2> DEFINE s == <<e>>
  <2>1. Lists(s, {}) /\ entries' = entries \o s
    BY <1>5, <1>6
  <2> HIDE DEF s
  <2> QED
    BY <1>5, <1>7, <2>1, ListedStep DEF Seen
<1>9. InSight'
  <2>1. \A i \in InState("placed")' : i \in InState("placed")
    BY <1>7 DEF InState
  <2> QED
    BY <1>5, <1>6, <2>1, SightStep DEF Seen
<1>10. AnsweredAfter'
  <2>1. \A i \in InState("placed") : input'[i].status # "done"
    BY <1>7 DEF InState
  <2> QED
    BY <1>5, <1>7, <2>1, AnswerStep DEF Seen
<1>11. PostSees'
  <2> SUFFICES ASSUME NEW u \in TaskId, LivePost(u)', NEW i \in task'[u].inputs
               PROVE  \E p, c \in DOMAIN entries' : Asks(p, i, c)'
    BY DEF PostSees
  <2>1. u = x
    BY <1>1 DEF HandsOver, LivePost, LiveTool, IsTurn
  <2>2. i \in InState("placed")
    BY <1>1, <2>1, Before DEF HandsOver
  <2>3. PICK p \in DOMAIN entries : Sees(p, i)
    BY <2>2 DEF Seen, InSight
  <2>4. /\ p \in DOMAIN entries' /\ entries'[p] = entries[p]
        /\ Len(entries) + 1 \in DOMAIN entries' /\ entries'[Len(entries) + 1] = e
        /\ p < Len(entries) + 1
    <3>1. /\ Len(<<e>>) = 1 /\ DOMAIN <<e>> = 1..1 /\ <<e>>[1] = e
      OBVIOUS
    <3> QED
      BY <1>5, <3>1, Grown
  <2>5. PICK c \in DOMAIN entries' : entries'[c] = e /\ p < c
    BY <2>4
  <2>6. Asks(p, i, c)'
    BY <1>3, <2>3, <2>4, <2>5 DEF Sees, Holds, Asks
  <2> QED
    BY <2>4, <2>5, <2>6
<1> QED
  BY <1>8, <1>9, <1>10, <1>11 DEF Seen

LEMMA LastCallsIs ==
  ASSUME TypeOK, CallsAt # {}
  PROVE  /\ LastCalls \in DOMAIN entries /\ LastCalls \in Nat /\ entries[LastCalls].kind = "calls"
         /\ \A c \in DOMAIN entries : entries[c].kind = "calls" => c <= LastCalls
<1>1. CallsAt \in SUBSET (0..Len(entries)) /\ CallsAt \in SUBSET Nat /\ Len(entries) \in Nat
  <2>1. DOMAIN entries = 1..Len(entries) /\ Len(entries) \in Nat /\ CallsAt \subseteq DOMAIN entries
    BY DEF TypeOK, CallsAt
  <2> QED
    BY <2>1
<1>2. PICK m \in CallsAt : \A i \in CallsAt : i <= m
  BY <1>1, GreatestExists
<1>3. LastCalls = m
  BY <1>1, <1>2, MaxIs DEF LastCalls, CallsAt
<1> QED
  BY <1>1, <1>2, <1>3 DEF CallsAt

\* The answer of a turn comes after what its owner was asked.
LEMMA AnswerSaw ==
  ASSUME IInv, Seen, NEW t \in TaskId, NEW at, NEW B \in Selections(at), NEW a, NEW answer,
         NEW status, Concludes(t, B, a, status, answer), status = "done",
         NEW i \in task[t].inputs, input'[i].answer = answer
  PROVE  \E p \in DOMAIN entries : Saw(p, i, input[i].answer)'
<1> DEFINE s == a \o Entries(B)
<1>1. TypeOK /\ a \in Seq(Entry) /\ s \in Seq(Entry) /\ entries' = entries \o s
  BY SelectedTyped, Associative DEF Concludes, Plain, IInv
<1>2. /\ Len(entries) \in Nat /\ DOMAIN entries = 1..Len(entries)
      /\ \A p \in DOMAIN entries : p \in DOMAIN entries' /\ entries'[p] = entries[p]
      /\ \A k \in DOMAIN s : /\ Len(entries) + k \in DOMAIN entries'
                             /\ entries'[Len(entries) + k] = s[k]
      /\ \A p \in DOMAIN entries' \ DOMAIN entries : p > Len(entries)
  <2> HIDE DEF s
  <2> QED
    BY <1>1, Grown
<1>3. i \in InState("placed")
  BY Before
<1>4. PICK p \in DOMAIN entries : Sees(p, i)
  BY <1>3 DEF Seen, InSight
<1> DEFINE c == answer
<1>5. /\ p < c /\ c \in DOMAIN entries' /\ c <= Len(entries) + 1
      /\ entries'[c].kind \in {"assistant", "calls"} /\ c \in Nat
  <2>1. Answers2(t, a, answer)
    BY DEF Concludes
  <2>2. CASE a = <<[kind |-> "assistant", of |-> 0]>> /\ answer = Len(entries) + 1
    <3> DEFINE e == [kind |-> "assistant", of |-> 0]
    <3>1. e \in Entry /\ e.kind = "assistant"
      BY DEF Entry
    <3>2. a = <<e>> /\ Entries(B) \in Seq(Entry)
      BY <2>2, SelectedTyped
    <3> HIDE DEF e
    <3>3. 1 \in DOMAIN s /\ s[1] = e
      BY <3>1, <3>2
    <3> HIDE DEF s
    <3>4. Len(entries) + 1 \in DOMAIN entries' /\ entries'[Len(entries) + 1] = e
      BY <1>2, <3>3
    <3> QED
      BY <1>2, <2>2, <3>1, <3>4
  <2>3. CASE task[t].kind = "pi.post_tools" /\ answer = LastCalls
    <3>1. LivePost(t) /\ CallsAt # {}
      BY <2>3 DEF LivePost, Concludes, Owner, IInv, CallsBefore
    <3>2. PICK p2, c2 \in DOMAIN entries : Asks(p2, i, c2)
      BY <3>1 DEF Seen, PostSees
    <3>3. p2 = p
      BY <1>4, <3>2 DEF Seen, Listed, Asks, Sees, Holds
    <3>4. /\ LastCalls \in DOMAIN entries /\ LastCalls \in Nat
          /\ entries[LastCalls].kind = "calls" /\ c2 <= LastCalls
      BY <1>1, <3>1, <3>2, LastCallsIs DEF Asks
    <3>5. p < LastCalls /\ LastCalls <= Len(entries)
      BY <1>2, <3>2, <3>3, <3>4 DEF Asks
    <3> QED
      BY <1>2, <2>3, <3>4, <3>5
  <2> QED
    BY <2>1, <2>2, <2>3 DEF Answers2
<1> HIDE DEF s
<1>6. \A q \in DOMAIN entries' : IsHead(entries'[q]) => ~(p <= q /\ q <= c)
  <2> SUFFICES ASSUME NEW q \in DOMAIN entries', IsHead(entries'[q]), p <= q, q <= c
               PROVE  FALSE
    OBVIOUS
  <2>1. CASE q \in DOMAIN entries
    <3>1. q < p /\ q \in Nat /\ p \in Nat
      BY <1>2, <1>4, <2>1 DEF Sees
    <3> QED
      BY <3>1
  <2>2. CASE q \notin DOMAIN entries
    <3>1. q \in Nat
      <4>1. DOMAIN entries' \subseteq Nat
        BY <1>1, Grown
      <4> QED
        BY <4>1
    <3>2. q = c
      BY <1>2, <1>5, <2>2, <3>1
    <3> QED
      BY <1>5, <3>2 DEF IsHead
  <2> QED
    BY <2>1, <2>2
<1>7. Holds(p, i)'
  BY <1>2, <1>4 DEF Sees, Holds
<1>8. input'[i].answer = c
  OBVIOUS
<1> HIDE DEF c
<1>9. Saw(p, i, input[i].answer)'
  BY <1>5, <1>6, <1>7, <1>8 DEF Saw
<1> QED
  BY <1>9

LEMMA NoneAhead ==
  ASSUME NEW s, NEW C, Lists(s, C), NoHeads(s), NEW T \in SUBSET C
  PROVE  Ahead(s, T)
BY DEF Lists, NoHeads, Ahead

LEMMA ListsAfter ==
  ASSUME NEW a, Plain(a), NEW s, NEW C, Lists(s, C)
  PROVE  a \o s \in Seq(Entry) /\ Lists(a \o s, C)
<1> DEFINE r == a \o s
<1>1. r \in Seq(Entry)
  BY DEF Plain, Lists
<1>2. r \o <<>> = r
  <2> HIDE DEF r
  <2> QED
    BY <1>1
<1>3. Lists(a \o s \o <<>>, C)
  BY NoEntry, ListsBetween
<1> QED
  BY <1>1, <1>2, <1>3

LEMMA ConcludesSeen ==
  ASSUME IInv, OneTurn, [Next]_vars, Seen, NEW t \in TaskId, NEW at, NEW B \in Selections(at),
         NEW a, NEW status, NEW answer, Concludes(t, B, a, status, answer)
  PROVE  Seen'
<1> DEFINE s   == a \o Entries(B)
           ids == task[t].inputs
<1>1. Plain(a) /\ entries' = entries \o s /\ input' = Settled(Moved(B), ids, status, answer)
  BY DEF Concludes
<1>2. Lists(Entries(B), B) /\ Ahead(Entries(B), Triggers(B))
  BY EntriesList
<1>3. s \in Seq(Entry) /\ Lists(s, B) /\ Ahead(s, Triggers(B)) /\ TypeOK
  <2>1. s \in Seq(Entry) /\ Lists(s, B)
    BY <1>1, <1>2, ListsAfter
  <2>2. Entries(B) \in Seq(Entry) /\ TypeOK
    BY <1>2 DEF Lists, IInv
  <2>3. Ahead(s, Triggers(B))
    BY <1>1, <1>2, <2>2, AheadAfter
  <2> QED
    BY <2>1, <2>2, <2>3
<1> HIDE DEF s
<1>4. \A i \in InputId : Moves(input[i], input'[i])
  BY StepIsOK DEF StepOK, GoodStep
<1>5. ids = InState("placed")
  BY QuietEnd DEF Concludes
<1>6. /\ Moved(B) \in InputTable /\ B \in SUBSET InputId
      /\ \A i \in B : input[i].status = "queued" /\ Moved(B)[i].status \notin Out
      /\ \A i \in InputId : Moved(B)[i].status = "placed" =>
              i \in Triggers(B) \/ i \in InState("placed")
      /\ \A i \in InState("placed") : i \in InputId
  BY SelectedOut
<1>7. status \in {"done", "unanswered"} /\ answer \in Nat
  <2>1. CASE task[t].kind = "pi.post_tools"
    <3>1. CallsAt # {}
      BY <2>1 DEF IInv, CallsBefore
    <3> QED
      BY <1>3, <3>1, LastCallsIs DEF Concludes, Answers2, TypeOK
  <2>2. CASE task[t].kind # "pi.post_tools"
    BY <1>3, <2>2 DEF Concludes, Answers2, TypeOK
  <2> QED
    BY <2>1, <2>2
<1>8. /\ \A i \in ids : i \in InputId /\ input'[i].status = status /\ input'[i].answer = answer
      /\ \A i \in InputId \ ids : input'[i] = Moved(B)[i]
  <2> DEFINE mid == Moved(B)
             out == Settled(mid, ids, status, answer)
  <2>1. mid \in InputTable /\ input' = out
    BY <1>1, <1>6
  <2>2. Fields(mid, out, ids, status, answer)
    <3> HIDE DEF mid
    <3> QED
      BY <1>7, <2>1, SettledFields
  <2> HIDE DEF out
  <2> QED
    BY <1>5, <1>6, <2>1, <2>2 DEF Fields
<1> HIDE DEF ids
<1>9. Listed'
  <2>1. \A i \in B : input[i].status \in Out /\ input'[i].status \notin Out
    BY <1>5, <1>6, <1>8 DEF Out, InState
  <2> QED
    BY <1>1, <1>3, <1>4, <1>6, <2>1, ListedStep DEF Seen
<1>10. InSight'
  <2>1. \A i \in InState("placed")' : i \in Triggers(B)
    BY <1>5, <1>6, <1>7, <1>8 DEF InState
  <2> QED
    BY <1>1, <1>3, <2>1, SightStep DEF Seen
<1>11. AnsweredAfter'
  <2>1. ASSUME NEW i \in InState("placed"), input'[i].status = "done"
        PROVE  \E p \in DOMAIN entries : Saw(p, i, input[i].answer)'
    <3>1. status = "done" /\ input'[i].answer = answer /\ i \in task[t].inputs
      BY <1>5, <1>8, <2>1 DEF ids
    <3> QED
      BY <3>1, AnswerSaw
  <2> QED
    BY <1>1, <1>3, <1>4, <2>1, AnswerStep DEF Seen
<1>12. PostSees'
  <2>1. NoTurn' \/ \E x \in TaskId : Alone(x)'
    BY ConcludedTurn
  <2> QED
    BY <2>1 DEF PostSees, NoTurn, Alone, IsTurn, LivePost
<1> QED
  BY <1>9, <1>10, <1>11, <1>12 DEF Seen

LEMMA ContinuesSeen ==
  ASSUME IInv, OneTurn, [Next]_vars, Seen, NEW t \in TaskId, NEW at, NEW B \in Selections(at),
         NEW a, NEW b, NEW r, Continues(t, B, a, b, r)
  PROVE  Seen'
<1> DEFINE s == a \o Entries(B) \o b
<1>1. /\ Plain(a) /\ Plain(b) /\ NoHeads(a) /\ NoHeads(b) /\ Cut = 0
      /\ entries' = entries \o s /\ input' = Moved(B)
  BY DEF Continues
<1>2. Lists(Entries(B), B) /\ NoHeads(Entries(B))
  BY <1>1, EntriesList
<1>3. s \in Seq(Entry) /\ Lists(s, B) /\ NoHeads(s) /\ TypeOK
  BY <1>1, <1>2, ListsBetween DEF IInv
<1> HIDE DEF s
<1>4. \A i \in InputId : Moves(input[i], input'[i])
  BY StepIsOK DEF StepOK, GoodStep
<1>5. /\ B \in SUBSET InputId /\ Triggers(B) \subseteq B
      /\ \A i \in B : input[i].status = "queued" /\ Moved(B)[i].status \notin Out
      /\ \A i \in InputId : Moved(B)[i].status = "placed" =>
              i \in Triggers(B) \/ i \in InState("placed")
      /\ \A i \in InState("placed") : Moved(B)[i] = input[i]
  BY SelectedOut
<1>6. Ahead(s, Triggers(B))
  BY <1>3, <1>5, NoneAhead
<1>7. Listed'
  <2>1. \A i \in B : input[i].status \in Out /\ input'[i].status \notin Out
    BY <1>1, <1>5 DEF Out
  <2> QED
    BY <1>1, <1>3, <1>4, <1>5, <2>1, ListedStep DEF Seen
<1>8. InSight'
  <2>1. \A i \in InState("placed")' : i \in Triggers(B) \/ i \in InState("placed")
    BY <1>1, <1>5 DEF InState
  <2> QED
    BY <1>1, <1>3, <1>6, <2>1, SightStep DEF Seen
<1>9. AnsweredAfter'
  <2>1. \A i \in InState("placed") : input'[i].status # "done"
    BY <1>1, <1>5 DEF InState
  <2> QED
    BY <1>1, <1>3, <1>4, <2>1, AnswerStep DEF Seen
<1>10. PostSees'
  <2>1. \E x \in TaskId : Alone(x)'
    BY ContinuedTurn
  <2> QED
    BY <2>1 DEF PostSees, Alone, IsTurn, LivePost
<1> QED
  BY <1>7, <1>8, <1>9, <1>10 DEF Seen

LEMMA SeenStep ==
  ASSUME IInv, OneTurn, Seen, [Next]_vars
  PROVE  Seen'
<1>1. CASE Plainly
  BY <1>1, PlainlyStep
<1>2. CASE SendIdle
  BY <1>2, SendIdleSeen
<1>3. CASE \E mode \in Writing : WriteIdle(mode)
  BY <1>3, WriteIdleSeen
<1>4. ASSUME NEW t \in TaskId, Concluding(t) PROVE Seen'
  <2>1. PICK at \in {"final", "postTools"} : \E B \in Selections(at) : \E a, status, answer :
          Concludes(t, B, a, status, answer)
    BY <1>4 DEF Concluding
  <2>2. PICK B \in Selections(at) : \E a, status, answer : Concludes(t, B, a, status, answer)
    BY <2>1
  <2>3. PICK a, status, answer : Concludes(t, B, a, status, answer)
    BY <2>2
  <2> QED
    BY <2>3, ConcludesSeen
<1>5. ASSUME NEW t \in TaskId, Continuing(t) PROVE Seen'
  <2>1. PICK at \in {"final", "postTools"} : \E B \in Selections(at) : \E a, b, r :
          Continues(t, B, a, b, r)
    BY <1>5 DEF Continuing
  <2>2. PICK B \in Selections(at) : \E a, b, r : Continues(t, B, a, b, r)
    BY <2>1
  <2>3. PICK a, b, r : Continues(t, B, a, b, r)
    BY <2>2
  <2> QED
    BY <2>3, ContinuesSeen
<1>6. ASSUME NEW t \in TaskId, CallTools(t) PROVE Seen'
  BY <1>6, CallToolsSeen
<1> QED
  BY <1>1, <1>2, <1>3, <1>4, <1>5, <1>6, SeenSteps

LEMMA SeenInit == Init => Seen
BY DEF Init, Seen, Listed, InSight, AnsweredAfter, PostSees, InState, NoInput, NoTask, LivePost

LEMMA SeenAlways == Spec => [](IInv /\ Seen)
<1>1. Init => IInv /\ OneTurn /\ Seen
  BY InitOK, OneTurnInit, SeenInit
<1>2. IInv /\ OneTurn /\ Seen /\ [Next]_vars => (IInv /\ OneTurn /\ Seen)'
  BY Inductive, OneTurnStep, SeenStep
<1> QED
  BY <1>1, <1>2, PTL DEF Spec

\* Where an input is written is where EntryOf finds it.
LEMMA EntryFound ==
  ASSUME Listed, NEW p \in DOMAIN entries, NEW i, Holds(p, i)
  PROVE  EntryOf(i) = p
<1> DEFINE Has(q) == entries[q].kind \in {"user", "write", "reset"} /\ entries[q].of = i
<1>1. Has(p) /\ \A q \in DOMAIN entries : Has(q) => q = p
  BY DEF Listed, Holds, IsInput
<1>2. EntryOf(i) = CHOOSE q \in DOMAIN entries : Has(q)
  BY DEF EntryOf
<1> HIDE DEF Has
<1> QED
  BY <1>1, <1>2

\* A generation is only asked inputs that its request can see: no reset and no
\* handoff comes after one.
THEOREM OwnedInSight == Spec => []OwnedVisible
<1>1. ASSUME IInv, Seen PROVE OwnedVisible
  <2> SUFFICES ASSUME NEW i \in InState("placed"), NEW q \in DOMAIN entries, SelfHead(q)
               PROVE  q < EntryOf(i)
    BY DEF OwnedVisible
  <2>1. PICK p \in DOMAIN entries : Sees(p, i)
    BY <1>1 DEF Seen, InSight
  <2>2. EntryOf(i) = p
    BY <1>1, <2>1, EntryFound DEF Seen, Sees
  <2> QED
    BY <2>1, <2>2 DEF Sees, SelfHead, IsHead
<1> QED
  BY <1>1, SeenAlways, PTL

\* An input is answered by a message that comes after it, and nothing that hides it
\* lies between them.
THEOREM AnswersSee == Spec => []AnswerSeesInput
<1>1. ASSUME IInv, Seen PROVE AnswerSeesInput
  <2> SUFFICES ASSUME NEW i \in InState("done"), ModeIs(i, Steering)
               PROVE  /\ entries[input[i].answer].kind \in {"assistant", "calls"}
                      /\ EntryOf(i) < input[i].answer
                      /\ \A q \in EntryOf(i)..input[i].answer : ~SelfHead(q)
    BY DEF AnswerSeesInput
  <2>1. PICK p \in DOMAIN entries : Saw(p, i, input[i].answer)
    BY <1>1 DEF Seen, AnsweredAfter
  <2>2. EntryOf(i) = p
    BY <1>1, <2>1, EntryFound DEF Seen, Saw
  <2> DEFINE c == input[i].answer
  <2>3. /\ c \in DOMAIN entries /\ p < c /\ entries[c].kind \in {"assistant", "calls"}
        /\ \A q \in DOMAIN entries : IsHead(entries[q]) => ~(p <= q /\ q <= c)
    BY <2>1 DEF Saw
  <2> HIDE DEF c
  <2>4. \A q \in p..c : q \in DOMAIN entries /\ p <= q /\ q <= c
    <3>1. DOMAIN entries = 1..Len(entries) /\ Len(entries) \in Nat
      BY <1>1 DEF IInv, TypeOK
    <3> QED
      BY <2>3, <3>1
  <2>5. \A q \in p..c : ~SelfHead(q)
    BY <2>3, <2>4 DEF SelfHead, IsHead
  <2> QED
    BY <2>2, <2>3, <2>5 DEF c
<1> QED
  BY <1>1, SeenAlways, PTL

-------------------------------------------------------------------------------
(***************************************************************************)
(* The results of a message follow its calls.                              *)
(***************************************************************************)
\* From p on there are no more calls.
Since(p) == \A r \in p..Len(entries) : entries[r].kind # "calls"

\* The calls of the last message with calls that have a result.
Results == {entries[p].of : p \in {q \in DOMAIN entries : entries[q].kind = "result" /\ Since(q)}}

\* The tools of the turn: they live, or a post_tools still waits for them.
Part(d) == LiveTool(d) \/ \E u \in TaskId : LivePost(u) /\ d \in task[u].after

LastIs(c) == c \in DOMAIN entries /\ entries[c].kind = "calls" /\ Since(c + 1)

Follows(p) ==
  /\ p > 1 /\ entries[p - 1].kind \in {"result", "calls"}
  /\ \A q \in 1..(p - 1) : entries[q] = entries[p] => \E r \in q..p : entries[r].kind = "calls"

ResultsFollow == \A p \in DOMAIN entries : entries[p].kind = "result" => Follows(p)

OpenEnd == entries # <<>> /\ entries[Len(entries)].kind \in {"calls", "result"}

\* While the calls are worked on, they are the last ones and so are their results: a
\* task has an entry exactly when its call has a result.
CallsOpen ==
  /\ \A d, e \in TaskId : Part(d) /\ Part(e) /\ task[d].call = task[e].call => d = e
  /\ \A d \in TaskId : Part(d) \/ LivePost(d) => OpenEnd
  /\ \A d \in TaskId : Part(d) => (task[d].entry <=> task[d].call \in Results)
  /\ \A d \in TaskId : LiveTool(d) => ~task[d].entry
  /\ \A u \in TaskId : LivePost(u) => \E c \in DOMAIN entries :
       /\ LastIs(c) /\ {task[d].call : d \in task[u].after} = 1..entries[c].of
       /\ Results \subseteq 1..entries[c].of
  /\ \A u \in TaskId : task[u].live /\ task[u].joins => \E c \in DOMAIN entries :
       LastIs(c) /\ Results = 1..entries[c].of

\* No task that joins or is joined.
NoCalls ==
  \A u \in TaskId : task[u].live => ~task[u].joins /\ task[u].kind \notin {"pi.tool", "pi.post_tools"}

NoResults(s) == s \in Seq(Entry) /\ \A k \in DOMAIN s : s[k].kind # "result"

\* Results that the last calls do not have yet.
NewResults(s) ==
  /\ s \in Seq(Entry)
  /\ \A k \in DOMAIN s : s[k].kind = "result" /\ s[k].of \notin Results
  /\ \A k, l \in DOMAIN s : s[k].of = s[l].of => k = l
  /\ s # <<>> => OpenEnd

LEMMA NoCallsOpen ==
  ASSUME NoCalls'
  PROVE  CallsOpen'
<1>1. \A u \in TaskId : ~LiveTool(u)' /\ ~LivePost(u)' /\ ~(task'[u].live /\ task'[u].joins)
  BY DEF NoCalls, LiveTool, LivePost
<1>2. \A u \in TaskId : ~Part(u)'
  BY <1>1 DEF Part
<1> QED
  BY <1>1, <1>2 DEF CallsOpen

LEMMA NoTurnNoCalls ==
  ASSUME NoTurn'
  PROVE  NoCalls'
BY DEF NoTurn, NoCalls, IsTurn

LEMMA AloneNoCalls ==
  ASSUME NEW x \in TaskId, Alone(x)', ~task'[x].joins
  PROVE  NoCalls'
BY DEF Alone, NoCalls, IsTurn

LEMMA IdleNoCalls ==
  ASSUME OneTurn, ~Busy, task' = task
  PROVE  NoCalls'
BY DEF OneTurn, Busy, NoCalls, IsTurn

\* What results and then other entries do to the order.
LEMMA FollowStep ==
  ASSUME TypeOK, ResultsFollow, NEW y, NewResults(y), NEW z, NoResults(z),
         entries' = entries \o (y \o z)
  PROVE  ResultsFollow'
<1> DEFINE n == Len(entries)
           m == Len(y)
           s == y \o z
<1>1. /\ y \in Seq(Entry) /\ z \in Seq(Entry) /\ m \in Nat /\ DOMAIN y = 1..m /\ s \in Seq(Entry)
      /\ \A k \in DOMAIN y : s[k] = y[k]
      /\ \A k \in DOMAIN s \ DOMAIN y : k - m \in DOMAIN z /\ s[k] = z[k - m]
  BY DEF NewResults, NoResults
<1>2. \A k \in DOMAIN s : s[k].kind = "result" => k \in DOMAIN y /\ s[k] = y[k]
  BY <1>1 DEF NoResults
<1>3. entries' = entries \o s
  OBVIOUS
<1> HIDE DEF s
<1>4. /\ n \in Nat /\ DOMAIN entries = 1..n
      /\ \A p \in DOMAIN entries : p \in DOMAIN entries' /\ entries'[p] = entries[p]
      /\ \A k \in DOMAIN s : n + k \in DOMAIN entries' /\ entries'[n + k] = s[k]
      /\ \A p \in DOMAIN entries' \ DOMAIN entries :
           p > n /\ p - n \in DOMAIN s /\ entries'[p] = s[p - n] /\ p \in Nat
  <2>1. /\ n \in Nat /\ DOMAIN entries = 1..n /\ DOMAIN entries' = 1..(n + Len(s)) /\ Len(s) \in Nat
        /\ \A p \in DOMAIN entries : p \in DOMAIN entries' /\ entries'[p] = entries[p]
        /\ \A k \in DOMAIN s : n + k \in DOMAIN entries' /\ entries'[n + k] = s[k]
        /\ \A p \in DOMAIN entries' \ DOMAIN entries :
             p > n /\ p - n \in DOMAIN s /\ entries'[p] = s[p - n]
    BY <1>1, <1>3, Grown
  <2> HIDE DEF n
  <2>2. \A p \in DOMAIN entries' : p \in Nat
    BY <2>1
  <2> QED
    BY <2>1, <2>2
<1> HIDE DEF n
<1> SUFFICES ASSUME NEW p \in DOMAIN entries', entries'[p].kind = "result" PROVE Follows(p)'
  BY DEF ResultsFollow
<1>5. CASE p \in DOMAIN entries
  <2>1. Follows(p) /\ entries'[p] = entries[p] /\ p \in 1..n
    BY <1>4, <1>5 DEF ResultsFollow
  <2>2. p > 1 /\ p - 1 \in DOMAIN entries
    BY <1>4, <2>1 DEF Follows
  <2>3. entries'[p - 1].kind \in {"result", "calls"}
    BY <1>4, <2>1, <2>2 DEF Follows
  <2>4. ASSUME NEW q \in 1..(p - 1), entries'[q] = entries'[p]
        PROVE  \E r \in q..p : entries'[r].kind = "calls"
    <3>1. q \in DOMAIN entries /\ entries[q] = entries[p]
      BY <1>4, <2>1, <2>4
    <3>2. PICK r \in q..p : entries[r].kind = "calls"
      BY <2>1, <3>1 DEF Follows
    <3>3. r \in DOMAIN entries
      BY <1>4, <2>1, <3>1
    <3> QED
      BY <1>4, <3>2, <3>3
  <2> QED
    BY <2>2, <2>3, <2>4 DEF Follows
<1>6. CASE p \notin DOMAIN entries
  <2> DEFINE k == p - n
  <2>1. k \in DOMAIN y /\ entries'[p] = y[k] /\ p = n + k /\ k >= 1 /\ k <= m /\ p \in Nat
    BY <1>1, <1>2, <1>4, <1>6, SMTT(30)
  <2>2. OpenEnd /\ y[k].of \notin Results /\ y[k].kind = "result"
    BY <2>1 DEF NewResults
  <2>3. n \in DOMAIN entries /\ n >= 1 /\ entries[n].kind \in {"calls", "result"}
    BY <1>4, <2>2 DEF OpenEnd, TypeOK, n
  <2>4. p > 1 /\ entries'[p - 1].kind \in {"result", "calls"}
    <3>1. CASE k = 1
      <4>1. p - 1 = n
        BY <1>4, <2>1, <3>1
      <4>2. entries'[n] = entries[n] /\ p > 1
        BY <1>4, <2>1, <2>3, <3>1
      <4> QED
        BY <2>3, <4>1, <4>2
    <3>2. CASE k # 1
      <4>1. k - 1 \in DOMAIN y /\ n + (k - 1) = p - 1 /\ k - 1 \in DOMAIN s
        <5>1. DOMAIN y \subseteq DOMAIN s
          BY DEF s, NewResults, NoResults
        <5> QED
          BY <1>1, <1>4, <2>1, <3>2, <5>1
      <4>2. entries'[p - 1] = y[k - 1]
        BY <1>1, <1>4, <4>1 DEF s
      <4> QED
        BY <1>4, <2>1, <2>3, <4>1, <4>2 DEF NewResults
    <3> QED
      BY <3>1, <3>2
  <2>5. ASSUME NEW q \in 1..(p - 1), entries'[q] = entries'[p]
        PROVE  \E r \in q..p : entries'[r].kind = "calls"
    <3>1. CASE q \in DOMAIN entries
      <4>1. entries[q].kind = "result" /\ entries[q].of = y[k].of
        BY <1>4, <2>1, <2>2, <2>5, <3>1
      <4>2. ~Since(q)
        BY <2>2, <3>1, <4>1 DEF Results
      <4>3. PICK r \in q..n : entries[r].kind = "calls"
        BY <4>2 DEF Since, n
      <4>4. r \in DOMAIN entries /\ r \in q..p
        BY <1>4, <2>1, <3>1
      <4> QED
        BY <1>4, <4>3, <4>4
    <3>2. CASE q \notin DOMAIN entries
      <4>1. q \in DOMAIN entries' /\ q # p /\ entries'[q].kind = "result"
        <5>1. DOMAIN entries' = 1..(n + Len(s)) /\ Len(s) \in Nat
          BY <1>1, <1>3, Grown DEF n
        <5> QED
          BY <1>4, <2>1, <2>5, <5>1
      <4>2. q - n \in DOMAIN y /\ entries'[q] = y[q - n]
        BY <1>1, <1>2, <1>4, <3>2, <4>1
      <4>3. q - n = k
        BY <2>1, <2>5, <4>2 DEF NewResults
      <4>4. q = p
        BY <1>4, <2>1, <4>1, <4>3
      <4> QED
        BY <4>1, <4>4
    <3> QED
      BY <3>1, <3>2
  <2> QED
    BY <2>4, <2>5 DEF Follows
<1> QED
  BY <1>5, <1>6

LEMMA EntriesAside ==
  ASSUME IInv, NEW at, NEW B \in Selections(at)
  PROVE  Aside(Entries(B))
<1>1. input \in InputTable /\ B \subseteq InputId /\ Entries(B) \in Seq(Entry)
  BY SelectedTyped, Before
<1> DEFINE order == Sorted(B)
           s     == Entries(B)
<1>2. order \in Seq(B) /\ DOMAIN order = 1..Len(order)
  <2>1. B \in SUBSET (0..MaxInputs) /\ MaxInputs \in Nat
    BY <1>1, InboxAssumption DEF InputId
  <2> QED
    BY <2>1, SortedOnto
<1>3. s = [k \in DOMAIN order |-> [kind |-> EntryKind(order[k]), of |-> order[k]]]
  BY DEF Entries
<1> HIDE DEF order, s
<1>4. \A k \in DOMAIN s : s[k].kind = EntryKind(order[k]) /\ order[k] \in InputId
  BY <1>1, <1>2, <1>3
<1>5. \A i \in InputId : EntryKind(i) \notin {"calls", "result"}
  BY <1>1 DEF EntryKind, ModeIs, Writing, Steering, Modes, InputTable, InputRecord
<1> QED
  BY <1>1, <1>4, <1>5 DEF Aside, s

\* What a post_tools writes for the calls that have no result yet.
LEMMA SynthesisedNew ==
  ASSUME IInv, CallsOpen, NEW t \in TaskId, LivePost(t)
  PROVE  /\ NewResults(Synthesised(t))
         /\ {Synthesised(t)[k].of : k \in DOMAIN Synthesised(t)}
              = {task[d].call : d \in {e \in Tools(t) : ~task[e].entry}}
<1> DEFINE calls == {task[d].call : d \in {e \in Tools(t) : ~task[e].entry}}
           order == Sorted(calls)
           s     == Synthesised(t)
<1>1. task \in Table /\ Tools(t) \subseteq TaskId /\ s \in Seq(Entry)
  BY Before, SynthesisedTyped DEF Table, TaskRecord, Tools
<1>2. \A c \in calls : c \in 0..MaxCalls /\ c \notin Results
  <2> SUFFICES ASSUME NEW d \in Tools(t), ~task[d].entry
               PROVE  task[d].call \in 0..MaxCalls /\ task[d].call \notin Results
    OBVIOUS
  <2>1. d \in TaskId /\ Part(d)
    BY <1>1 DEF Part, Tools
  <2> QED
    BY <1>1, <2>1 DEF CallsOpen, Table, TaskRecord
<1>3. s = [k \in DOMAIN order |-> [kind |-> "result", of |-> order[k]]]
  BY DEF Synthesised
<1> HIDE DEF calls
<1>4. /\ order \in Seq(calls) /\ DOMAIN order = 1..Len(order)
      /\ \A i \in calls : \E k \in DOMAIN order : order[k] = i
      /\ \A k, l \in DOMAIN order : order[k] = order[l] => k = l
  <2>1. calls \in SUBSET (0..MaxCalls) /\ MaxCalls \in Nat
    BY <1>2, InboxAssumption
  <2> QED
    BY <2>1, SortedOnto
<1> HIDE DEF order, s
<1>5. DOMAIN s = DOMAIN order
      /\ \A k \in DOMAIN s : s[k].kind = "result" /\ s[k].of = order[k] /\ order[k] \in calls
  BY <1>3, <1>4
<1>6. OpenEnd
  BY DEF CallsOpen
<1>7. NewResults(s)
  BY <1>1, <1>2, <1>4, <1>5, <1>6 DEF NewResults
<1>8. {s[k].of : k \in DOMAIN s} = calls
  BY <1>4, <1>5
<1> QED
  BY <1>7, <1>8 DEF s, calls

\* What entries that are no calls add to the results.
LEMMA ResultsGrown ==
  ASSUME TypeOK, NEW s \in Seq(Entry), \A k \in DOMAIN s : s[k].kind # "calls",
         entries' = entries \o s
  PROVE  /\ Results' = Results \cup {s[k].of : k \in {l \in DOMAIN s : s[l].kind = "result"}}
         /\ \A c : LastIs(c) => LastIs(c)' /\ entries'[c] = entries[c]
<1> DEFINE n == Len(entries)
           m == Len(s)
<1>1. /\ n \in Nat /\ DOMAIN entries = 1..n /\ m \in Nat /\ DOMAIN s = 1..m
      /\ DOMAIN entries' = 1..(n + m)
      /\ \A p \in DOMAIN entries : p \in DOMAIN entries' /\ entries'[p] = entries[p]
      /\ \A k \in DOMAIN s : n + k \in DOMAIN entries' /\ entries'[n + k] = s[k]
      /\ \A p \in DOMAIN entries' \ DOMAIN entries :
           p > n /\ p - n \in DOMAIN s /\ entries'[p] = s[p - n]
  BY Grown
<1>2. entries' \in Seq(Entry) /\ Len(entries') = n + m
  BY DEF TypeOK
<1> HIDE DEF n, m
<1>3. \A p \in 1..(n + 1) : Since(p)' <=> Since(p)
  <2> SUFFICES ASSUME NEW p \in 1..(n + 1) PROVE Since(p)' <=> Since(p)
    OBVIOUS
  <2>1. Since(p) <=> \A r \in p..n : entries[r].kind # "calls"
    BY DEF Since, n
  <2>2. Since(p)' <=> \A r \in p..(n + m) : entries'[r].kind # "calls"
    BY <1>2 DEF Since
  <2>3. \A r \in p..n : r \in DOMAIN entries /\ r \in p..(n + m)
    BY <1>1
  <2>4. \A r \in p..(n + m) : r \in p..n \/ r \in DOMAIN entries' \ DOMAIN entries
    BY <1>1
  <2>5. \A r \in p..n : entries'[r] = entries[r] /\ r \in p..(n + m)
    BY <1>1, <2>3
  <2>6. ASSUME NEW r \in p..(n + m), r \in DOMAIN entries' \ DOMAIN entries
        PROVE  entries'[r].kind # "calls"
    BY <1>1, <2>6
  <2>7. CASE \A r \in p..n : entries[r].kind # "calls"
    <3>1. ASSUME NEW r \in p..(n + m) PROVE entries'[r].kind # "calls"
      <4>1. CASE r \in p..n
        BY <2>5, <2>7, <4>1
      <4> QED
        BY <2>4, <2>6, <4>1
    <3> QED
      BY <2>1, <2>2, <2>7, <3>1
  <2>8. CASE \E r \in p..n : ~(entries[r].kind # "calls")
    <3>1. PICK r \in p..n : ~(entries[r].kind # "calls")
      BY <2>8
    <3>2. r \in p..(n + m) /\ ~(entries'[r].kind # "calls")
      BY <2>5, <3>1
    <3> QED
      BY <2>1, <2>2, <2>8, <3>2
  <2> QED
    BY <2>7, <2>8
<1>4. \A p \in DOMAIN entries : Since(p)' <=> Since(p)
  <2>1. \A p \in DOMAIN entries : p \in 1..(n + 1)
    BY <1>1
  <2> QED
    BY <1>3, <2>1
<1>5. \A p \in DOMAIN entries' \ DOMAIN entries : Since(p)'
  <2> SUFFICES ASSUME NEW p \in DOMAIN entries' \ DOMAIN entries, NEW r \in p..(n + m)
               PROVE  entries'[r].kind # "calls"
    BY <1>2 DEF Since
  <2>1. r \in DOMAIN entries' \ DOMAIN entries
    BY <1>1
  <2> QED
    BY <1>1, <2>1
<1>6. \A e : e \in Results' <=>
        \/ e \in Results
        \/ e \in {s[k].of : k \in {l \in DOMAIN s : s[l].kind = "result"}}
  <2> TAKE e
  <2>1. ASSUME e \in Results' PROVE \/ e \in Results
                                    \/ \E k \in DOMAIN s : s[k].kind = "result" /\ e = s[k].of
    <3>1. PICK p \in DOMAIN entries' : entries'[p].kind = "result" /\ Since(p)' /\ e = entries'[p].of
      BY <2>1 DEF Results
    <3> QED
      BY <1>1, <1>4, <3>1 DEF Results
  <2>2. ASSUME e \in Results PROVE e \in Results'
    <3>1. PICK p \in DOMAIN entries : entries[p].kind = "result" /\ Since(p) /\ e = entries[p].of
      BY <2>2 DEF Results
    <3> QED
      BY <1>1, <1>4, <3>1 DEF Results
  <2>3. ASSUME NEW k \in DOMAIN s, s[k].kind = "result" PROVE s[k].of \in Results'
    <3>1. n + k \in DOMAIN entries' \ DOMAIN entries /\ entries'[n + k] = s[k]
      BY <1>1
    <3> QED
      BY <1>5, <2>3, <3>1 DEF Results
  <2> QED
    BY <2>1, <2>2, <2>3
<1>7. ASSUME NEW c, LastIs(c) PROVE LastIs(c)' /\ entries'[c] = entries[c]
  <2>1. c \in DOMAIN entries /\ c + 1 \in 1..(n + 1)
    BY <1>1, <1>7 DEF LastIs
  <2> QED
    BY <1>1, <1>3, <1>7, <2>1 DEF LastIs
<1> QED
  BY <1>6, <1>7

-------------------------------------------------------------------------------
LEMMA OneResult ==
  ASSUME TypeOK, NEW e \in Nat, entries' = Append(entries, [kind |-> "result", of |-> e])
  PROVE  /\ Results' = Results \cup {e} /\ OpenEnd'
         /\ \A c : LastIs(c) => LastIs(c)' /\ entries'[c] = entries[c]
         /\ ResultsFollow /\ e \notin Results /\ OpenEnd => ResultsFollow'
<1> DEFINE r == [kind |-> "result", of |-> e]
           s == <<r>>
<1>1. r \in Entry /\ r.kind = "result" /\ r.of = e
  BY DEF Entry
<1>2. entries' = Append(entries, r)
  OBVIOUS
<1> HIDE DEF r
<1>3. entries' = entries \o s /\ entries \in Seq(Entry)
  BY <1>1, <1>2, AppendIs DEF Appends, TypeOK
<1>4. s \in Seq(Entry) /\ DOMAIN s = {1} /\ s[1] = r /\ s # <<>>
  BY <1>1
<1>5. OpenEnd'
  <2>1. Len(entries') = Len(entries) + 1 /\ entries'[Len(entries')] = r /\ entries' # <<>>
    BY <1>1, <1>2, <1>3
  <2> QED
    BY <1>1, <2>1 DEF OpenEnd
<1> HIDE DEF s
<1>6. /\ Results' = Results \cup {s[k].of : k \in {l \in DOMAIN s : s[l].kind = "result"}}
      /\ \A c : LastIs(c) => LastIs(c)' /\ entries'[c] = entries[c]
  <2>1. \A k \in DOMAIN s : s[k].kind # "calls"
    BY <1>1, <1>4
  <2> QED
    BY <1>3, <1>4, <2>1, ResultsGrown
<1>7. {s[k].of : k \in {l \in DOMAIN s : s[l].kind = "result"}} = {e}
  BY <1>1, <1>4
<1>8. ASSUME ResultsFollow, e \notin Results, OpenEnd PROVE ResultsFollow'
  <2>1. NewResults(s)
    BY <1>1, <1>4, <1>8 DEF NewResults
  <2>2. entries' = entries \o (s \o <<>>)
    BY <1>3, <1>4
  <2>3. NoResults(<<>>)
    BY DEF NoResults
  <2> QED
    BY <1>8, <2>1, <2>2, <2>3, FollowStep
<1> QED
  BY <1>5, <1>6, <1>7, <1>8

\* A step that writes nothing and leaves the turn as it is.
LEMMA SameOpen ==
  ASSUME TypeOK, CallsOpen, SameTurn, entries' = entries
  PROVE  CallsOpen'
<1>1. /\ \A u \in TaskId :
           /\ task'[u].live = task[u].live /\ task'[u].kind = task[u].kind
           /\ task'[u].after = task[u].after /\ task'[u].joins = task[u].joins
           /\ task'[u].call = task[u].call /\ task'[u].entry = task[u].entry
      /\ \A u \in TaskId : task[u].after \subseteq TaskId
  BY DEF SameTurn, TypeOK, TaskRecord
<1>2. \A u \in TaskId : (LiveTool(u)' <=> LiveTool(u)) /\ (LivePost(u)' <=> LivePost(u))
  BY <1>1 DEF LiveTool, LivePost
<1>3. \A d \in TaskId : Part(d)' <=> Part(d)
  BY <1>1, <1>2 DEF Part
<1>4. Results' = Results /\ (OpenEnd' <=> OpenEnd) /\ \A c : LastIs(c)' <=> LastIs(c)
  BY DEF Results, OpenEnd, LastIs, Since
<1>5. /\ \A d, e \in TaskId : Part(d)' /\ Part(e)' /\ task'[d].call = task'[e].call => d = e
      /\ \A d \in TaskId : Part(d)' \/ LivePost(d)' => OpenEnd'
      /\ \A d \in TaskId : Part(d)' => (task'[d].entry <=> task'[d].call \in Results')
      /\ \A d \in TaskId : LiveTool(d)' => ~task'[d].entry
  BY <1>1, <1>2, <1>3, <1>4 DEF CallsOpen
<1>6. ASSUME NEW u \in TaskId, LivePost(u)'
      PROVE  \E c \in DOMAIN entries' :
               /\ LastIs(c)' /\ {task'[d].call : d \in task'[u].after} = 1..entries'[c].of
               /\ Results' \subseteq 1..entries'[c].of
  <2>1. PICK c \in DOMAIN entries :
          /\ LastIs(c) /\ {task[d].call : d \in task[u].after} = 1..entries[c].of
          /\ Results \subseteq 1..entries[c].of
    BY <1>2, <1>6 DEF CallsOpen
  <2>2. {task'[d].call : d \in task'[u].after} = {task[d].call : d \in task[u].after}
    BY <1>1
  <2> QED
    BY <1>4, <2>1, <2>2
<1>7. \A u \in TaskId : task'[u].live /\ task'[u].joins => \E c \in DOMAIN entries' :
        LastIs(c)' /\ Results' = 1..entries'[c].of
  BY <1>1, <1>4 DEF CallsOpen
<1> QED
  BY <1>5, <1>6, <1>7 DEF CallsOpen

\* What a task that closes leaves behind.
LEMMA ClosedParts ==
  ASSUME TypeOK, NEW t \in TaskId, Closes(t)
  PROVE  /\ \A u \in TaskId : task'[u].live => u # t /\ task[u].live /\ task'[u] = task[u]
         /\ \A u \in TaskId : LivePost(u)' => /\ LivePost(u) /\ u # t /\ task'[u] = task[u]
                                              /\ task[u].after \subseteq TaskId
                                              /\ \A d \in task[u].after : task'[d].call = task[d].call
         /\ \A d \in TaskId : Part(d)' => Part(d) /\ task'[d].call = task[d].call
         /\ \A d \in TaskId : Part(d)' /\ d # t => task'[d] = task[d]
         /\ Part(t)' => \E u \in TaskId \ {t} : LivePost(u) /\ t \in task[u].after
<1>1. \A u \in TaskId : task'[u].live => u # t /\ task[u].live /\ task'[u] = task[u]
  BY DEF Closes, Ends
<1>2. \A u \in TaskId : LivePost(u)' => /\ LivePost(u) /\ u # t /\ task'[u] = task[u]
                                        /\ task[u].after \subseteq TaskId
                                        /\ \A d \in task[u].after : task'[d].call = task[d].call
  <2> SUFFICES ASSUME NEW u \in TaskId, LivePost(u)'
               PROVE  /\ LivePost(u) /\ u # t /\ task'[u] = task[u]
                      /\ task[u].after \subseteq TaskId
                      /\ \A d \in task[u].after : task'[d].call = task[d].call
    OBVIOUS
  <2>1. LivePost(u) /\ u # t /\ task'[u] = task[u]
    BY <1>1 DEF LivePost
  <2>2. task[u].after \subseteq TaskId
    BY DEF TypeOK, TaskRecord
  <2>3. \A d \in task[u].after : task'[d].call = task[d].call
    BY <2>1 DEF Closes, Ends, LivePost
  <2> QED
    BY <2>1, <2>2, <2>3
<1>3. ASSUME NEW d \in TaskId, Part(d)'
      PROVE  /\ Part(d) /\ task'[d].call = task[d].call
             /\ d # t => task'[d] = task[d]
             /\ d = t => \E u \in TaskId \ {t} : LivePost(u) /\ t \in task[u].after
  <2>1. CASE LiveTool(d)'
    BY <1>1, <2>1 DEF LiveTool, Part
  <2>2. ASSUME NEW u \in TaskId, LivePost(u)', d \in task'[u].after
        PROVE  /\ Part(d) /\ task'[d].call = task[d].call
               /\ d # t => task'[d] = task[d]
               /\ d = t => \E v \in TaskId \ {t} : LivePost(v) /\ t \in task[v].after
    <3>1. LivePost(u) /\ u # t /\ d \in task[u].after /\ task'[d].call = task[d].call
      BY <1>2, <2>2
    <3>2. d # t => task'[d] = task[d]
      BY <3>1 DEF Closes, Ends, LivePost
    <3> QED
      BY <3>1, <3>2 DEF Part
  <2> QED
    BY <1>3, <2>1, <2>2 DEF Part
<1> QED
  BY <1>1, <1>2, <1>3

\* A task closes and writes nothing, a tool then without a result.
LEMMA ClosedOpen ==
  ASSUME TypeOK, CallsOpen, NEW t \in TaskId, Closes(t), entries' = entries,
         \A u \in TaskId \ {t} : LivePost(u) /\ t \in task[u].after => task'[t].entry = task[t].entry
  PROVE  CallsOpen'
<1>1. /\ \A u \in TaskId : task'[u].live => u # t /\ task[u].live /\ task'[u] = task[u]
      /\ \A u \in TaskId : LivePost(u)' => /\ LivePost(u) /\ u # t /\ task'[u] = task[u]
                                           /\ task[u].after \subseteq TaskId
                                           /\ \A d \in task[u].after : task'[d].call = task[d].call
      /\ \A d \in TaskId : Part(d)' => Part(d) /\ task'[d].call = task[d].call
      /\ \A d \in TaskId : Part(d)' /\ d # t => task'[d] = task[d]
      /\ Part(t)' => \E u \in TaskId \ {t} : LivePost(u) /\ t \in task[u].after
  BY ClosedParts
<1>2. Results' = Results /\ (OpenEnd' <=> OpenEnd) /\ \A c : LastIs(c)' <=> LastIs(c)
  BY DEF Results, OpenEnd, LastIs, Since
<1>3. \A d \in TaskId : Part(d)' => (task'[d].entry <=> task'[d].call \in Results')
  <2> SUFFICES ASSUME NEW d \in TaskId, Part(d)'
               PROVE  task'[d].entry <=> task'[d].call \in Results'
    OBVIOUS
  <2>1. task'[d].entry = task[d].entry
    BY <1>1
  <2> QED
    BY <1>1, <1>2, <2>1 DEF CallsOpen
<1>4. /\ \A d, e \in TaskId : Part(d)' /\ Part(e)' /\ task'[d].call = task'[e].call => d = e
      /\ \A d \in TaskId : Part(d)' \/ LivePost(d)' => OpenEnd'
  BY <1>1, <1>2 DEF CallsOpen
<1>5. \A d \in TaskId : LiveTool(d)' => ~task'[d].entry
  BY <1>1 DEF CallsOpen, LiveTool
<1>6. ASSUME NEW u \in TaskId, LivePost(u)'
      PROVE  \E c \in DOMAIN entries' :
               /\ LastIs(c)' /\ {task'[d].call : d \in task'[u].after} = 1..entries'[c].of
               /\ Results' \subseteq 1..entries'[c].of
  <2>1. PICK c \in DOMAIN entries :
          /\ LastIs(c) /\ {task[d].call : d \in task[u].after} = 1..entries[c].of
          /\ Results \subseteq 1..entries[c].of
    BY <1>1, <1>6 DEF CallsOpen
  <2>2. {task'[d].call : d \in task'[u].after} = {task[d].call : d \in task[u].after}
    BY <1>1, <1>6
  <2> QED
    BY <1>2, <2>1, <2>2
<1>7. \A u \in TaskId : task'[u].live /\ task'[u].joins => \E c \in DOMAIN entries' :
        LastIs(c)' /\ Results' = 1..entries'[c].of
  BY <1>1, <1>2 DEF CallsOpen
<1> QED
  BY <1>3, <1>4, <1>5, <1>6, <1>7 DEF CallsOpen

\* A tool closes, and the step writes the result of its call.
LEMMA ToolOpen ==
  ASSUME TypeOK, OneTurn, CallsOpen, NEW t \in TaskId, LiveTool(t), Closes(t),
         entries' = Append(entries, [kind |-> "result", of |-> task[t].call]),
         \A u \in TaskId \ {t} : task[u].live /\ t \in task[u].after => task'[t].entry
  PROVE  CallsOpen' /\ (ResultsFollow => ResultsFollow')
<1> DEFINE e == task[t].call
<1>1. /\ \A u \in TaskId : task'[u].live => u # t /\ task[u].live /\ task'[u] = task[u]
      /\ \A u \in TaskId : LivePost(u)' => /\ LivePost(u) /\ u # t /\ task'[u] = task[u]
                                           /\ task[u].after \subseteq TaskId
                                           /\ \A d \in task[u].after : task'[d].call = task[d].call
      /\ \A d \in TaskId : Part(d)' => Part(d) /\ task'[d].call = task[d].call
      /\ \A d \in TaskId : Part(d)' /\ d # t => task'[d] = task[d]
      /\ Part(t)' => \E u \in TaskId \ {t} : LivePost(u) /\ t \in task[u].after
  BY ClosedParts
<1>2. e \in Nat /\ Part(t) /\ ~task[t].entry /\ e \notin Results /\ OpenEnd
  <2>1. e \in Nat
    BY InboxAssumption DEF TypeOK, TaskRecord
  <2>2. Part(t)
    BY DEF Part
  <2> QED
    BY <2>1, <2>2 DEF CallsOpen
<1>3. entries' = Append(entries, [kind |-> "result", of |-> e])
  OBVIOUS
<1>4. \A d \in TaskId : Part(d) /\ task[d].call = e => d = t
  BY <1>2 DEF CallsOpen
<1>5. \A u \in TaskId : LivePost(u) => t \in task[u].after
  BY DEF OneTurn, Owner, LivePost, OwnerKinds
<1>6. \A u \in TaskId : task[u].live => ~task[u].joins
  BY DEF OneTurn, Owner, LivePost, OwnerKinds
<1> HIDE DEF e
<1>7. /\ Results' = Results \cup {e} /\ OpenEnd'
      /\ \A c : LastIs(c) => LastIs(c)' /\ entries'[c] = entries[c]
      /\ ResultsFollow => ResultsFollow'
  BY <1>2, <1>3, OneResult
<1>8. \A d \in TaskId : Part(d)' => (task'[d].entry <=> task'[d].call \in Results')
  <2> SUFFICES ASSUME NEW d \in TaskId, Part(d)'
               PROVE  task'[d].entry <=> task'[d].call \in Results'
    OBVIOUS
  <2>1. CASE d = t
    <3>1. task'[t].entry
      BY <1>1, <2>1 DEF LivePost
    <3>2. task'[t].call = e
      BY <1>1, <2>1 DEF e
    <3> QED
      BY <1>7, <2>1, <3>1, <3>2
  <2>2. CASE d # t
    <3>1. task'[d] = task[d] /\ Part(d) /\ task[d].call # e
      BY <1>1, <1>4, <2>2
    <3>2. task[d].entry <=> task[d].call \in Results
      BY <3>1 DEF CallsOpen
    <3> QED
      BY <1>7, <3>1, <3>2
  <2> QED
    BY <2>1, <2>2
<1>9. /\ \A d, f \in TaskId : Part(d)' /\ Part(f)' /\ task'[d].call = task'[f].call => d = f
      /\ \A d \in TaskId : Part(d)' \/ LivePost(d)' => OpenEnd'
  BY <1>1, <1>7 DEF CallsOpen
<1>10. \A d \in TaskId : LiveTool(d)' => ~task'[d].entry
  BY <1>1 DEF CallsOpen, LiveTool
<1>11. ASSUME NEW u \in TaskId, LivePost(u)'
       PROVE  \E c \in DOMAIN entries' :
                /\ LastIs(c)' /\ {task'[d].call : d \in task'[u].after} = 1..entries'[c].of
                /\ Results' \subseteq 1..entries'[c].of
  <2>1. PICK c \in DOMAIN entries :
          /\ LastIs(c) /\ {task[d].call : d \in task[u].after} = 1..entries[c].of
          /\ Results \subseteq 1..entries[c].of
    BY <1>1, <1>11 DEF CallsOpen
  <2>2. {task'[d].call : d \in task'[u].after} = {task[d].call : d \in task[u].after}
    BY <1>1, <1>11
  <2>3. e \in 1..entries[c].of
    <3>1. t \in task[u].after
      BY <1>1, <1>5, <1>11
    <3> QED
      BY <2>1, <3>1 DEF e
  <2>4. LastIs(c)' /\ entries'[c] = entries[c] /\ c \in DOMAIN entries'
    BY <1>7, <2>1 DEF LastIs
  <2> QED
    BY <1>7, <2>1, <2>2, <2>3, <2>4
<1>12. \A u \in TaskId : ~(task'[u].live /\ task'[u].joins)
  BY <1>1, <1>6
<1> QED
  BY <1>7, <1>8, <1>9, <1>10, <1>11, <1>12 DEF CallsOpen

\* The message with the calls.
LEMMA CallsBegin ==
  ASSUME IInv, OneTurn, ResultsFollow, NEW t \in TaskId, CallTools(t)
  PROVE  ResultsFollow' /\ CallsOpen'
<1>1. PICK x \in TaskId : HandsOver(t, x)
        /\ \E n \in CallId :
             /\ entries' = Append(entries, [kind |-> "calls", of |-> n])
             /\ {task'[d].call : d \in task'[x].after} = 1..n
             /\ \A d, e \in task'[x].after : task'[d].call = task'[e].call => d = e
             /\ \A d \in task'[x].after : ~task'[d].entry
             /\ task'[x].after \subseteq TaskId
  BY CallTurn
<1>2. PICK n \in CallId :
        /\ entries' = Append(entries, [kind |-> "calls", of |-> n])
        /\ {task'[d].call : d \in task'[x].after} = 1..n
        /\ \A d, e \in task'[x].after : task'[d].call = task'[e].call => d = e
        /\ \A d \in task'[x].after : ~task'[d].entry
        /\ task'[x].after \subseteq TaskId
  BY <1>1
<1> DEFINE r == [kind |-> "calls", of |-> n]
<1>3. r \in Entry /\ r.kind = "calls" /\ r.of = n
  BY InboxAssumption DEF Entry, CallId
<1>4. entries' = Append(entries, r)
  BY <1>2
<1> HIDE DEF r
<1>5. entries' = entries \o <<r>> /\ entries \in Seq(Entry) /\ TypeOK
  BY <1>3, <1>4, AppendIs DEF Appends, IInv, TypeOK
<1>6. PICK m \in Nat : /\ Len(entries') = m + 1 /\ DOMAIN entries' = 1..(m + 1)
                       /\ entries'[m + 1] = r /\ entries' # <<>>
  BY <1>3, <1>4, <1>5
<1>7. OpenEnd'
  BY <1>3, <1>6 DEF OpenEnd
<1>8. LastIs(m + 1)' /\ entries'[m + 1].of = n
  <2>1. \A k \in (m + 1 + 1)..Len(entries') : FALSE
    BY <1>6
  <2> QED
    BY <1>3, <1>6, <2>1 DEF LastIs, Since
<1>9. Results' = {}
  <2> SUFFICES ASSUME NEW p \in DOMAIN entries', entries'[p].kind = "result", Since(p)' PROVE FALSE
    BY DEF Results
  <2>1. m + 1 \in p..Len(entries')
    BY <1>6
  <2> QED
    BY <1>3, <1>6, <2>1 DEF Since
<1>10. ResultsFollow'
  <2>1. NewResults(<<>>) /\ NoResults(<<r>>)
    BY <1>3 DEF NewResults, NoResults
  <2>2. entries' = entries \o (<<>> \o <<r>>)
    BY <1>3, <1>5
  <2> QED
    BY <1>5, <2>1, <2>2, FollowStep
<1>11. /\ \A u \in TaskId : LivePost(u)' => u = x
       /\ \A d \in TaskId : Part(d)' => d \in task'[x].after
       /\ \A u \in TaskId : ~(task'[u].live /\ task'[u].joins)
  BY <1>1 DEF HandsOver, LivePost, LiveTool, IsTurn, Part
<1>12. /\ \A d, e \in TaskId : Part(d)' /\ Part(e)' /\ task'[d].call = task'[e].call => d = e
       /\ \A d \in TaskId : Part(d)' => ~task'[d].entry
  BY <1>2, <1>11
<1>13. \A d \in TaskId : LiveTool(d)' => ~task'[d].entry
  BY <1>12 DEF Part
<1>14. \A u \in TaskId : LivePost(u)' => \E c \in DOMAIN entries' :
         /\ LastIs(c)' /\ {task'[d].call : d \in task'[u].after} = 1..entries'[c].of
         /\ Results' \subseteq 1..entries'[c].of
  <2>1. m + 1 \in DOMAIN entries'
    BY <1>6
  <2>2. {task'[d].call : d \in task'[x].after} = 1..entries'[m + 1].of
    BY <1>2, <1>8
  <2> QED
    BY <1>8, <1>9, <1>11, <2>1, <2>2
<1> QED
  BY <1>7, <1>9, <1>10, <1>11, <1>12, <1>13, <1>14 DEF CallsOpen

\* The step that ends the task t begins with the results that its calls do not have.
LEMMA MissingNew ==
  ASSUME IInv, CallsOpen, NEW t \in TaskId, Owner(t)
  PROVE  NewResults(Missing(t))
<1>1. CASE task[t].kind = "pi.post_tools"
  BY <1>1, SynthesisedNew DEF Missing, Owner, LivePost
<1>2. CASE task[t].kind # "pi.post_tools"
  BY <1>2 DEF Missing, NewResults
<1> QED
  BY <1>1, <1>2

LEMMA ConcludesFollow ==
  ASSUME IInv, OneTurn, ResultsFollow, CallsOpen, NEW t \in TaskId, NEW at,
         NEW B \in Selections(at), NEW a, NEW status, NEW answer, Concludes(t, B, a, status, answer)
  PROVE  ResultsFollow' /\ CallsOpen'
<1>1. PICK h : Aside(h) /\ a = Missing(t) \o h
  BY DEF Concludes, Begins
<1>2. Aside(Entries(B)) /\ NoResults(h \o Entries(B))
  <2>1. Aside(Entries(B)) /\ Aside(h \o Entries(B))
    BY <1>1, EntriesAside, AsideConcat
  <2> QED
    BY <2>1 DEF Aside, NoResults
<1>3. NewResults(Missing(t))
  BY MissingNew DEF Concludes
<1>4. a \o Entries(B) = Missing(t) \o (h \o Entries(B))
  <2> DEFINE y == Missing(t)
             z == Entries(B)
  <2>1. y \in Seq(Entry) /\ h \in Seq(Entry) /\ z \in Seq(Entry) /\ a = y \o h
    BY <1>1, <1>2, <1>3 DEF Aside, NewResults
  <2> HIDE DEF y, z
  <2>2. a \o z = y \o (h \o z)
    BY <2>1, Associative
  <2> QED
    BY <2>2 DEF y, z
<1>5. entries' = entries \o (Missing(t) \o (h \o Entries(B))) /\ TypeOK
  BY <1>4 DEF Concludes, IInv
<1>6. ResultsFollow'
  BY <1>2, <1>3, <1>5, FollowStep
<1>7. NoCalls'
  <2>1. CASE Triggers(B) = {}
    BY <2>1, ConcludedTurn, NoTurnNoCalls
  <2>2. CASE Triggers(B) # {}
    <3>1. PICK x \in TaskId : Alone(x)' /\ task'[x] = Generation(Triggers(B))
      BY <2>2, ConcludedTurn
    <3>2. ~task'[x].joins
      BY <3>1 DEF Generation, NoTask
    <3> QED
      BY <3>1, <3>2, AloneNoCalls
  <2> QED
    BY <2>1, <2>2
<1> QED
  BY <1>6, <1>7, NoCallsOpen

LEMMA ContinuesFollow ==
  ASSUME IInv, OneTurn, ResultsFollow, CallsOpen, NEW t \in TaskId, NEW at,
         NEW B \in Selections(at), NEW a, NEW b, NEW r, Continues(t, B, a, b, r)
  PROVE  ResultsFollow' /\ CallsOpen'
<1>1. PICK h : Aside(h) /\ a = Missing(t) \o h
  BY DEF Continues, Begins
<1> DEFINE w == Missing(t)
           e == Entries(B)
<1>2. PICK y, z : y = w /\ z = h \o (e \o b)
  OBVIOUS
<1>3. Aside(e) /\ Aside(b) /\ Aside(z)
  BY <1>1, <1>2, EntriesAside, AsideConcat DEF Continues
<1>4. NewResults(y)
  BY <1>2, MissingNew DEF Continues
<1>5. y \in Seq(Entry) /\ z \in Seq(Entry) /\ a \o e \o b = y \o z
  <2>1. y \in Seq(Entry) /\ h \in Seq(Entry) /\ e \in Seq(Entry) /\ b \in Seq(Entry) /\ a = y \o h
    BY <1>1, <1>2, <1>3, <1>4 DEF Aside, NewResults
  <2>2. z = h \o (e \o b)
    BY <1>2
  <2> HIDE DEF w, e
  <2>3. e \o b \in Seq(Entry) /\ y \o h \in Seq(Entry)
    BY <2>1
  <2>4. /\ a \o e \o b = a \o (e \o b)
        /\ a \o (e \o b) = y \o (h \o (e \o b))
    <3> DEFINE g == e \o b
    <3>1. a \in Seq(Entry)
      BY <2>1, <2>3
    <3>2. a \o e \o b = a \o g
      BY <2>1, <3>1, Associative, SMTT(30)
    <3>3. g \in Seq(Entry)
      BY <2>3
    <3> HIDE DEF g
    <3>4. (y \o h) \o g = y \o (h \o g)
      BY <2>1, <3>3, Associative
    <3> QED
      BY <2>1, <3>2, <3>4 DEF g
  <2>5. z \in Seq(Entry)
    BY <2>1, <2>2, <2>3
  <2> QED
    BY <2>1, <2>2, <2>4, <2>5
<1>6. entries' = entries \o (y \o z) /\ TypeOK
  BY <1>5 DEF Continues, IInv
<1>7. ResultsFollow'
  BY <1>3, <1>4, <1>6, FollowStep DEF Aside, NoResults
<1>8. PICK x \in TaskId : Alone(x)' /\ task'[x] = r
  BY ContinuedTurn
<1>9. CASE ~r.joins
  BY <1>7, <1>8, <1>9, AloneNoCalls, NoCallsOpen
<1>10. CASE r.joins
  <2>1. task[t].kind = "pi.post_tools" /\ LivePost(t)
    BY <1>10 DEF Continues, Owner, LivePost
  <2> DEFINE waits == {task[d].call : d \in {f \in Tools(t) : ~task[f].entry}}
  <2>2. {y[k].of : k \in DOMAIN y} = waits
    BY <1>2, <2>1, SynthesisedNew DEF Missing
  <2>3. PICK c \in DOMAIN entries :
          /\ LastIs(c) /\ {task[d].call : d \in task[t].after} = 1..entries[c].of
          /\ Results \subseteq 1..entries[c].of
    BY <2>1 DEF CallsOpen
  <2>4. \A d \in Tools(t) : task[d].entry => task[d].call \in Results
    <3>1. Tools(t) \subseteq TaskId
      BY Before DEF Table, TaskRecord, Tools
    <3> QED
      BY <2>1, <3>1 DEF CallsOpen, Part, Tools
  <2>5. Results \cup waits = 1..entries[c].of
    <3>1. waits \subseteq 1..entries[c].of
      BY <2>3 DEF Tools
    <3>2. ASSUME NEW k \in 1..entries[c].of PROVE k \in Results \cup waits
      <4>1. PICK d \in Tools(t) : task[d].call = k
        BY <2>3, <3>2 DEF Tools
      <4> QED
        BY <2>4, <4>1
    <3> QED
      BY <2>3, <3>1, <3>2
  <2> HIDE DEF waits
  <2> DEFINE s == y \o z
  <2>6. /\ s \in Seq(Entry) /\ \A k \in DOMAIN s : s[k].kind # "calls"
        /\ {s[k].of : k \in {l \in DOMAIN s : s[l].kind = "result"}} = waits
    <3>1. /\ \A k \in DOMAIN y : k \in DOMAIN s /\ s[k] = y[k]
          /\ \A k \in DOMAIN s : \/ k \in DOMAIN y /\ s[k] = y[k]
                                 \/ k - Len(y) \in DOMAIN z /\ s[k] = z[k - Len(y)]
      BY <1>5
    <3>2. s \in Seq(Entry)
      BY <1>5
    <3> HIDE DEF s
    <3>3. \A k \in DOMAIN s : s[k].kind # "calls"
      BY <1>3, <1>4, <3>1 DEF Aside, NewResults
    <3>4. \A k \in DOMAIN s : s[k].kind = "result" => k \in DOMAIN y /\ s[k] = y[k]
      BY <1>3, <3>1 DEF Aside
    <3>5. {s[k].of : k \in {l \in DOMAIN s : s[l].kind = "result"}} = {y[k].of : k \in DOMAIN y}
      BY <1>4, <3>1, <3>4 DEF NewResults
    <3> QED
      BY <2>2, <3>2, <3>3, <3>5
  <2>7. entries' = entries \o s
    BY <1>6
  <2> HIDE DEF s
  <2>8. Results' = Results \cup waits /\ LastIs(c)' /\ entries'[c] = entries[c]
    BY <1>6, <2>3, <2>6, <2>7, ResultsGrown
  <2>9. Results' = 1..entries'[c].of /\ c \in DOMAIN entries'
    BY <2>5, <2>8 DEF LastIs
  <2>10. \A u \in TaskId : ~LiveTool(u)' /\ ~LivePost(u)' /\ (task'[u].live /\ task'[u].joins => u = x)
    BY <1>8 DEF Alone, LiveTool, LivePost, IsTurn
  <2>11. \A u \in TaskId : ~Part(u)'
    BY <2>10 DEF Part
  <2> QED
    BY <1>7, <2>8, <2>9, <2>10, <2>11 DEF CallsOpen
<1> QED
  BY <1>9, <1>10

LEMMA SendIdleFollow ==
  ASSUME IInv, OneTurn, ResultsFollow, SendIdle
  PROVE  ResultsFollow' /\ CallsOpen'
<1> DEFINE r == [kind |-> "user", of |-> NextId]
<1>1. PICK B \in Selections("final") : entries' = entries \o Entries(B) \o <<r>>
  BY DEF SendIdle
<1>2. r \in Entry /\ r.kind = "user"
  <2>1. NextId \in Nat
    BY NextIdIsFree DEF IInv, SendIdle, InputId
  <2> QED
    BY <2>1 DEF Entry
<1> HIDE DEF r
<1>3. Aside(Entries(B)) /\ Aside(<<r>>) /\ Aside(Entries(B) \o <<r>>)
  BY <1>2, EntriesAside, AsideEntry, AsideConcat
<1> DEFINE e == Entries(B)
<1>4. entries' = entries \o (<<>> \o (e \o <<r>>))
  <2>1. e \in Seq(Entry) /\ <<r>> \in Seq(Entry) /\ entries \in Seq(Entry)
    BY <1>3 DEF Aside, IInv, TypeOK
  <2>2. e \o <<r>> \in Seq(Entry)
    BY <1>3 DEF Aside
  <2>3. entries' = entries \o e \o <<r>>
    BY <1>1
  <2> HIDE DEF e
  <2>4. <<>> \o (e \o <<r>>) = e \o <<r>>
    BY <2>2
  <2> QED
    BY <2>1, <2>3, <2>4, Associative
<1>5. ResultsFollow'
  <2>1. NewResults(<<>>) /\ NoResults(e \o <<r>>) /\ TypeOK
    BY <1>3 DEF NewResults, NoResults, Aside, IInv
  <2> HIDE DEF e
  <2> QED
    BY <1>4, <2>1, FollowStep
<1>6. CallsOpen'
  BY SendTurn, AloneNoCalls, NoCallsOpen
<1> QED
  BY <1>5, <1>6

LEMMA WriteIdleFollow ==
  ASSUME IInv, OneTurn, ResultsFollow, NEW mode \in Writing, WriteIdle(mode)
  PROVE  ResultsFollow' /\ CallsOpen'
<1> DEFINE r == [kind |-> mode, of |-> NextId]
<1>1. r \in Entry /\ r.kind = mode /\ r.kind # "result"
  <2>1. NextId \in Nat
    BY NextIdIsFree DEF IInv, WriteIdle, InputId
  <2> QED
    BY <2>1 DEF Entry, Writing
<1>2. entries' = Append(entries, r) /\ task' = task /\ ~Busy
  BY DEF WriteIdle
<1> HIDE DEF r
<1>3. entries' = entries \o <<r>> /\ TypeOK
  BY <1>1, <1>2, AppendIs DEF Appends, IInv
<1>4. entries' = entries \o (<<>> \o <<r>>)
  BY <1>1, <1>3
<1>5. NewResults(<<>>) /\ NoResults(<<r>>)
  BY <1>1 DEF NewResults, NoResults
<1> QED
  BY <1>2, <1>3, <1>4, <1>5, FollowStep, IdleNoCalls, NoCallsOpen

LEMMA OverflowFollow ==
  ASSUME IInv, OneTurn, ResultsFollow, NEW t \in TaskId, Overflow(t)
  PROVE  ResultsFollow' /\ CallsOpen'
<1>1. PICK x \in TaskId : Alone(x)' /\ ~task'[x].joins /\ entries' = entries
  BY OverflowTurn
<1>2. ResultsFollow'
  BY <1>1 DEF ResultsFollow, Follows
<1> QED
  BY <1>1, <1>2, AloneNoCalls, NoCallsOpen

\* A task closes and writes nothing.
Quits(t) ==
  /\ Closes(t) /\ entries' = entries
  /\ \A u \in TaskId \ {t} : LivePost(u) /\ t \in task[u].after => task'[t].entry = task[t].entry

\* A tool closes with the result of its call.
Returns(t) ==
  /\ LiveTool(t) /\ Closes(t)
  /\ entries' = Append(entries, [kind |-> "result", of |-> task[t].call])
  /\ \A u \in TaskId \ {t} : task[u].live /\ t \in task[u].after => task'[t].entry

LEMMA FollowSteps ==
  ASSUME IInv, OneTurn, [Next]_vars
  PROVE  \/ SameTurn /\ entries' = entries
         \/ SendIdle \/ \E mode \in Writing : WriteIdle(mode)
         \/ \E t \in TaskId : \/ Concluding(t) \/ Continuing(t) \/ CallTools(t) \/ Overflow(t)
                              \/ Quits(t) \/ Returns(t)
<1>1. ASSUME NEW t \in TaskId, NEW control \in Controls, Runs(t, "pi.tool"), CloseTool(t, control)
      PROVE  Returns(t)
  <2>1. LiveTool(t)
    BY <1>1 DEF Runs, Ready, LiveTool
  <2> QED
    BY <1>1, <2>1, CloseToolTurn DEF Returns
<1>2. ASSUME NEW t \in TaskId, Closes(t), entries' = entries, task[t].live, ~LiveTool(t)
      PROVE  Quits(t)
  <2>1. \A u \in TaskId : LivePost(u) => t \notin task[u].after
    BY <1>2 DEF OneTurn, LiveTool
  <2> QED
    BY <1>2, <2>1 DEF Quits
<1>3. ASSUME NEW t \in TaskId, Progress(t)
      PROVE  \/ Concluding(t) \/ Continuing(t) \/ CallTools(t) \/ Overflow(t)
             \/ Quits(t) \/ Returns(t) \/ (SameTurn /\ entries' = entries)
  <2>1. CASE AnswerFinal(t) \/ Fail(t) \/ PostTools(t)
    BY <2>1, AnswerTurns, FailTurns, PostToolsTurns
  <2>2. CASE CloseCollapse(t)
    <3>1. task[t].live /\ ~LiveTool(t) /\ entries' = entries
      BY <2>2 DEF CloseCollapse, Runs, Ready, LiveTool
    <3> QED
      BY <1>2, <2>2, <3>1, CollapseTurn
  <2>3. CASE RefuseTool(t) \/ FinishTool(t)
    <3>1. PICK control \in Controls : Runs(t, "pi.tool") /\ CloseTool(t, control)
      BY <2>3 DEF RefuseTool, FinishTool, Controls
    <3> QED
      BY <1>1, <3>1
  <2>4. CASE StartTool(t)
    BY <2>4, StartTurn DEF StartTool
  <2>5. ASSUME Execute(t) PROVE SameTurn /\ entries' = entries
    BY <2>5, ExecuteTurn DEF Execute
  <2>6. CASE ExecuteTool(t)
    BY <2>5, <2>6 DEF ExecuteTool
  <2>7. CASE RecoverTool(t)
    <3>1. CASE CloseTool(t, "none")
      <4>1. Runs(t, "pi.tool") /\ "none" \in Controls
        BY <2>7 DEF RecoverTool, Controls
      <4> QED
        BY <1>1, <3>1, <4>1
    <3> QED
      BY <2>5, <2>7, <3>1 DEF RecoverTool
  <2>8. CASE AbortTask(t)
    <3>1. task[t].live /\ Closes(t)
      BY <2>8, AbortTurn DEF AbortTask
    <3>2. CASE LiveTool(t)
      BY <2>8, <3>1, <3>2, AbortTurn DEF Returns
    <3>3. CASE ~LiveTool(t)
      BY <1>2, <2>8, <3>1, <3>3, AbortTurn
    <3> QED
      BY <3>2, <3>3
  <2> QED
    BY <1>3, <2>1, <2>2, <2>3, <2>4, <2>6, <2>7, <2>8 DEF Progress
<1>4. ASSUME NEW t \in TaskId, MarkTask(t) PROVE SameTurn /\ entries' = entries
  BY <1>4, MarkTurn DEF MarkTask
<1>5. ASSUME NEW t \in TaskId, Fault(t) PROVE Quits(t)
  BY <1>5, FaultTurn DEF Quits, LivePost
<1>6. CASE AbortConversation \/ Crash
  BY <1>6, AbortConversationTurn, CrashTurn DEF AbortConversation, Crash
<1>7. CASE \E i \in InputId : Withdraw(i)
  BY <1>7, StillTurn DEF Withdraw
<1>8. CASE UNCHANGED vars
  BY <1>8, StillTurn DEF vars
<1>9. ASSUME NEW mode, Queue(mode) PROVE SameTurn /\ entries' = entries
  BY <1>9, StillTurn DEF Queue
<1>10. CASE Send \/ Write
  BY <1>9, <1>10 DEF Send, Write
<1> QED
  BY <1>3, <1>4, <1>5, <1>6, <1>7, <1>8, <1>10 DEF Next

LEMMA FollowsStep ==
  ASSUME IInv, OneTurn, ResultsFollow, CallsOpen, [Next]_vars
  PROVE  ResultsFollow' /\ CallsOpen'
<1>0. TypeOK
  BY DEF IInv
<1>1. entries' = entries => ResultsFollow'
  BY DEF ResultsFollow, Follows
<1>2. CASE SameTurn /\ entries' = entries
  BY <1>0, <1>1, <1>2, SameOpen
<1>3. CASE SendIdle
  BY <1>3, SendIdleFollow
<1>4. CASE \E mode \in Writing : WriteIdle(mode)
  BY <1>4, WriteIdleFollow
<1>5. ASSUME NEW t \in TaskId, Concluding(t) PROVE ResultsFollow' /\ CallsOpen'
  <2>1. PICK at \in {"final", "postTools"} : \E B \in Selections(at) : \E a, status, answer :
          Concludes(t, B, a, status, answer)
    BY <1>5 DEF Concluding
  <2>2. PICK B \in Selections(at) : \E a, status, answer : Concludes(t, B, a, status, answer)
    BY <2>1
  <2>3. PICK a, status, answer : Concludes(t, B, a, status, answer)
    BY <2>2
  <2> QED
    BY <2>3, ConcludesFollow
<1>6. ASSUME NEW t \in TaskId, Continuing(t) PROVE ResultsFollow' /\ CallsOpen'
  <2>1. PICK at \in {"final", "postTools"} : \E B \in Selections(at) : \E a, b, r :
          Continues(t, B, a, b, r)
    BY <1>6 DEF Continuing
  <2>2. PICK B \in Selections(at) : \E a, b, r : Continues(t, B, a, b, r)
    BY <2>1
  <2>3. PICK a, b, r : Continues(t, B, a, b, r)
    BY <2>2
  <2> QED
    BY <2>3, ContinuesFollow
<1>7. ASSUME NEW t \in TaskId, CallTools(t) \/ Overflow(t) PROVE ResultsFollow' /\ CallsOpen'
  BY <1>7, CallsBegin, OverflowFollow
<1>8. ASSUME NEW t \in TaskId, Quits(t) PROVE ResultsFollow' /\ CallsOpen'
  BY <1>0, <1>1, <1>8, ClosedOpen DEF Quits
<1>9. ASSUME NEW t \in TaskId, Returns(t) PROVE ResultsFollow' /\ CallsOpen'
  BY <1>0, <1>9, ToolOpen DEF Returns
<1> QED
  BY <1>2, <1>3, <1>4, <1>5, <1>6, <1>7, <1>8, <1>9, FollowSteps

LEMMA FollowsInit == Init => ResultsFollow /\ CallsOpen
<1> SUFFICES ASSUME Init PROVE ResultsFollow /\ CallsOpen
  OBVIOUS
<1>1. \A u \in TaskId : ~task[u].live
  BY DEF Init, NoTask
<1>2. \A u \in TaskId : ~LiveTool(u) /\ ~LivePost(u)
  BY <1>1 DEF LiveTool, LivePost
<1>3. ResultsFollow
  BY DEF Init, ResultsFollow
<1> QED
  BY <1>1, <1>2, <1>3 DEF CallsOpen, Part

\* The last message with calls, and the results that come after it.
LEMMA LastCallsAre ==
  ASSUME TypeOK, NEW c, LastIs(c)
  PROVE  /\ c = Max({p \in DOMAIN entries : entries[p].kind = "calls"})
         /\ Results = {entries[p].of :
                       p \in {q \in DOMAIN entries : q > c /\ entries[q].kind = "result"}}
<1> DEFINE n == Len(entries)
           S == {p \in DOMAIN entries : entries[p].kind = "calls"}
<1>1. DOMAIN entries = 1..n /\ n \in Nat /\ c \in S /\ c \in 1..n
  BY DEF TypeOK, LastIs
<1>2. \A r \in (c + 1)..n : entries[r].kind # "calls"
  BY DEF LastIs, Since
<1> HIDE DEF n
<1>3. \A p \in S : p <= c
  BY <1>1, <1>2
<1>4. c = Max(S)
  <2>1. LastCalls \in S /\ \A p \in S : p <= LastCalls
    <3>1. CallsAt = S /\ CallsAt # {}
      BY <1>1 DEF CallsAt
    <3>2. LastCalls \in DOMAIN entries /\ entries[LastCalls].kind = "calls"
          /\ \A p \in DOMAIN entries : entries[p].kind = "calls" => p <= LastCalls
      BY <3>1, LastCallsIs
    <3> QED
      BY <3>2
  <2>2. LastCalls = Max(S)
    BY DEF LastCalls
  <2>3. LastCalls \in Nat /\ c \in Nat /\ c <= LastCalls /\ LastCalls <= c
    BY <1>1, <1>3, <2>1
  <2> QED
    BY <2>2, <2>3
<1>5. \A p \in DOMAIN entries : entries[p].kind = "result" => (Since(p) <=> p > c)
  <2> SUFFICES ASSUME NEW p \in DOMAIN entries, entries[p].kind = "result"
               PROVE  Since(p) <=> p > c
    OBVIOUS
  <2>1. entries[c].kind = "calls"
    BY <1>1
  <2>2. ASSUME p > c PROVE Since(p)
    <3>1. \A r \in p..n : r \in (c + 1)..n
      BY <1>1, <2>2
    <3> QED
      BY <1>2, <3>1 DEF Since, n
  <2>3. ASSUME Since(p), ~(p > c) PROVE FALSE
    <3>1. c \in p..n
      BY <1>1, <2>3
    <3> QED
      BY <2>1, <2>3, <3>1 DEF Since, n
  <2> QED
    BY <2>2, <2>3
<1> QED
  BY <1>4, <1>5 DEF Results

\* Between an assistant message with calls and the results of those calls comes
\* nothing else, no call has two of them, and the turn is carried on only when each
\* has one: by its tool, by the abort of the tool, or by post_tools in its place.
THEOREM ResultsComplete == Spec => []ResultsFollowCalls
<1>1. ASSUME IInv, ResultsFollow, CallsOpen PROVE ResultsFollowCalls
  <2>1. TypeOK
    BY <1>1 DEF IInv
  <2>2. ASSUME NEW t \in TaskId, task[t].live, task[t].joins
        PROVE  LET calls == Max({p \in DOMAIN entries : entries[p].kind = "calls"})
               IN {entries[p].of :
                   p \in {q \in DOMAIN entries : q > calls /\ entries[q].kind = "result"}}
                    = 1..entries[calls].of
    <3>1. PICK c \in DOMAIN entries : LastIs(c) /\ Results = 1..entries[c].of
      BY <1>1, <2>2 DEF CallsOpen
    <3>2. /\ c = Max({p \in DOMAIN entries : entries[p].kind = "calls"})
          /\ Results = {entries[p].of :
                        p \in {q \in DOMAIN entries : q > c /\ entries[q].kind = "result"}}
      BY <2>1, <3>1, LastCallsAre
    <3> QED
      BY <3>1, <3>2
  <2>3. \A p \in DOMAIN entries : entries[p].kind = "result" =>
          /\ p > 1 /\ entries[p - 1].kind \in {"result", "calls"}
          /\ \A q \in 1..(p - 1) : entries[q] = entries[p] =>
               \E r \in q..p : entries[r].kind = "calls"
    BY <1>1 DEF ResultsFollow, Follows
  <2> QED
    BY <2>2, <2>3 DEF ResultsFollowCalls
<1>2. Init => IInv /\ OneTurn /\ ResultsFollow /\ CallsOpen
  BY InitOK, OneTurnInit, FollowsInit
<1>3. IInv /\ OneTurn /\ ResultsFollow /\ CallsOpen /\ [Next]_vars
        => (IInv /\ OneTurn /\ ResultsFollow /\ CallsOpen)'
  BY Inductive, OneTurnStep, FollowsStep
<1> QED
  BY <1>1, <1>2, <1>3, PTL DEF Spec
=============================================================================
