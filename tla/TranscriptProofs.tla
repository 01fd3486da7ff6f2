--------------------------- MODULE TranscriptProofs ---------------------------
(***************************************************************************)
(* Proofs about Transcript, for every bound and retry policy: the context   *)
(* only loses its beginning, a head that lands late wins, what is recent    *)
(* stays, and the provider is called a bounded number of times.             *)
(*                                                                          *)
(* The argument goes through one fact: every step extends the transcript by *)
(* entries whose heads, if any, are not before the present beginning of the *)
(* context (Grown).                                                         *)
(***************************************************************************)
EXTENDS Transcript, WellFoundedInduction, TLAPS

\* A non-empty set of naturals below a bound has a greatest element.
LEMMA MaxExists ==
  ASSUME NEW n \in Nat, NEW S, S \subseteq 1..n, S # {}
  PROVE  \E m \in S : \A i \in S : i <= m
<1> DEFINE Bounds == {b \in Nat : \A i \in S : i <= b}
<1>1. n \in Bounds
  OBVIOUS
<1>2. \E x \in Bounds : \A y \in Bounds : ~(<<y, x>> \in OpToRel(<, Nat))
  <2> Bounds \subseteq Nat OBVIOUS
  <2> HIDE DEF Bounds
  <2> QED BY <1>1, NatLessThanWellFounded, WFMin
<1>3. PICK m \in Bounds : \A y \in Bounds : ~(y < m)
  BY <1>2 DEF OpToRel
<1>4. m \in S
  <2>1. SUFFICES ASSUME m \notin S PROVE FALSE
    OBVIOUS
  <2>2. PICK i \in S : TRUE
    OBVIOUS
  <2>3. i \in 1..n /\ i <= m /\ m \in Nat
    OBVIOUS
  <2>4. m - 1 \in Nat /\ m - 1 < m
    BY <2>3
  <2>5. \A k \in S : k <= m - 1
    BY <2>1, <2>3
  <2> QED BY <1>3, <2>4, <2>5
<1> QED BY <1>4

-------------------------------------------------------------------------------
EntryType == [kind : Kinds, head : Nat]

LEMMA EntriesAre ==
  ASSUME TypeOK
  PROVE  \A i \in 1..Last : /\ entries[i] \in EntryType
                            /\ entries[i].head \in Nat /\ entries[i].head <= i
<1>1. entries \in Seq(EntryType)
  BY DEF TypeOK, EntryType
<1>2. \A i \in 1..Last : entries[i] \in EntryType
  BY <1>1 DEF Last
<1>3. \A e \in EntryType : e.head \in Nat
  BY DEF EntryType
<1> QED BY <1>2, <1>3 DEF TypeOK

\* The newest head is one, and no other is newer.
LEMMA NewestHeadIs ==
  ASSUME TypeOK
  PROVE  /\ Last \in Nat /\ NewestHead \in Nat
         /\ Heads = {} => NewestHead = 0
         /\ Heads # {} => /\ NewestHead \in Heads
                          /\ \A i \in Heads : i <= NewestHead
<1>1. Last \in Nat /\ Heads \subseteq 1..Last
  BY DEF TypeOK, Last, Heads
<1>2. CASE Heads = {}
  BY <1>1, <1>2 DEF NewestHead
<1>3. CASE Heads # {}
  <2>1. \E m \in Heads : \A i \in Heads : i <= m
    BY <1>1, <1>3, MaxExists
  <2> HIDE DEF Heads
  <2>2. NewestHead \in Heads /\ \A i \in Heads : i <= NewestHead
    BY <1>3, <2>1 DEF NewestHead
  <2> QED BY <1>1, <1>3, <2>2
<1> QED BY <1>2, <1>3

\* The context begins at an entry, or after the last one.
LEMMA FromIs ==
  ASSUME TypeOK
  PROVE  /\ From \in Nat /\ From <= Last + 1
         /\ From <= NewestHead \/ Heads = {}
<1>1. CASE Heads = {}
  BY <1>1, NewestHeadIs DEF From
<1>2. CASE Heads # {}
  <2>1. NewestHead \in 1..Last
    BY <1>2, NewestHeadIs DEF Heads
  <2>2. entries[NewestHead].head \in Nat /\ entries[NewestHead].head <= NewestHead
    BY <2>1, EntriesAre
  <2>3. From = entries[NewestHead].head
    BY <1>2 DEF From
  <2> QED BY <2>1, <2>2, <2>3, NewestHeadIs
<1> QED BY <1>1, <1>2

-------------------------------------------------------------------------------
\* es extends the transcript, and its new heads point into the context.
Grown(es) ==
  /\ es \in Seq(EntryType)
  /\ Last <= Len(es)
  /\ \A i \in 1..Last : es[i] = entries[i]
  /\ \A k \in 1..Len(es) :
       k > Last => es[k].head = 0 \/ (From <= es[k].head /\ es[k].head <= k)

LEMMA GrownByNone ==
  ASSUME TypeOK
  PROVE  Grown(entries)
BY DEF Grown, TypeOK, EntryType, Last

LEMMA GrownByOne ==
  ASSUME TypeOK, NEW es, Grown(es), NEW e \in EntryType,
         e.head = 0 \/ (From <= e.head /\ e.head <= Len(es) + 1)
  PROVE  Grown(Append(es, e))
<1>1. es \in Seq(EntryType) /\ Len(es) \in Nat /\ Last \in Nat /\ Last <= Len(es)
  BY NewestHeadIs DEF Grown
<1>2. Append(es, e) \in Seq(EntryType) /\ Len(Append(es, e)) = Len(es) + 1
  BY <1>1
<1>3. \A i \in 1..Len(es) : Append(es, e)[i] = es[i]
  BY <1>1
<1>4. Append(es, e)[Len(es) + 1] = e
  BY <1>1
<1>5. \A i \in 1..Last : Append(es, e)[i] = entries[i]
  BY <1>1, <1>3 DEF Grown
<1>6. \A k \in 1..(Len(es) + 1) :
        k > Last => \/ Append(es, e)[k].head = 0
                    \/ From <= Append(es, e)[k].head /\ Append(es, e)[k].head <= k
  <2> TAKE k \in 1..(Len(es) + 1)
  <2>1. CASE k = Len(es) + 1
    BY <1>4, <2>1
  <2>2. CASE k # Len(es) + 1
    <3>1. k \in 1..Len(es)
      BY <1>1, <2>2
    <3> QED BY <1>3, <3>1 DEF Grown
  <2> QED BY <2>1, <2>2
<1> QED BY <1>1, <1>2, <1>5, <1>6 DEF Grown

LEMMA EntriesTyped ==
  /\ Message \in EntryType /\ Message.head = 0
  /\ \A kind \in Kinds, head \in Nat :
       Entry(kind, head) \in EntryType /\ Entry(kind, head).head = head
BY DEF Message, Entry, EntryType, Kinds

LEMMA GrownByPlain ==
  ASSUME TypeOK, NEW es, Grown(es)
  PROVE  /\ Grown(Append(es, Message))
         /\ Grown(Append(es, Entry("assistant", 0)))
         /\ Grown(Append(es, Entry("result", 0)))
<1>1. \A kind \in Kinds : Entry(kind, 0) \in EntryType /\ Entry(kind, 0).head = 0
  BY EntriesTyped
<1>2. {"assistant", "result"} \subseteq Kinds
  BY DEF Kinds
<1> QED BY <1>1, <1>2, EntriesTyped, GrownByOne

LEMMA GrownByReset ==
  ASSUME TypeOK, NEW es, Grown(es)
  PROVE  Grown(WithReset(es))
<1>1. Len(es) + 1 \in Nat /\ From <= Len(es) + 1
  BY FromIs, NewestHeadIs DEF Grown
<1>2. /\ Entry("reset", Len(es) + 1) \in EntryType
      /\ Entry("reset", Len(es) + 1).head = Len(es) + 1
  BY <1>1, EntriesTyped DEF Kinds
<1> QED BY <1>1, <1>2, GrownByOne DEF WithReset

LEMMA GrownAtBoundary ==
  ASSUME TypeOK, NEW es, Grown(es), NEW placed \in AtBoundary(es)
  PROVE  Grown(placed)
<1>1. Grown(WithReset(es)) /\ Grown(Append(es, Message))
  BY GrownByReset, GrownByPlain
<1>2. Grown(WithReset(Append(es, Message))) /\ Grown(Append(WithReset(es), Message))
  BY <1>1, GrownByReset, GrownByPlain
<1> QED BY <1>1, <1>2 DEF AtBoundary

\* A final boundary leaves the transcript grown.
LEMMA GrownAtEnd ==
  ASSUME TypeOK, NEW es, Grown(es), TurnEnds(es)
  PROVE  Grown(entries') /\ turn' \in Turns /\ queued' \in BOOLEAN
<1>1. PICK placed \in AtBoundary(es) :
        entries' \in {placed, Append(placed, Message)}
  BY DEF TurnEnds
<1>2. Grown(placed)
  BY GrownAtBoundary
<1>3. Grown(Append(placed, Message))
  BY <1>2, GrownByPlain
<1>4. Grown(entries')
  BY <1>1, <1>2, <1>3
<1> QED BY <1>4 DEF TurnEnds, Turns

-------------------------------------------------------------------------------
CollapseType == [stage : Stages, through : Nat, expected : Nat,
                 attempt : Nat, calls : Nat, since : Nat]

LEMMA ThroughsAre ==
  ASSUME TypeOK
  PROVE  Throughs \subseteq Nat
<1>1. Context \subseteq Nat
  BY NewestHeadIs, FromIs DEF Context, Body
<1> QED BY <1>1 DEF Throughs

LEMMA CollapseCreated ==
  ASSUME TypeOK, NEW t \in Nat, CreateCollapse(t)
  PROVE  collapse' \in CollapseType
BY DEF CreateCollapse, NoCollapse, CollapseType, Stages

LEMMA CollapseEnded ==
  ASSUME TypeOK, NEW next \in Turns, Ends(next)
  PROVE  collapse' \in CollapseType /\ turn' \in Turns
BY DEF TypeOK, Ends, NoCollapse, CollapseType, Stages

\* A kept entry is one of the context.
LEMMA RetainedIs ==
  ASSUME TypeOK, NEW through \in Nat, NEW r \in Retained(through)
  PROVE  r \in Nat /\ From <= r /\ r <= Last
<1>1. CASE NewestHead > through
  <2>1. r = NewestHead /\ Heads # {}
    BY <1>1, NewestHeadIs DEF Retained
  <2> QED BY <2>1, NewestHeadIs, FromIs DEF Heads
<1>2. CASE ~(NewestHead > through)
  <2>1. r \in Body
    BY <1>2 DEF Retained
  <2> QED BY <2>1, NewestHeadIs, FromIs DEF Body
<1> QED BY <1>1, <1>2

\* Every step grows the transcript and keeps the types.
LEMMA Steps ==
  ASSUME TypeOK, [Next]_vars
  PROVE  /\ Grown(entries')
         /\ turn' \in Turns /\ queued' \in BOOLEAN
         /\ collapse' \in CollapseType
         /\ crashes' \in Nat
<1> USE DEF CollapseType
<1>g. Grown(entries)
  BY GrownByNone
<1>t. /\ turn \in Turns /\ queued \in BOOLEAN
      /\ collapse \in CollapseType
      /\ crashes \in Nat
  BY DEF TypeOK
<1>h. NewestHead \in Nat /\ Last \in Nat
  BY NewestHeadIs
<1>1. ASSUME Send PROVE Grown(entries') /\ turn' \in Turns /\ queued' \in BOOLEAN
  <2>1. PICK placed \in AtBoundary(entries) : entries' = Append(placed, Message)
    BY <1>1 DEF Send
  <2>2. Grown(placed)
    BY <1>g, GrownAtBoundary
  <2> QED BY <1>1, <2>1, <2>2, GrownByPlain DEF Send, Turns
<1>2. ASSUME Reset PROVE Grown(entries') /\ queued' \in BOOLEAN
  BY <1>2, <1>g, <1>t, GrownByReset DEF Reset
<1>w. ASSUME Write \/ Prepare \/ Attempt PROVE Grown(entries') /\ turn' \in Turns
  BY <1>w, <1>g, <1>t, GrownByPlain DEF Write, Prepare, Attempt, Turns
<1>3. ASSUME Threshold PROVE collapse' \in CollapseType
  BY <1>3, <1>t, ThroughsAre, CollapseCreated DEF Threshold
<1>4. ASSUME Answer
      PROVE  Grown(entries') /\ turn' \in Turns /\ queued' \in BOOLEAN
  <2>1. Grown(Append(entries, Entry("assistant", 0)))
    BY <1>g, GrownByPlain
  <2> QED BY <1>4, <2>1, GrownAtEnd DEF Answer
<1>5. ASSUME CallTool PROVE Grown(entries') /\ turn' \in Turns
  BY <1>5, <1>g, GrownByPlain DEF CallTool, Turns
<1>6. ASSUME GenerationFails
      PROVE  Grown(entries') /\ turn' \in Turns /\ queued' \in BOOLEAN
  <2>1. \A es \in {entries, Append(entries, Message)} : Grown(es)
    BY <1>g, GrownByPlain
  <2> QED BY <1>6, <2>1, GrownAtEnd DEF GenerationFails
<1>7. ASSUME Overflow
      PROVE  /\ Grown(entries') /\ turn' \in Turns /\ queued' \in BOOLEAN
             /\ collapse' \in CollapseType
  <2>1. CASE TurnEnds(Append(entries, Message)) /\ UNCHANGED collapse
    <3>1. Grown(Append(entries, Message))
      BY <1>g, GrownByPlain
    <3> QED BY <2>1, <3>1, <1>t, GrownAtEnd
  <2>2. CASE turn' = "faulted" /\ UNCHANGED <<entries, queued, collapse>>
    BY <2>2, <1>g, <1>t DEF Turns
  <2>3. CASE /\ \E t \in Throughs : CreateCollapse(t)
             /\ turn' = "waiting"
             /\ UNCHANGED <<entries, queued>>
    BY <2>3, <1>g, <1>t, ThroughsAre, CollapseCreated DEF Turns
  <2> QED BY <1>7, <2>1, <2>2, <2>3 DEF Overflow
<1>8. ASSUME ToolEnds PROVE Grown(entries') /\ turn' \in Turns
  BY <1>8, <1>g, GrownByPlain DEF ToolEnds, Turns
<1>9. ASSUME PostTools
      PROVE  Grown(entries') /\ turn' \in Turns /\ queued' \in BOOLEAN
  <2> DEFINE es == IF turn = "post" THEN entries ELSE Append(entries, Entry("result", 0))
  <2>1. Grown(es)
    BY <1>g, GrownByPlain
  <2>2. Grown(WithReset(es)) /\ \A placed \in AtBoundary(es) : Grown(placed)
    BY <2>1, GrownByReset, GrownAtBoundary
  <2>3. \/ TurnEnds(es) \/ TurnEnds(WithReset(es))
        \/ /\ entries' \in AtBoundary(es)
           /\ turn' = "initial"
           /\ UNCHANGED queued
    BY <1>9 DEF PostTools
  <2> HIDE DEF es
  <2>4. CASE TurnEnds(es) \/ TurnEnds(WithReset(es))
    BY <2>1, <2>2, <2>4, GrownAtEnd
  <2>5. CASE entries' \in AtBoundary(es) /\ turn' = "initial" /\ UNCHANGED queued
    BY <2>2, <2>5, <1>t DEF Turns
  <2> QED BY <2>3, <2>4, <2>5
<1>10. ASSUME AbortTurn PROVE Grown(entries') /\ turn' \in Turns
  BY <1>10, <1>g, GrownByPlain DEF AbortTurn, Turns
<1>11. ASSUME ManualCollapse PROVE collapse' \in CollapseType
  BY <1>11, ThroughsAre, CollapseCreated DEF ManualCollapse
<1>12. ASSUME Capture \/ HookSummary \/ Summarize \/ Retry \/ Summarized
       PROVE  collapse' \in CollapseType
  <2>1. /\ collapse.attempt + 1 \in Nat /\ collapse.calls + 1 \in Nat
        /\ 1 \in Nat
    BY <1>t
  <2>2. CASE Capture
    BY <2>2, <1>t, <1>h DEF Capture, Stages
  <2>3. CASE HookSummary
    BY <2>3, <1>t DEF HookSummary, Stages
  <2>4. CASE Summarize
    BY <2>1, <2>4, <1>t DEF Summarize, Call, Stages
  <2>5. CASE Retry
    BY <2>1, <2>5, <1>t DEF Retry, Call, Stages
  <2>6. CASE Summarized
    BY <2>6, <1>t DEF Summarized, Stages
  <2> QED BY <1>12, <2>2, <2>3, <2>4, <2>5, <2>6
<1>13. ASSUME Fails \/ Stale \/ AbortCollapse
       PROVE  collapse' \in CollapseType /\ turn' \in Turns
  <2>1. Ends("undone")
    BY <1>13 DEF Fails, Stale, AbortCollapse
  <2> QED BY <2>1, CollapseEnded DEF Turns
<1>14. ASSUME AttemptFails
       PROVE  collapse' \in CollapseType /\ turn' \in Turns
  <2>1. CASE collapse.attempt <= MaxRetries
    BY <1>14, <2>1, <1>t DEF AttemptFails, Stages
  <2>2. CASE ~(collapse.attempt <= MaxRetries)
    <3>1. Ends("undone")
      BY <1>14, <2>2 DEF AttemptFails
    <3> QED BY <3>1, CollapseEnded DEF Turns
  <2> QED BY <2>1, <2>2
<1>15. ASSUME Finish
       PROVE  Grown(entries') /\ collapse' \in CollapseType /\ turn' \in Turns
  <2>1. PICK head \in IF Retained(collapse.through) = {} THEN {Last + 1}
                      ELSE Retained(collapse.through) :
          entries' = Append(entries, Entry("summary", head))
    BY <1>15 DEF Finish
  <2>2. head \in Nat /\ From <= head /\ head <= Last + 1
    <3>1. collapse.through \in Nat
      BY <1>t
    <3>2. CASE Retained(collapse.through) = {}
      BY <2>1, <3>2, <1>h, FromIs
    <3>3. CASE Retained(collapse.through) # {}
      BY <2>1, <3>1, <3>3, <1>h, RetainedIs
    <3> QED BY <3>2, <3>3
  <2>3. Entry("summary", head) \in EntryType /\ Entry("summary", head).head = head
    BY <2>2, EntriesTyped DEF Kinds
  <2>4. Grown(entries')
    BY <1>g, <2>1, <2>2, <2>3, GrownByOne DEF Last
  <2>5. Ends("initial")
    BY <1>15 DEF Finish
  <2> QED BY <2>4, <2>5, CollapseEnded DEF Turns
<1>16. ASSUME Crash PROVE collapse' \in CollapseType /\ crashes' \in Nat
  BY <1>16, <1>t DEF Crash, Stages
<1>17. CASE UNCHANGED vars
  BY <1>17, <1>g, <1>t DEF vars
<1> QED
  <2>1. CASE Send
    BY <2>1, <1>1, <1>t DEF Send
  <2>2. CASE Reset
    BY <2>2, <1>2, <1>t DEF Reset
  <2>3. CASE Answer
    BY <2>3, <1>3, <1>4, <1>t DEF Answer
  <2>4. CASE CallTool
    BY <2>4, <1>3, <1>5, <1>t DEF CallTool
  <2>5. CASE GenerationFails
    BY <2>5, <1>6, <1>t DEF GenerationFails
  <2>6. CASE Overflow
    BY <2>6, <1>7, <1>t DEF Overflow
  <2>7. CASE ToolEnds
    BY <2>7, <1>8, <1>t DEF ToolEnds
  <2>8. CASE PostTools
    BY <2>8, <1>9, <1>t DEF PostTools
  <2>9. CASE AbortTurn
    BY <2>9, <1>10, <1>t DEF AbortTurn
  <2>10. CASE ManualCollapse
    BY <2>10, <1>11, <1>g, <1>t DEF ManualCollapse
  <2>11. CASE Capture \/ HookSummary \/ Summarize \/ Retry \/ Summarized
    BY <2>11, <1>12, <1>g, <1>t
       DEF Capture, HookSummary, Summarize, Retry, Summarized, Call
  <2>12. CASE Fails \/ Stale \/ AbortCollapse
    BY <2>12, <1>13, <1>g, <1>t DEF Fails, Stale, AbortCollapse
  <2>13. CASE AttemptFails
    BY <2>13, <1>14, <1>g, <1>t DEF AttemptFails
  <2>14. CASE Finish
    BY <2>14, <1>15, <1>t DEF Finish
  <2>16. CASE Write \/ Prepare \/ Attempt
    BY <2>16, <1>w, <1>t DEF Write, Prepare, Attempt
  <2>15. CASE Crash
    BY <2>15, <1>16, <1>g, <1>t DEF Crash
  <2> QED BY <1>17, <2>1, <2>2, <2>3, <2>4, <2>5, <2>6, <2>7, <2>8, <2>9, <2>10,
             <2>11, <2>12, <2>13, <2>14, <2>15, <2>16 DEF Next, CollapseStep

-------------------------------------------------------------------------------
(* The types.                                                                 *)

LEMMA TypesKept ==
  ASSUME TypeOK, [Next]_vars
  PROVE  TypeOK'
<1>1. Grown(entries')
  BY Steps
<1>2. \A i \in 1..Len(entries') : entries'[i].head <= i
  <2>1. TAKE i \in 1..Len(entries')
  <2>2. CASE i <= Last
    BY <1>1, <2>2, EntriesAre DEF Grown
  <2>3. CASE ~(i <= Last)
    BY <1>1, <2>3, NewestHeadIs DEF Grown
  <2> QED BY <2>2, <2>3
<1> QED BY <1>1, <1>2, Steps DEF TypeOK, Grown, Last, EntryType, CollapseType

LEMMA InitTypes == Init => TypeOK
<1>1. SUFFICES ASSUME Init PROVE TypeOK
  OBVIOUS
<1>2. entries \in Seq(EntryType) /\ Len(entries) = 0
  BY <1>1 DEF Init
<1>3. \A i \in 1..Last : entries[i].head <= i
  BY <1>2 DEF Last
<1>4. collapse \in CollapseType
  BY <1>1 DEF Init, NoCollapse, CollapseType, Stages
<1> QED BY <1>1, <1>2, <1>3, <1>4 DEF Init, TypeOK, Turns, EntryType, CollapseType

\* Every reachable state has the types that the runs check: ids are places in
\* the transcript, and a head points to its own entry or an older one.
THEOREM TypeCorrect == Spec => []TypeOK
<1>1. Init => TypeOK
  BY InitTypes
<1>2. TypeOK /\ [Next]_vars => TypeOK'
  BY TypesKept
<1> QED BY <1>1, <1>2, PTL DEF Spec

-------------------------------------------------------------------------------
(* The context only loses its beginning.                                      *)

ContextFacts ==
  /\ Last \in Nat /\ NewestHead \in Nat
  /\ Heads = {} => NewestHead = 0
  /\ Heads # {} => NewestHead \in Heads /\ \A i \in Heads : i <= NewestHead
  /\ From \in Nat /\ From # 0 /\ From <= Last + 1
  /\ \A i \in 1..Last : entries[i].head \in Nat

LEMMA ContextFactsHold == TypeOK => ContextFacts
<1>1. SUFFICES ASSUME TypeOK PROVE ContextFacts
  OBVIOUS
<1>2. From # 0
  BY <1>1, NewestHeadIs DEF From, Heads
<1> QED BY <1>1, <1>2, NewestHeadIs, FromIs, EntriesAre DEF ContextFacts

LEMMA ContextFactsNext == TypeOK' => ContextFacts'
BY ContextFactsHold, PTL

\* Grown transcripts have the old heads, and begin no earlier.
LEMMA HeadsMoveForward ==
  ASSUME TypeOK, TypeOK', Grown(entries')
  PROVE  /\ Last <= Last'
         /\ \A i \in 1..Last : i \in Heads' <=> i \in Heads
         /\ NewestHead' <= Last => NewestHead' = NewestHead
         /\ From <= From'
<1>1. ContextFacts /\ ContextFacts'
  BY ContextFactsHold, ContextFactsNext
<1>2. /\ Last \in Nat /\ Last' \in Nat /\ Last <= Last'
      /\ Last' = Len(entries')
      /\ \A i \in 1..Last : entries'[i] = entries[i]
  BY <1>1 DEF Grown, Last, ContextFacts
<1>3. \A i \in 1..Last : i \in Heads' <=> i \in Heads
  BY <1>2 DEF Heads
<1>4. Heads \subseteq Heads'
  BY <1>2, <1>3 DEF Heads
<1>5. Heads \subseteq 1..Last /\ Heads' \subseteq 1..Last'
  BY DEF Heads
<1>6. NewestHead' <= Last => NewestHead' = NewestHead
  <2>1. SUFFICES ASSUME NewestHead' <= Last PROVE NewestHead' = NewestHead
    OBVIOUS
  <2>2. CASE Heads' = {}
    BY <1>1, <1>4, <2>2 DEF ContextFacts
  <2>3. CASE Heads' # {}
    <3>1. NewestHead' \in Heads' /\ NewestHead' \in Heads
      BY <1>1, <1>3, <1>5, <2>1, <2>3, <1>2 DEF ContextFacts
    <3>2. NewestHead \in Heads /\ NewestHead' <= NewestHead
      BY <1>1, <3>1 DEF ContextFacts
    <3>3. NewestHead <= NewestHead'
      BY <1>1, <1>4, <2>3, <3>2 DEF ContextFacts
    <3> QED BY <1>1, <3>2, <3>3 DEF ContextFacts
  <2> QED BY <2>2, <2>3
<1>7. From <= From'
  <2>1. CASE Heads' = {}
    <3>1. From = 1 /\ From' = 1
      BY <1>4, <2>1 DEF From
    <3> QED BY <3>1
  <2>2. CASE Heads' # {} /\ NewestHead' <= Last
    <3>1. NewestHead' = NewestHead /\ NewestHead' \in Heads'
      BY <1>1, <1>6, <2>2 DEF ContextFacts
    <3>2. NewestHead \in 1..Last /\ NewestHead \in Heads
      BY <1>2, <1>3, <1>5, <2>2, <3>1
    <3>3. From' = entries'[NewestHead'].head /\ From = entries[NewestHead].head
      BY <2>2, <3>2 DEF From
    <3>4. From' = From
      BY <1>2, <3>1, <3>2, <3>3
    <3> QED BY <1>1, <3>4 DEF ContextFacts
  <2>3. CASE Heads' # {} /\ ~(NewestHead' <= Last)
    <3>1. NewestHead' \in Heads' /\ NewestHead' \in 1..Last' /\ NewestHead' > Last
      BY <1>1, <1>2, <1>5, <2>3 DEF ContextFacts
    <3>2. entries'[NewestHead'].head # 0
      BY <3>1 DEF Heads
    <3>3. From' = entries'[NewestHead'].head
      BY <2>3 DEF From
    <3> QED BY <1>2, <3>1, <3>2, <3>3 DEF Grown
  <2> QED BY <2>1, <2>2, <2>3
<1> QED BY <1>2, <1>3, <1>6, <1>7

LEMMA ContextShrinks ==
  ASSUME TypeOK, TypeOK', Grown(entries')
  PROVE  \A i \in 1..Last : i \in Context' => i \in Context
<1>1. ContextFacts /\ ContextFacts'
  BY ContextFactsHold, ContextFactsNext
<1>2. SUFFICES ASSUME NEW i \in 1..Last, i \in Context' PROVE i \in Context
  OBVIOUS
<1>3. entries'[i] = entries[i]
  BY <1>2 DEF Grown
<1>4. CASE i = NewestHead'
  <2>1. i = NewestHead /\ i # 0
    BY <1>1, <1>2, <1>4, HeadsMoveForward DEF ContextFacts
  <2> QED BY <2>1 DEF Context
<1>5. CASE i \in Body'
  <2>1. i \in From'..Last' /\ entries'[i].head = 0
    BY <1>5 DEF Body
  <2>2. From <= i
    BY <1>1, <1>2, <2>1, HeadsMoveForward DEF ContextFacts
  <2>3. i \in Body
    BY <1>1, <1>2, <1>3, <2>1, <2>2 DEF Body, ContextFacts
  <2> QED BY <2>3 DEF Context
<1> QED BY <1>2, <1>4, <1>5 DEF Context

\* What has left the context stays out of it, whatever resets, handoffs and
\* collapses follow.
THEOREM NothingReturns == Spec => NothingComesBack
<1>1. TypeOK /\ [Next]_vars
        => [\A i \in 1..Last : i \in Context' => i \in Context]_vars
  BY TypesKept, Steps, ContextShrinks
<1> QED BY <1>1, TypeCorrect, PTL DEF Spec, NothingComesBack

-------------------------------------------------------------------------------
(* Only the end of a collapse appends a summary.                              *)

EndsPlain(es) == Len(es) > Last => es[Len(es)].kind # "summary"

LEMMA AppendEndsPlain ==
  ASSUME TypeOK, NEW es, Grown(es)
  PROVE  /\ EndsPlain(Append(es, Message))
         /\ EndsPlain(WithReset(es))
         /\ \A kind \in {"assistant", "result"} :
              EndsPlain(Append(es, Entry(kind, 0)))
<1>1. es \in Seq(EntryType)
  BY DEF Grown
<1>2. \A e : Append(es, e)[Len(Append(es, e))] = e
  BY <1>1
<1>3. \A kind, head : Entry(kind, head).kind = kind
  BY DEF Entry
<1>4. /\ EndsPlain(Append(es, Message))
      /\ EndsPlain(WithReset(es))
  BY <1>2, <1>3 DEF EndsPlain, Message, WithReset
<1>5. \A kind \in {"assistant", "result"} : EndsPlain(Append(es, Entry(kind, 0)))
  BY <1>2, <1>3 DEF EndsPlain
<1> QED BY <1>4, <1>5

LEMMA NoneEndsPlain ==
  ASSUME TypeOK
  PROVE  Grown(entries) /\ EndsPlain(entries)
BY GrownByNone, NewestHeadIs DEF EndsPlain, Last

LEMMA BoundaryEndsPlain ==
  ASSUME TypeOK, NEW es, Grown(es), EndsPlain(es), NEW placed \in AtBoundary(es)
  PROVE  EndsPlain(placed) /\ EndsPlain(Append(placed, Message))
<1>1. Grown(WithReset(es)) /\ Grown(Append(es, Message))
  BY GrownByReset, GrownByPlain
<1>2. EndsPlain(placed)
  BY <1>1, AppendEndsPlain DEF AtBoundary
<1>3. EndsPlain(Append(placed, Message))
  BY GrownAtBoundary, AppendEndsPlain
<1> QED BY <1>2, <1>3

LEMMA TurnEndsPlain ==
  ASSUME TypeOK, NEW es, Grown(es), EndsPlain(es), TurnEnds(es)
  PROVE  EndsPlain(entries')
BY BoundaryEndsPlain DEF TurnEnds

LEMMA OnlyFinishSummarises ==
  ASSUME TypeOK, [Next]_vars, Summarises
  PROVE  Finish
<1>1. ~EndsPlain(entries')
  BY DEF Summarises, EndsPlain, Last
<1>2. Grown(entries) /\ EndsPlain(entries)
  BY NoneEndsPlain
<1>3. entries' # entries
  BY <1>1, <1>2
<1>4. ~Send
  BY <1>1, <1>2, BoundaryEndsPlain DEF Send
<1>5. ~Reset
  BY <1>1, <1>2, <1>3, AppendEndsPlain DEF Reset
<1>6. ~Answer
  <2>1. /\ Grown(Append(entries, Entry("assistant", 0)))
        /\ EndsPlain(Append(entries, Entry("assistant", 0)))
    BY <1>2, GrownByPlain, AppendEndsPlain
  <2> QED BY <1>1, <2>1, TurnEndsPlain DEF Answer
<1>7. ~CallTool
  BY <1>1, <1>2, AppendEndsPlain DEF CallTool
<1>8. \A es \in {entries, Append(entries, Message), WithReset(entries)} :
        Grown(es) /\ EndsPlain(es)
  BY <1>2, GrownByPlain, GrownByReset, AppendEndsPlain
<1>w. ~Write /\ ~Prepare /\ ~Attempt
  BY <1>1, <1>8 DEF Write, Prepare, Attempt
<1>9. ~GenerationFails
  BY <1>1, <1>8, TurnEndsPlain DEF GenerationFails
<1>10. ~Overflow
  BY <1>1, <1>3, <1>8, TurnEndsPlain DEF Overflow
<1>11. ~ToolEnds
  BY <1>1, <1>2, <1>3, AppendEndsPlain DEF ToolEnds
<1>12. ~PostTools
  <2> DEFINE es == IF turn = "post" THEN entries ELSE Append(entries, Entry("result", 0))
  <2>1. Grown(es) /\ EndsPlain(es)
    BY <1>2, GrownByPlain, AppendEndsPlain
  <2>2. PostTools => \/ TurnEnds(es) \/ TurnEnds(WithReset(es))
                     \/ entries' \in AtBoundary(es)
    BY DEF PostTools
  <2> HIDE DEF es
  <2>3. Grown(WithReset(es)) /\ EndsPlain(WithReset(es))
    BY <2>1, GrownByReset, AppendEndsPlain
  <2> QED BY <1>1, <2>1, <2>2, <2>3, TurnEndsPlain, BoundaryEndsPlain
<1>13. ~AbortTurn
  BY <1>1, <1>2, <1>3, <1>8, AppendEndsPlain DEF AbortTurn
<1>14. ~ManualCollapse /\ ~AbortCollapse /\ ~Crash
  BY <1>3 DEF ManualCollapse, AbortCollapse, Crash
<1>15. ~Capture /\ ~Fails /\ ~Stale /\ ~HookSummary /\ ~Summarized /\ ~AttemptFails
  BY <1>3 DEF Capture, Fails, Stale, HookSummary, Summarized, AttemptFails
<1>16. ~Summarize /\ ~Retry
  BY <1>3 DEF Summarize, Retry, Call
<1> QED BY <1>3, <1>4, <1>5, <1>6, <1>7, <1>w, <1>9, <1>10, <1>11, <1>12, <1>13, <1>14,
           <1>15, <1>16 DEF Next, CollapseStep, vars

\* The context after a collapse begins where the summary points.
LEMMA SummaryStarts ==
  ASSUME TypeOK, TypeOK', Grown(entries'), Summarises,
         NEW head \in Nat, head # 0,
         entries' = Append(entries, Entry("summary", head))
  PROVE  Last' = Last + 1 /\ From' = head
<1>1. ContextFacts /\ ContextFacts'
  BY ContextFactsHold, ContextFactsNext
<1>2. /\ Last' = Last + 1 /\ Last \in Nat
      /\ entries'[Last + 1] = Entry("summary", head)
  BY <1>1 DEF Last, TypeOK, ContextFacts
<1>3. Last + 1 \in Heads'
  <2>1. entries'[Last + 1].head # 0
    <3>1. Entry("summary", head).head = head
      BY DEF Entry
    <3> QED BY <1>2, <3>1
  <2>2. Last + 1 \in 1..Last'
    <3>1. Last + 1 \in 1..(Last + 1)
      BY <1>2
    <3> QED BY <1>2, <3>1
  <2> QED BY <2>1, <2>2 DEF Heads
<1>4. NewestHead' = Last + 1
  <2>1. NewestHead' \in 1..(Last + 1) /\ Last + 1 <= NewestHead'
    BY <1>1, <1>2, <1>3 DEF ContextFacts, Heads
  <2> QED BY <1>2, <2>1
<1>5. From' = entries'[Last + 1].head
  BY <1>3, <1>4 DEF From
<1> QED BY <1>2, <1>5 DEF Entry

LEMMA MinExists ==
  ASSUME NEW S, S \subseteq Nat, S # {}
  PROVE  \E m \in S : \A i \in S : m <= i
<1>1. PICK i \in S : TRUE
  OBVIOUS
<1>2. \E x \in S : \A y \in S : ~(<<y, x>> \in OpToRel(<, Nat))
  BY <1>1, NatLessThanWellFounded, WFMin
<1>3. PICK m \in S : \A y \in S : ~(y < m)
  BY <1>2 DEF OpToRel
<1> QED BY <1>3

LEMMA RecentKept ==
  ASSUME TypeOK, [Next]_vars, Summarises,
         NEW i \in Body, i > collapse.through, i > NewestHead
  PROVE  i \in Context'
<1>1. TypeOK' /\ Grown(entries')
  BY TypesKept, Steps
<1>2. ContextFacts /\ collapse.through \in Nat
  BY ContextFactsHold DEF TypeOK
<1>3. i \in From..Last /\ i \in Nat /\ entries[i].head = 0 /\ From \in Nat /\ Last \in Nat
  BY <1>2 DEF Body, ContextFacts
<1>4. PICK head \in IF Retained(collapse.through) = {} THEN {Last + 1}
                    ELSE Retained(collapse.through) :
        entries' = Append(entries, Entry("summary", head))
  BY OnlyFinishSummarises DEF Finish
<1>5. head \in Nat /\ head # 0 /\ head <= i
  <2>1. CASE NewestHead > collapse.through
    <3>1. head = NewestHead
      BY <1>4, <2>1 DEF Retained
    <3> QED BY <1>2, <1>3, <2>1, <3>1 DEF ContextFacts
  <2>2. CASE ~(NewestHead > collapse.through)
    <3> DEFINE Later == {k \in Body : k > collapse.through}
    <3>1. Later \subseteq Nat /\ Later # {}
      BY <1>2 DEF Body, ContextFacts
    <3>2. PICK m \in Later : \A k \in Later : m <= k
      BY <3>1, MinExists
    <3>3. m \in Retained(collapse.through)
      BY <2>2, <3>2 DEF Retained
    <3>4. head \in Retained(collapse.through)
      BY <1>4, <3>3
    <3>5. head \in Body /\ head <= i
      BY <2>2, <3>4 DEF Retained
    <3> QED BY <1>2, <3>5 DEF Body, ContextFacts
  <2> QED BY <2>1, <2>2
<1>6. Last' = Last + 1 /\ From' = head
  BY <1>1, <1>4, <1>5, SummaryStarts
<1>7. i \in 1..Last
  BY <1>2, <1>3 DEF ContextFacts
<1>8. entries'[i].head = 0
  BY <1>1, <1>3, <1>7 DEF Grown
<1>9. i \in Body'
  BY <1>3, <1>5, <1>6, <1>8 DEF Body
<1> QED BY <1>9 DEF Context

\* A collapse leaves what is newer than its prefix and than the newest head.
THEOREM RecentEntriesStay == Spec => RecentStays
<1>1. TypeOK /\ [Next]_vars
        => [Summarises =>
              \A i \in Body :
                i > collapse.through /\ i > NewestHead => i \in Context']_vars
  BY RecentKept
<1> QED BY <1>1, TypeCorrect, PTL DEF Spec, RecentStays

-------------------------------------------------------------------------------
(* The head captured, and the calls.                                          *)

\* expected is a head of the transcript as it was; a call is counted by the
\* attempt it is made for, and none is retried beyond the policy.
CollapseInv ==
  /\ collapse.expected <= collapse.since
  /\ collapse.calls = collapse.attempt
  /\ collapse.attempt <= MaxRetries + 1
  /\ collapse.stage = "retrying" => collapse.attempt <= MaxRetries
  /\ collapse.stage \in {"none", "created", "captured"} => collapse.attempt = 0

LEMMA EndedInv ==
  ASSUME TypeOK, NEW next, Ends(next)
  PROVE  CollapseInv'
BY TranscriptAssumption DEF Ends, NoCollapse, CollapseInv

LEMMA CreatedInv ==
  ASSUME TypeOK, NEW t, CreateCollapse(t)
  PROVE  CollapseInv'
BY TranscriptAssumption DEF CreateCollapse, NoCollapse, CollapseInv

LEMMA InvKept ==
  ASSUME TypeOK, CollapseInv, [Next]_vars
  PROVE  CollapseInv'
<1> USE TranscriptAssumption
<1>1. /\ collapse \in CollapseType
      /\ collapse.expected \in Nat /\ collapse.since \in Nat
      /\ collapse.calls \in Nat /\ collapse.attempt \in Nat
      /\ collapse.stage \in Stages
  BY DEF TypeOK, CollapseType
<1>2. CASE UNCHANGED collapse
  BY <1>2 DEF CollapseInv
<1>3. CASE \E t \in Throughs : CreateCollapse(t)
  BY <1>3, CreatedInv
<1>4. CASE Fails \/ Stale \/ AbortCollapse \/ Finish
  BY <1>4, EndedInv DEF Fails, Stale, AbortCollapse, Finish
<1>5. CASE Capture
  <2>1. NewestHead <= Last /\ NewestHead \in Nat /\ Last \in Nat
    BY NewestHeadIs DEF Heads
  <2> QED BY <1>1, <1>5, <2>1 DEF Capture, CollapseType, CollapseInv
<1>6. CASE HookSummary \/ Summarized
  BY <1>1, <1>6 DEF HookSummary, Summarized, CollapseType, CollapseInv
<1>7. CASE Summarize
  BY <1>1, <1>7 DEF Summarize, Call, CollapseType, CollapseInv
<1>8. CASE Retry
  BY <1>1, <1>8 DEF Retry, Call, CollapseType, CollapseInv
<1>9. CASE AttemptFails
  <2>1. CASE collapse.attempt <= MaxRetries
    BY <1>1, <1>9, <2>1 DEF AttemptFails, CollapseType, CollapseInv
  <2>2. CASE ~(collapse.attempt <= MaxRetries)
    BY <1>9, <2>2, EndedInv DEF AttemptFails
  <2> QED BY <2>1, <2>2
<1>10. CASE Crash
  BY <1>1, <1>10 DEF Crash, CollapseType, CollapseInv
<1> QED
  BY <1>2, <1>3, <1>4, <1>5, <1>6, <1>7, <1>8, <1>9, <1>10
     DEF Next, CollapseStep, Send, Write, Reset, Prepare, Attempt, Answer, CallTool,
         GenerationFails, Overflow, ToolEnds, PostTools, AbortTurn, ManualCollapse,
         Threshold, vars

LEMMA CollapseCorrect == Spec => [](TypeOK /\ CollapseInv)
<1>1. Init => TypeOK /\ CollapseInv
  BY InitTypes, TranscriptAssumption DEF Init, NoCollapse, CollapseInv
<1>2. TypeOK /\ CollapseInv /\ [Next]_vars => TypeOK' /\ CollapseInv'
  BY TypesKept, InvKept
<1> QED BY <1>1, <1>2, PTL DEF Spec

\* Retries, hooks and crashes together do not call the provider more often than
\* the retry policy says.
THEOREM CallsBounded == Spec => []BoundedCalls
<1>1. TypeOK /\ CollapseInv => BoundedCalls
  BY DEF CollapseInv, BoundedCalls
<1> QED BY <1>1, CollapseCorrect, PTL

\* A summary is not appended over a head newer than the reading of the head.
THEOREM LateHeadsWin == Spec => LateHeadWins
<1>1. ASSUME TypeOK, CollapseInv, [Next]_vars, Summarises, NEW i \in 1..Last,
             i > collapse.since
      PROVE  entries[i].head = 0
  <2>1. ContextFacts /\ collapse.since \in Nat
    BY <1>1, ContextFactsHold DEF TypeOK
  <2>2. NewestHead = collapse.expected
    BY <1>1, OnlyFinishSummarises DEF Finish, HeadMoved
  <2>3. NewestHead <= collapse.since
    BY <1>1, <2>2 DEF CollapseInv
  <2>4. i \notin Heads
    BY <1>1, <2>1, <2>3 DEF ContextFacts
  <2> QED BY <1>1, <2>4 DEF Heads
<1>2. TypeOK /\ CollapseInv /\ [Next]_vars
        => [Summarises =>
              \A i \in 1..Last : i > collapse.since => entries[i].head = 0]_vars
  BY <1>1
<1> QED BY <1>2, CollapseCorrect, PTL DEF Spec, LateHeadWins
==============================================================================
