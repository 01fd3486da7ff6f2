--------------------------- MODULE TurnInboxProofs ---------------------------
(***************************************************************************)
(* Proofs about TurnInbox, for every bound: the inbox and the inputs agree, *)
(* every placed input has exactly one owner, a tool that may not be         *)
(* replayed runs at most once for a call, and the life of every input is    *)
(* that of InputLifecycle.                                                  *)
(***************************************************************************)
EXTENDS TurnInbox, NaturalSets

-------------------------------------------------------------------------------
(***************************************************************************)
(* Sets of numbers.                                                        *)
(***************************************************************************)
\* The members of a bounded set of naturals can be put in order.
LEMMA OrderExists ==
  ASSUME NEW n \in Nat, NEW S \in SUBSET (0..n)
  PROVE  \E s \in [1..Cardinality(S) -> S] : InOrder(s)
<1> DEFINE Bad == {k \in Nat : \E T \in SUBSET (0..n) :
                     Cardinality(T) = k /\ ~ \E s \in [1..k -> T] : InOrder(s)}
<1>0. \A T \in SUBSET (0..n) : IsFiniteSet(T) /\ Cardinality(T) \in Nat
  BY BoundedIsFinite
<1>1. SUFFICES ASSUME Bad # {} PROVE FALSE
  BY <1>0
<1>2. PICK k \in Bad : \A j \in Bad : k <= j
  BY <1>1, LeastExists
<1>3. PICK T \in SUBSET (0..n) : Cardinality(T) = k /\ ~ \E s \in [1..k -> T] : InOrder(s)
  OBVIOUS
<1>4. CASE k = 0
  <2>1. [i \in 1..k |-> 0] \in [1..k -> T]
    BY <1>4
  <2>2. InOrder([i \in 1..k |-> 0])
    BY <1>4 DEF InOrder
  <2> QED
    BY <1>3, <2>1, <2>2
<1>5. CASE k # 0
  <2>1. T # {}
    BY <1>3, <1>5, FS_EmptySet
  <2>2. PICK m \in T : \A i \in T : i <= m
    BY <2>1, GreatestExists
  <2>3. Cardinality(T \ {m}) = k - 1
    BY <1>0, <1>3, FS_RemoveElement
  <2>4. k - 1 \notin Bad /\ k - 1 \in Nat
    BY <1>2, <1>5
  <2>5. PICK s \in [1..(k - 1) -> T \ {m}] : InOrder(s)
    BY <2>3, <2>4
  <2> DEFINE r == [i \in 1..k |-> IF i = k THEN m ELSE s[i]]
  <2>6. r \in [1..k -> T]
    OBVIOUS
  <2>7. \A i \in 1..(k - 1) : s[i] \in T /\ s[i] < m
    <3>1. \A i \in 1..(k - 1) : s[i] \in T \ {m}
      OBVIOUS
    <3>2. \A j \in T \ {m} : j < m
      BY <2>2
    <3> QED
      BY <3>1, <3>2
  <2>8. InOrder(r)
    BY <2>5, <2>7 DEF InOrder
  <2> QED
    BY <1>3, <2>6, <2>8
<1> QED
  BY <1>4, <1>5

LEMMA SortedIs ==
  ASSUME NEW n \in Nat, NEW S \in SUBSET (0..n)
  PROVE  Sorted(S) \in Seq(S) /\ DOMAIN Sorted(S) = 1..Len(Sorted(S))
<1>1. Sorted(S) \in [1..Cardinality(S) -> S]
  BY OrderExists DEF Sorted
<1>2. Cardinality(S) \in Nat
  BY BoundedIsFinite
<1> QED
  BY <1>1, <1>2
-------------------------------------------------------------------------------
(***************************************************************************)
(* The task table.                                                         *)
(***************************************************************************)
Table == [TaskId -> TaskRecord]

OwnerKinds == {"pi.generation", "pi.post_tools"}

\* The inputs of P are shared out among the live owners of a table.
Groups(f, P) ==
  /\ \A t \in TaskId : /\ f[t].inputs \subseteq P
                       /\ f[t].inputs # {} => f[t].live /\ f[t].kind \in OwnerKinds
  /\ \A t, u \in TaskId : t # u => f[t].inputs \cap f[u].inputs = {}
  /\ \A i \in P : \E t \in TaskId : i \in f[t].inputs

LEMMA RecordsTyped ==
  /\ NoTask \in TaskRecord /\ NoInput \in InputRecord
  /\ \A ids \in SUBSET InputId : Generation(ids) \in TaskRecord
<1>1. NoInput \in InputRecord
  BY DEF NoInput, InputRecord, Statuses, Modes, Steering, Writing
<1>2. NoTask \in TaskRecord
  BY InboxAssumption DEF NoTask, TaskRecord, Kinds, Phases, Controls
<1>3. ASSUME NEW ids \in SUBSET InputId PROVE Generation(ids) \in TaskRecord
  BY <1>2 DEF Generation, TaskRecord, Kinds
<1> QED
  BY <1>1, <1>2, <1>3

\* End changes the record of t, and may drop records that are not live.
LEMMA EndIs ==
  ASSUME NEW f \in Table, NEW t \in TaskId
  PROVE  /\ End(f, t) \in Table
         /\ \A u \in TaskId \ {t} : /\ End(f, t)[u] \in {f[u], NoTask}
                                    /\ f[u].live => End(f, t)[u] = f[u]
         /\ End(f, t)[t] \in {NoTask, [f[t] EXCEPT !.live = FALSE, !.inputs = {}]}
<1> DEFINE g == [f EXCEPT ![t].live = FALSE, ![t].inputs = {}]
<1>1. g \in Table
  BY ZenonT(60) DEF Table, TaskRecord
<1>2. /\ g[t] = [f[t] EXCEPT !.live = FALSE, !.inputs = {}]
      /\ \A u \in TaskId \ {t} : g[u] = f[u]
  BY DEF Table, TaskRecord
<1>3. End(f, t) = [u \in TaskId |->
        IF g[u].live \/ \E v \in TaskId : g[v].live /\ u \in g[v].after THEN g[u] ELSE NoTask]
  BY DEF End
<1> HIDE DEF g
<1> QED
  BY <1>1, <1>2, <1>3, RecordsTyped DEF Table

LEMMA EndGroups ==
  ASSUME NEW f \in Table, NEW t \in TaskId, NEW P, Groups(f, P)
  PROVE  Groups(End(f, t), P \ f[t].inputs)
<1> DEFINE g == End(f, t)
<1>1. \A u \in TaskId : /\ g[u].inputs = IF u = t THEN {} ELSE f[u].inputs
                        /\ g[u].inputs # {} => g[u] = f[u]
  <2>1. NoTask.inputs = {} /\ [f[t] EXCEPT !.live = FALSE, !.inputs = {}].inputs = {}
    BY DEF NoTask, Table, TaskRecord
  <2>2. \A u \in TaskId : f[u].live \/ f[u].inputs = {}
    BY DEF Groups
  <2>3. g[t].inputs = {}
    BY <2>1, EndIs
  <2>4. ASSUME NEW u \in TaskId \ {t}
        PROVE  g[u].inputs = f[u].inputs /\ (g[u].inputs # {} => g[u] = f[u])
    BY <2>1, <2>2, EndIs, ZenonT(60)
  <2> QED
    BY <2>3, <2>4
<1> HIDE DEF g
<1>2. \A u \in TaskId : /\ g[u].inputs \subseteq P \ f[t].inputs
                        /\ g[u].inputs # {} => g[u].live /\ g[u].kind \in OwnerKinds
  BY <1>1 DEF Groups
<1>3. \A u, v \in TaskId : u # v => g[u].inputs \cap g[v].inputs = {}
  BY <1>1 DEF Groups
<1>4. \A i \in P \ f[t].inputs : \E u \in TaskId : i \in g[u].inputs
  BY <1>1 DEF Groups
<1> QED
  BY <1>2, <1>3, <1>4 DEF Groups, g

\* What Places chooses, when there is room.
LEMMA PlacesAre ==
  ASSUME NEW f, NEW n \in Nat, Room(f, n)
  PROVE  Places(f, n) \in [1..n -> Free(f)] /\ InOrder(Places(f, n))
BY DEF Room, Places

LEMMA PutGroups ==
  ASSUME NEW f \in Table, NEW x \in Free(f), NEW r \in TaskRecord, NEW P, Groups(f, P),
         r.inputs \cap P = {}, r.inputs # {} => r.live /\ r.kind \in OwnerKinds
  PROVE  [f EXCEPT ![x] = r] \in Table /\ Groups([f EXCEPT ![x] = r], P \cup r.inputs)
<1>1. x \in TaskId /\ f[x].inputs = {}
  BY DEF Free, NoTask
<1> DEFINE g == [f EXCEPT ![x] = r]
<1>2. g \in Table /\ g[x] = r /\ \A u \in TaskId \ {x} : g[u] = f[u]
  BY <1>1 DEF Table
<1> HIDE DEF g
<1>3. \A u \in TaskId : /\ g[u].inputs \subseteq P \cup r.inputs
                        /\ g[u].inputs # {} => g[u].live /\ g[u].kind \in OwnerKinds
  BY <1>1, <1>2 DEF Groups
<1>4. \A u, v \in TaskId : u # v => g[u].inputs \cap g[v].inputs = {}
  BY <1>1, <1>2 DEF Groups
<1>5. \A i \in P \cup r.inputs : \E u \in TaskId : i \in g[u].inputs
  <2>1. \A i \in P : \E u \in TaskId \ {x} : i \in f[u].inputs
    BY <1>1 DEF Groups
  <2> QED
    BY <1>1, <1>2, <2>1
<1> QED
  BY <1>2, <1>3, <1>4, <1>5 DEF Groups, g

LEMMA CreateIs ==
  ASSUME NEW f \in Table, NEW r \in TaskRecord, Create(f, r)
  PROVE  \E x \in Free(f) : x \in TaskId /\ task' = [f EXCEPT ![x] = r]
<1>1. Places(f, 1)[1] \in Free(f)
  BY PlacesAre DEF Create
<1> QED
  BY <1>1 DEF Create, Free

LEMMA CreateGroups ==
  ASSUME NEW f \in Table, NEW r \in TaskRecord, NEW P, Groups(f, P), Create(f, r),
         r.inputs \cap P = {}, r.inputs # {} => r.live /\ r.kind \in OwnerKinds
  PROVE  task' \in Table /\ Groups(task', P \cup r.inputs)
BY CreateIs, PutGroups

LEMMA CreateForGroups ==
  ASSUME NEW f \in Table, NEW ids \in SUBSET InputId, NEW P, Groups(f, P), CreateFor(f, ids),
         ids \cap P = {}
  PROVE  task' \in Table /\ Groups(task', P \cup ids)
<1>1. CASE ids = {}
  BY <1>1 DEF CreateFor
<1>2. CASE ids # {}
  <2>1. Create(f, Generation(ids))
    BY <1>2 DEF CreateFor
  <2>2. Generation(ids) \in TaskRecord
    BY RecordsTyped
  <2>3. LET r == Generation(ids) IN r.inputs = ids /\ r.live /\ r.kind \in OwnerKinds
    BY DEF Generation, NoTask, OwnerKinds
  <2> HIDE DEF Groups
  <2> QED
    BY <2>1, <2>2, <2>3, CreateGroups
<1> QED
  BY <1>1, <1>2

-------------------------------------------------------------------------------
(***************************************************************************)
(* The inputs.                                                             *)
(***************************************************************************)
InputTable == [InputId -> InputRecord]

\* `box' holds what is queued, P what is placed, and only what is done has an answer.
Books(in, box, P) ==
  /\ in \in InputTable
  /\ box = {i \in InputId : in[i].status = "queued"}
  /\ P = {i \in InputId : in[i].status = "placed"}
  /\ \A i \in InputId : /\ in[i].status # "done" => in[i].answer = 0
                        /\ in[i].status = "queued" => in[i].waited

\* What may become of an input in one step; InputLifecycle for stored records.
Moves(r, s) ==
  \/ s = r
  \/ /\ r.status = "absent" /\ s.answer = 0
     /\ \/ s.status = "queued"
        \/ s.status = "placed" /\ s.mode \in Steering
        \/ s.status = "done" /\ s.mode \in Writing
  \/ /\ s.mode = r.mode /\ s.waited = r.waited
     /\ \/ /\ r.status = "queued" /\ s.answer = r.answer
           /\ \/ s.status = "placed" /\ s.mode \in Steering
              \/ s.status = "done" /\ s.mode \in Writing
        \/ r.status = "placed" /\ s.status = "done" /\ s.answer # 0
        \/ r.status \in {"queued", "placed"} /\ s.status = "unanswered" /\ s.answer = r.answer

LEMMA SelectionsAre ==
  ASSUME NEW at, NEW B \in Selections(at)
  PROVE  /\ B \subseteq inbox /\ QueuedWrites \subseteq B /\ B \cap Stale = {}
         /\ Triggers(B) \subseteq B /\ Stale \subseteq inbox
<1>1. \A mode : \A s \in Picks(mode) : s \subseteq inbox \ Stale
  BY DEF Picks
<1>2. QueuedWrites \cap Stale = {} /\ QueuedWrites \subseteq inbox /\ Stale \subseteq inbox
  BY DEF QueuedWrites, Stale, ModeIs, Writing, Steering
<1> DEFINE F == IF at = "final" THEN Picks("followUp") ELSE {{}}
<1>3. PICK s \in Picks("steer"), f \in F : B = QueuedWrites \cup s \cup f
  <2>1. B \in {QueuedWrites \cup s \cup f : s \in Picks("steer"), f \in F}
    BY SMTT(30) DEF Selections
  <2> HIDE DEF F
  <2> QED
    BY <2>1
<1>4. f \subseteq inbox \ Stale
  BY <1>1, <1>3
<1> QED
  BY <1>1, <1>2, <1>3, <1>4 DEF Triggers

\* A boundary places what it selects, and gives up what a queued reset leaves behind.
KeepsBooks(B, P) ==
  /\ Books(Moved(B), inbox \ (B \cup Stale), P \cup Triggers(B))
  /\ Triggers(B) \cap P = {} /\ B \subseteq InputId

MovesOn(B) ==
  \A i \in InputId : /\ Moves(input[i], Moved(B)[i])
                     /\ Moved(B)[i].mode = input[i].mode
                     /\ input[i].status # "queued" => Moved(B)[i] = input[i]
                     /\ input[i].status = "queued" => Moved(B)[i].status # "absent"

LEMMA MovedIs ==
  ASSUME NEW P, Books(input, inbox, P), NEW at, NEW B \in Selections(at)
  PROVE  KeepsBooks(B, P) /\ MovesOn(B)
<1>1. /\ B \subseteq inbox /\ QueuedWrites \subseteq B /\ B \cap Stale = {}
      /\ Triggers(B) \subseteq B /\ Stale \subseteq inbox
  BY SelectionsAre
<1>2. inbox \subseteq InputId /\ \A i \in InputId : i \in inbox <=> input[i].status = "queued"
  BY DEF Books
<1>3. \A i \in InputId : input[i] \in InputRecord
  BY DEF Books, InputTable
<1>4. \A i \in InputId : Moved(B)[i] =
        IF i \in Stale THEN [input[i] EXCEPT !.status = "unanswered"]
        ELSE IF i \in B
             THEN [input[i] EXCEPT !.status = IF ModeIs(i, Writing) THEN "done" ELSE "placed"]
             ELSE input[i]
  BY DEF Moved
<1>5. ASSUME NEW i \in InputId
      PROVE  /\ Moved(B)[i] \in InputRecord
             /\ Moved(B)[i].mode = input[i].mode /\ Moved(B)[i].answer = input[i].answer
             /\ Moved(B)[i].waited = input[i].waited
             /\ Moved(B)[i].status = IF i \in Stale THEN "unanswered"
                                     ELSE IF i \in B THEN IF ModeIs(i, Writing) THEN "done" ELSE "placed"
                                     ELSE input[i].status
             /\ i \notin Stale \cup B => Moved(B)[i] = input[i]
  <2>1. \A r \in InputRecord : \A status \in Statuses :
          LET m == [r EXCEPT !.status = status]
          IN /\ m \in InputRecord /\ m.status = status
             /\ m.mode = r.mode /\ m.answer = r.answer /\ m.waited = r.waited
    BY DEF InputRecord
  <2>2. {"unanswered", "done", "placed"} \subseteq Statuses
    BY DEF Statuses
  <2>3. CASE i \in Stale
    <3>1. Moved(B)[i] = [input[i] EXCEPT !.status = "unanswered"]
      BY <1>4, <2>3
    <3> QED
      BY <1>3, <2>1, <2>2, <2>3, <3>1
  <2>4. CASE i \notin Stale /\ i \in B
    <3> DEFINE status == IF ModeIs(i, Writing) THEN "done" ELSE "placed"
    <3>1. Moved(B)[i] = [input[i] EXCEPT !.status = status]
      BY <1>4, <2>4
    <3>2. status \in Statuses
      BY <2>2
    <3> HIDE DEF status
    <3>3. /\ Moved(B)[i] \in InputRecord /\ Moved(B)[i].status = status
          /\ Moved(B)[i].mode = input[i].mode /\ Moved(B)[i].answer = input[i].answer
          /\ Moved(B)[i].waited = input[i].waited
      BY <1>3, <2>1, <3>1, <3>2
    <3> QED
      BY <2>4, <3>3 DEF status
  <2>5. CASE i \notin Stale /\ i \notin B
    BY <1>3, <1>4, <2>5
  <2> QED
    BY <2>3, <2>4, <2>5
<1>6. \A i \in InputId : i \in Triggers(B) <=> i \in B /\ ~ModeIs(i, Writing)
  BY <1>3 DEF Triggers, ModeIs, InputRecord, Modes, Steering, Writing
<1>7. Moved(B) \in InputTable
  <2>1. Moved(B) = [i \in InputId |-> Moved(B)[i]]
    BY DEF Moved
  <2> QED
    BY <1>5, <2>1 DEF InputTable
<1>8. Books(Moved(B), inbox \ (B \cup Stale), P \cup Triggers(B))
  <2>1. P \cup Triggers(B) = {i \in InputId : Moved(B)[i].status = "placed"}
    BY <1>1, <1>2, <1>5, <1>6 DEF Books
  <2>2. inbox \ (B \cup Stale) = {i \in InputId : Moved(B)[i].status = "queued"}
    BY <1>1, <1>2, <1>5
  <2>3. \A i \in InputId : /\ Moved(B)[i].status # "done" => Moved(B)[i].answer = 0
                           /\ Moved(B)[i].status = "queued" => Moved(B)[i].waited
    BY <1>1, <1>2, <1>5 DEF Books
  <2> QED
    BY <1>7, <2>1, <2>2, <2>3 DEF Books
<1>9. ASSUME NEW i \in InputId PROVE Moves(input[i], Moved(B)[i])
  <2>1. input[i].mode \in Steering \/ ModeIs(i, Writing)
    BY <1>3 DEF ModeIs, InputRecord, Modes
  <2> QED
    BY <1>1, <1>2, <1>5, <2>1 DEF Moves, ModeIs
<1>10. KeepsBooks(B, P)
  BY <1>1, <1>2, <1>6, <1>8 DEF Books, KeepsBooks
<1> QED
  BY <1>1, <1>2, <1>5, <1>9, <1>10 DEF MovesOn

\* Settling inputs that are placed, or queued ones that are given up.
MaySettle(in, ids, status) ==
  \A i \in ids : /\ i \in InputId /\ in[i].answer = 0
                 /\ \/ in[i].status = "placed"
                    \/ in[i].status = "queued" /\ status = "unanswered"

SettleStep(in, out, ids, status) ==
  \A i \in InputId : /\ Moves(in[i], out[i])
                     /\ IF i \in ids THEN out[i].status = status ELSE out[i] = in[i]

Fields(in, out, ids, status, answer) ==
  \A i \in InputId :
    IF i \in ids THEN /\ out[i].status = status /\ out[i].answer = answer
                      /\ out[i].mode = in[i].mode /\ out[i].waited = in[i].waited
                 ELSE out[i] = in[i]

LEMMA SettledFields ==
  ASSUME NEW in \in InputTable, NEW ids, NEW status \in {"done", "unanswered"}, NEW answer \in Nat
  PROVE  /\ Settled(in, ids, status, answer) \in InputTable
         /\ Fields(in, Settled(in, ids, status, answer), ids, status, answer)
<1> DEFINE out == Settled(in, ids, status, answer)
<1>1. ASSUME NEW i \in InputId
      PROVE  /\ out[i] \in InputRecord
             /\ i \notin ids => out[i] = in[i]
             /\ i \in ids => /\ out[i].mode = in[i].mode /\ out[i].answer = answer
                             /\ out[i].waited = in[i].waited /\ out[i].status = status
  BY DEF Settled, InputTable, InputRecord, Statuses
<1>2. out = [i \in InputId |-> out[i]]
  BY DEF Settled
<1> HIDE DEF out
<1>3. out \in InputTable
  BY <1>1, <1>2 DEF InputTable
<1> QED
  BY <1>1, <1>3 DEF Fields, out

LEMMA SettledMoves ==
  ASSUME NEW in \in InputTable, NEW ids, NEW status \in {"done", "unanswered"}, NEW answer \in Nat,
         status = "done" <=> answer # 0, MaySettle(in, ids, status)
  PROVE  SettleStep(in, Settled(in, ids, status, answer), ids, status)
<1> DEFINE out == Settled(in, ids, status, answer)
<1>1. Fields(in, out, ids, status, answer)
  BY SettledFields
<1> HIDE DEF out
<1>2. SettleStep(in, out, ids, status)
  BY <1>1 DEF Fields, SettleStep, MaySettle, Moves
<1> QED
  BY <1>2 DEF out

LEMMA SettledBooks ==
  ASSUME NEW in, NEW box, NEW P, Books(in, box, P), NEW ids \in SUBSET InputId,
         NEW status \in {"done", "unanswered"}, NEW answer \in Nat,
         status = "done" <=> answer # 0
  PROVE  Books(Settled(in, ids, status, answer), box \ ids, P \ ids)
<1> DEFINE out == Settled(in, ids, status, answer)
<1>1. in \in InputTable
  BY DEF Books
<1>2. out \in InputTable /\ Fields(in, out, ids, status, answer)
  BY <1>1, SettledFields
<1> HIDE DEF out
<1>3. /\ box \ ids = {i \in InputId : out[i].status = "queued"}
      /\ P \ ids = {i \in InputId : out[i].status = "placed"}
  BY <1>2 DEF Books, Fields
<1>4. \A i \in InputId : /\ out[i].status # "done" => out[i].answer = 0
                         /\ out[i].status = "queued" => out[i].waited
  BY <1>2 DEF Books, Fields
<1> QED
  BY <1>2, <1>3, <1>4 DEF Books, out

\* The inputs accepted so far have the identifiers 1, 2, and so on.
Numbered(in) ==
  \E n \in 0..MaxInputs : {i \in InputId : in[i].status # "absent"} = 1..n

LEMMA NumberedStays ==
  ASSUME NEW in, NEW out, Numbered(in),
         \A i \in InputId : in[i].status = "absent" <=> out[i].status = "absent"
  PROVE  Numbered(out)
<1>1. {i \in InputId : in[i].status # "absent"} = {i \in InputId : out[i].status # "absent"}
  OBVIOUS
<1> QED
  BY <1>1 DEF Numbered

\* The identifier that the next input gets is free, and the next one in order.
LEMMA NextIdIsFree ==
  ASSUME Numbered(input), NextId <= MaxInputs
  PROVE  /\ NextId \in InputId /\ input[NextId].status = "absent"
         /\ \A in : (/\ in[NextId].status # "absent"
                     /\ \A i \in InputId \ {NextId} :
                          in[i].status = "absent" <=> input[i].status = "absent")
                    => Numbered(in)
<1>1. PICK n \in 0..MaxInputs : {i \in InputId : input[i].status # "absent"} = 1..n
  BY DEF Numbered
<1>2. n \in Nat /\ MaxInputs \in Nat
  BY InboxAssumption
<1>3. NextId = n + 1
  <2>1. Cardinality(1..n) = n
    BY <1>2, FS_Interval
  <2> QED
    BY <1>1, <2>1 DEF NextId
<1>4. NextId \in InputId /\ n + 1 \in 0..MaxInputs
  BY <1>2, <1>3 DEF InputId
<1>5. input[NextId].status = "absent"
  BY <1>1, <1>2, <1>3, <1>4
<1>6. ASSUME NEW in, in[NextId].status # "absent",
             \A i \in InputId \ {NextId} : in[i].status = "absent" <=> input[i].status = "absent"
      PROVE  Numbered(in)
  <2>1. {i \in InputId : in[i].status # "absent"} = 1..(n + 1)
    BY <1>1, <1>2, <1>3, <1>4, <1>6 DEF InputId
  <2> QED
    BY <1>4, <2>1 DEF Numbered
<1> QED
  BY <1>4, <1>5, <1>6

\* What the closing commit of a turn task does to the inputs.
LEMMA PlacedSettled ==
  ASSUME NEW P, Books(input, inbox, P), Numbered(input), NEW at, NEW B \in Selections(at),
         NEW ids \in SUBSET P, NEW status \in {"done", "unanswered"}, NEW answer \in Nat,
         status = "done" <=> answer # 0
  PROVE  LET out == Settled(Moved(B), ids, status, answer)
         IN /\ Books(out, inbox \ (B \cup Stale), (P \ ids) \cup Triggers(B))
            /\ Numbered(out)
            /\ \A i \in InputId : Moves(input[i], out[i])
<1> DEFINE mid == Moved(B)
           out == Settled(mid, ids, status, answer)
           box == inbox \ (B \cup Stale)
           Q   == P \cup Triggers(B)
<1>1. /\ Books(mid, box, Q) /\ Triggers(B) \cap P = {} /\ B \subseteq InputId
      /\ \A i \in InputId : /\ Moves(input[i], mid[i]) /\ mid[i].mode = input[i].mode
                            /\ input[i].status # "queued" => mid[i] = input[i]
                            /\ input[i].status = "queued" => mid[i].status # "absent"
  <2>1. KeepsBooks(B, P) /\ MovesOn(B)
    BY MovedIs
  <2> QED
    BY <2>1 DEF KeepsBooks, MovesOn
<1>2. \A i \in P : i \in InputId /\ input[i].status = "placed"
  BY DEF Books
<1>3. ids \in SUBSET InputId
  BY <1>2
<1> HIDE DEF mid, box, Q
<1>4. Books(out, box \ ids, Q \ ids) /\ SettleStep(mid, out, ids, status)
  <2>1. Books(out, box \ ids, Q \ ids)
    BY <1>1, <1>3, SettledBooks
  <2>2. mid \in InputTable
    BY <1>1 DEF Books
  <2>3. \A i \in ids : i \in InputId /\ mid[i].answer = 0 /\ mid[i].status = "placed"
    BY <1>1, <1>2 DEF Books
  <2>4. MaySettle(mid, ids, status)
    BY <2>3 DEF MaySettle
  <2> QED
    BY <2>1, <2>2, <2>4, SettledMoves
<1> HIDE DEF out
<1>5. Q \ ids = (P \ ids) \cup Triggers(B)
  BY <1>1 DEF Q
<1>6. box \ ids = box
  BY <1>2 DEF box, Books
<1>7. \A i \in InputId : Moves(input[i], out[i])
  BY <1>1, <1>2, <1>4 DEF SettleStep
<1>8. \A i \in InputId : input[i].status = "absent" <=> out[i].status = "absent"
  BY <1>1, <1>2, <1>4 DEF SettleStep
<1>9. Numbered(out)
  BY <1>8, NumberedStays
<1> QED
  BY <1>4, <1>5, <1>6, <1>7, <1>9 DEF out, mid, box

-------------------------------------------------------------------------------
(***************************************************************************)
(* The invariant.                                                          *)
(***************************************************************************)
\* A tool that is not executing yet has not run, and one that is not safe to
\* replay has run once at most.
ToolRuns ==
  \A t \in TaskId : /\ task[t].phase \in {"initial", "started"} => task[t].runs = 0
                    /\ task[t].call \notin Safe => task[t].runs <= 1

CallsAt == {p \in DOMAIN entries : entries[p].kind = "calls"}

\* The calls that a post_tools joins are in the transcript.
CallsBefore == \A t \in TaskId : task[t].kind = "pi.post_tools" => CallsAt # {}

IInv ==
  /\ TypeOK
  /\ Books(input, inbox, InState("placed"))
  /\ Numbered(input)
  /\ Groups(task, InState("placed"))
  /\ ToolRuns
  /\ CallsBefore

\* What every step does to the inputs and to who owns them.
GoodStep ==
  /\ \E P : Books(input', inbox', P) /\ Groups(task', P)
  /\ Numbered(input')
  /\ \A i \in InputId : Moves(input[i], input'[i])
  /\ task' \in Table

\* What it does to the record of a task.
Evolves(r, s) ==
  /\ s.kind = r.kind /\ s.call = r.call
  /\ \/ s.phase = r.phase /\ s.runs = r.runs
     \/ r.phase = "initial" /\ s.phase = "started" /\ s.runs = r.runs
     \/ r.phase = "started" /\ s.phase = "executing" /\ s.runs = r.runs + 1
     \/ r.phase = "interrupted" /\ s.phase = "executing" /\ s.runs = r.runs + 1 /\ r.call \in Safe
     \/ r.phase \in {"started", "executing"} /\ s.phase = "interrupted" /\ s.runs = r.runs

\* New records have not run; a post_tools comes with its calls.
TableStep ==
  \A u \in TaskId :
    \/ Evolves(task[u], task'[u])
    \/ /\ task'[u].phase = "initial" /\ task'[u].runs = 0
       /\ task'[u].kind = "pi.post_tools" => CallsAt' # {}

\* The transcript grows, and the counters keep their types.
LogStep ==
  /\ \E s \in Seq(Entry) : entries' = entries \o s
  /\ hurt' \in BOOLEAN /\ rounds' \in 0..MaxRounds /\ disruptions' \in 0..MaxDisruptions

-------------------------------------------------------------------------------
(***************************************************************************)
(* What is appended to the transcript.                                     *)
(***************************************************************************)
LEMMA EntriesTyped ==
  ASSUME NEW ids \in SUBSET InputId, input \in InputTable
  PROVE  Entries(ids) \in Seq(Entry)
<1> DEFINE order == Sorted(ids)
<1>1. ids \in SUBSET (0..MaxInputs) /\ MaxInputs \in Nat
  BY InboxAssumption DEF InputId
<1>2. order \in Seq(ids) /\ DOMAIN order = 1..Len(order)
  BY <1>1, SortedIs
<1>3. \A i \in InputId : EntryKind(i) \in {"user", "write", "reset"} /\ i \in Nat
  BY DEF EntryKind, ModeIs, Writing, Steering, Modes, InputTable, InputRecord, InputId
<1>4. \A i \in InputId : [kind |-> EntryKind(i), of |-> i] \in Entry
  BY <1>3 DEF Entry
<1>5. Entries(ids) = [k \in 1..Len(order) |-> [kind |-> EntryKind(order[k]), of |-> order[k]]]
  BY <1>2 DEF Entries
<1> HIDE DEF order
<1> QED
  BY <1>2, <1>4, <1>5

LEMMA SynthesisedTyped ==
  ASSUME NEW t \in TaskId, task \in Table
  PROVE  Synthesised(t) \in Seq(Entry)
<1> DEFINE calls   == {task[d].call : d \in {e \in Tools(t) : ~task[e].entry}}
           missing == Sorted(calls)
<1>1. MaxCalls \in Nat
  BY InboxAssumption
<1>2. task[t].after \subseteq TaskId /\ \A d \in TaskId : task[d].call \in 0..MaxCalls
  BY DEF Table, TaskRecord
<1>3. calls \in SUBSET (0..MaxCalls)
  BY <1>2 DEF Tools
<1> HIDE DEF calls
<1>4. missing \in Seq(calls) /\ DOMAIN missing = 1..Len(missing)
  BY <1>1, <1>3, SortedIs
<1>5. \A k \in calls : [kind |-> "result", of |-> k] \in Entry
  BY <1>1, <1>3 DEF Entry
<1>6. Synthesised(t) = [k \in 1..Len(missing) |-> [kind |-> "result", of |-> missing[k]]]
  BY <1>4 DEF Synthesised, calls
<1> HIDE DEF missing
<1> QED
  BY <1>4, <1>5, <1>6

LEMMA HandoffTyped ==
  ASSUME NEW t
  PROVE  Handoff(t) \in Seq(Entry)
<1>1. [kind |-> "handoff", of |-> 0] \in Entry
  BY DEF Entry
<1>2. <<>> \in Seq(Entry) /\ <<[kind |-> "handoff", of |-> 0]>> \in Seq(Entry)
  BY <1>1
<1> QED
  BY <1>2 DEF Handoff

Bounds == hurt' \in BOOLEAN /\ rounds' \in 0..MaxRounds /\ disruptions' \in 0..MaxDisruptions

LEMMA BoundsKept ==
  ASSUME TypeOK,
         hurt' \in {hurt, FALSE} \/ \E t \in TaskId : hurt' = (hurt \/ IsTurn(t)),
         Round \/ rounds' = rounds, Disrupt \/ disruptions' = disruptions
  PROVE  Bounds
<1>1. hurt' \in BOOLEAN
  BY Zenon DEF TypeOK
<1>2. rounds' \in 0..MaxRounds /\ disruptions' \in 0..MaxDisruptions
  BY InboxAssumption DEF TypeOK, Round, Disrupt
<1> QED
  BY <1>1, <1>2 DEF Bounds

LEMMA Associative ==
  ASSUME NEW a \in Seq(Entry), NEW b \in Seq(Entry), NEW c \in Seq(Entry)
  PROVE  a \o b \o c = a \o (b \o c) /\ a \o b \in Seq(Entry) /\ b \o c \in Seq(Entry)
OBVIOUS

LEMMA AppendIsConcat ==
  ASSUME NEW a \in Seq(Entry), NEW e \in Entry
  PROVE  Append(a, e) = a \o <<e>> /\ <<e>> \in Seq(Entry)
OBVIOUS

\* An append.
Appends(s) == s \in Seq(Entry) /\ entries' = entries \o s

LEMMA AppendIs ==
  ASSUME TypeOK, NEW e \in Entry, entries' = Append(entries, e)
  PROVE  Appends(<<e>>)
<1>1. entries \in Seq(Entry) /\ <<e>> \in Seq(Entry)
  BY DEF TypeOK
<1>2. Append(entries, e) = entries \o <<e>>
  BY <1>1
<1> QED
  BY <1>1, <1>2 DEF Appends

LEMMA NothingAppended ==
  ASSUME TypeOK, entries' = entries
  PROVE  Appends(<<>>)
<1>1. entries \in Seq(Entry) /\ <<>> \in Seq(Entry)
  BY DEF TypeOK
<1>2. entries = entries \o <<>>
  BY <1>1
<1> QED
  BY <1>1, <1>2 DEF Appends

LEMMA LogFrom ==
  ASSUME NEW s, Appends(s), Bounds
  PROVE  LogStep
BY DEF Appends, Bounds, LogStep

-------------------------------------------------------------------------------
(***************************************************************************)
(* What a step does to the task table.                                     *)
(***************************************************************************)
Fresh(r) == r.phase = "initial" /\ r.runs = 0 /\ r.kind # "pi.post_tools"

\* A record of g evolves from the one of f, or is new.
TableMove(f, g) == \A u \in TaskId : Evolves(f[u], g[u]) \/ Fresh(g[u])

SameRuns(f, g) ==
  \A u \in TaskId : /\ f[u].kind = g[u].kind /\ f[u].call = g[u].call
                     /\ f[u].phase = g[u].phase /\ f[u].runs = g[u].runs

SameOwners(f, g) ==
  \A u \in TaskId : /\ f[u].inputs = g[u].inputs
                     /\ f[u].live = g[u].live /\ f[u].kind = g[u].kind

LEMMA SameGroups ==
  ASSUME NEW f, NEW g, SameOwners(f, g), NEW P, Groups(f, P)
  PROVE  Groups(g, P)
BY DEF SameOwners, Groups

LEMMA EndMove ==
  ASSUME NEW f, NEW g \in Table, SameRuns(f, g), NEW t \in TaskId
  PROVE  TableMove(f, End(g, t))
<1> DEFINE h == End(g, t)
<1>1. Fresh(NoTask)
  BY DEF Fresh, NoTask
<1>2. LET r == [g[t] EXCEPT !.live = FALSE, !.inputs = {}]
      IN r.kind = g[t].kind /\ r.call = g[t].call /\ r.phase = g[t].phase /\ r.runs = g[t].runs
  BY DEF Table, TaskRecord
<1>3. \A u \in TaskId : h[u] = NoTask \/ (/\ h[u].kind = g[u].kind /\ h[u].call = g[u].call
                                         /\ h[u].phase = g[u].phase /\ h[u].runs = g[u].runs)
  <2>1. /\ \A u \in TaskId \ {t} : h[u] \in {g[u], NoTask}
        /\ h[t] \in {NoTask, [g[t] EXCEPT !.live = FALSE, !.inputs = {}]}
    BY EndIs
  <2> HIDE DEF h
  <2> QED
    BY <1>2, <2>1
<1> HIDE DEF h
<1> QED
  BY <1>1, <1>3 DEF TableMove, SameRuns, Evolves, h

LEMMA CreateMove ==
  ASSUME NEW f, NEW g \in Table, TableMove(f, g), NEW r \in TaskRecord, Fresh(r), Create(g, r)
  PROVE  TableMove(f, task')
<1>1. PICK x \in Free(g) : x \in TaskId /\ task' = [g EXCEPT ![x] = r]
  BY CreateIs
<1>2. task'[x] = r /\ \A u \in TaskId \ {x} : task'[u] = g[u]
  BY <1>1 DEF Table
<1> QED
  BY <1>1, <1>2 DEF TableMove

LEMMA CreateForMove ==
  ASSUME NEW f, NEW g \in Table, TableMove(f, g), NEW ids \in SUBSET InputId, CreateFor(g, ids)
  PROVE  TableMove(f, task')
<1>1. CASE ids = {}
  BY <1>1 DEF CreateFor
<1>2. CASE ids # {}
  <2>1. Create(g, Generation(ids))
    BY <1>2 DEF CreateFor
  <2>2. Generation(ids) \in TaskRecord
    BY RecordsTyped
  <2>3. Fresh(Generation(ids))
    BY DEF Generation, NoTask, Fresh
  <2> QED
    BY <2>1, <2>2, <2>3, CreateMove
<1> QED
  BY <1>1, <1>2

LEMMA TableStepFrom ==
  ASSUME TableMove(task, task')
  PROVE  TableStep
BY DEF TableMove, TableStep, Fresh

\* What the invariant says of the task that closes.
LEMMA Before ==
  ASSUME IInv
  PROVE  /\ TypeOK /\ task \in Table /\ input \in InputTable
         /\ \A t \in TaskId : /\ task[t].inputs \subseteq InState("placed")
                              /\ task[t].inputs \in SUBSET InputId
                              /\ task[t] \in TaskRecord
         /\ SameRuns(task, task)
BY DEF IInv, TypeOK, Table, Books, Groups, InState, SameRuns, Table

-------------------------------------------------------------------------------
(***************************************************************************)
(* The closing commits of a turn.                                          *)
(***************************************************************************)
\* The group of t is settled, and what the boundary places gets a generation.
LEMMA ClosesTurn ==
  ASSUME IInv, NEW t \in TaskId, NEW at, NEW B \in Selections(at),
         NEW status \in {"done", "unanswered"}, NEW answer \in Nat, status = "done" <=> answer # 0,
         input' = Settled(Moved(B), task[t].inputs, status, answer), Boundary(B),
         CreateFor(End(task, t), Triggers(B))
  PROVE  GoodStep /\ TableStep
<1> DEFINE P == InState("placed")
           f == End(task, t)
<1>1. /\ Books(input, inbox, P) /\ Numbered(input) /\ Groups(task, P)
      /\ task \in Table /\ SameRuns(task, task) /\ task[t].inputs \in SUBSET P
  BY Before DEF IInv
<1>2. Triggers(B) \cap P = {} /\ Triggers(B) \in SUBSET InputId
  <2>1. KeepsBooks(B, P)
    BY <1>1, MovedIs
  <2> QED
    BY <2>1 DEF KeepsBooks, Triggers
<1> HIDE DEF P
<1>3. /\ Books(input', inbox', (P \ task[t].inputs) \cup Triggers(B)) /\ Numbered(input')
      /\ \A i \in InputId : Moves(input[i], input'[i])
  BY <1>1, PlacedSettled DEF Boundary
<1>4. f \in Table /\ Groups(f, P \ task[t].inputs) /\ TableMove(task, f)
  BY <1>1, EndIs, EndGroups, EndMove
<1> HIDE DEF f
<1>5. task' \in Table /\ Groups(task', (P \ task[t].inputs) \cup Triggers(B))
  <2>1. CreateFor(f, Triggers(B))
    BY DEF f
  <2>2. Triggers(B) \cap (P \ task[t].inputs) = {}
    BY <1>2
  <2> QED
    BY <1>2, <1>4, <2>1, <2>2, CreateForGroups
<1>6. TableMove(task, task')
  <2>1. CreateFor(f, Triggers(B))
    BY DEF f
  <2> QED
    BY <1>2, <1>4, <2>1, CreateForMove
<1> QED
  BY <1>3, <1>5, <1>6, TableStepFrom DEF GoodStep

\* Another generation takes the group of t over, with what the boundary places.
LEMMA CarriesOn ==
  ASSUME IInv, NEW t \in TaskId, NEW at, NEW B \in Selections(at), NEW r \in TaskRecord,
         Fresh(r), r.live, r.kind = "pi.generation", r.inputs = task[t].inputs \cup Triggers(B),
         input' = Moved(B), Boundary(B), Create(End(task, t), r)
  PROVE  GoodStep /\ TableStep
<1> DEFINE P == InState("placed")
           f == End(task, t)
<1>1. /\ Books(input, inbox, P) /\ Numbered(input) /\ Groups(task, P)
      /\ task \in Table /\ SameRuns(task, task) /\ task[t].inputs \in SUBSET P
  BY Before DEF IInv
<1> HIDE DEF P
<1>2. /\ Books(input', inbox', P \cup Triggers(B)) /\ Triggers(B) \cap P = {}
      /\ \A i \in InputId : /\ Moves(input[i], input'[i])
                            /\ input[i].status # "queued" => input'[i] = input[i]
                            /\ input[i].status = "queued" => input'[i].status # "absent"
  <2>1. inbox' = inbox \ (B \cup Stale)
    BY DEF Boundary
  <2>2. KeepsBooks(B, P) /\ MovesOn(B)
    BY <1>1, MovedIs
  <2> QED
    BY <2>1, <2>2 DEF KeepsBooks, MovesOn
<1>3. Numbered(input')
  BY <1>1, <1>2, NumberedStays
<1>4. f \in Table /\ Groups(f, P \ task[t].inputs) /\ TableMove(task, f)
  BY <1>1, EndIs, EndGroups, EndMove
<1> HIDE DEF f
<1>5. task' \in Table /\ Groups(task', P \cup Triggers(B))
  <2>1. Create(f, r)
    BY DEF f
  <2>2. r.inputs \cap (P \ task[t].inputs) = {} /\ r.kind \in OwnerKinds
    BY <1>2 DEF OwnerKinds
  <2>3. task' \in Table /\ Groups(task', (P \ task[t].inputs) \cup r.inputs)
    BY <1>4, <2>1, <2>2, CreateGroups
  <2>4. (P \ task[t].inputs) \cup r.inputs = P \cup Triggers(B)
    BY <1>1
  <2> QED
    BY <2>3, <2>4
<1>6. TableMove(task, task')
  <2>1. Create(f, r)
    BY DEF f
  <2> QED
    BY <1>4, <2>1, CreateMove
<1> QED
  BY <1>2, <1>3, <1>5, <1>6, TableStepFrom DEF GoodStep

\* Only the task table changes, and the group of no task.
LEMMA OnlyTasks ==
  ASSUME IInv, UNCHANGED <<input, inbox>>, task' \in Table, Groups(task', InState("placed"))
  PROVE  GoodStep
BY DEF IInv, GoodStep, Moves

\* A task ends and its group, if it has one, is given up.
LEMMA GivesUp ==
  ASSUME IInv, NEW t \in TaskId, NEW f \in Table, SameRuns(task, f), SameOwners(task, f),
         input' = Settled(input, task[t].inputs, "unanswered", 0), UNCHANGED inbox,
         task' = End(f, t)
  PROVE  GoodStep /\ TableStep
<1> DEFINE P == InState("placed")
<1>1. /\ Books(input, inbox, P) /\ Numbered(input) /\ Groups(task, P)
      /\ input \in InputTable /\ task[t].inputs \in SUBSET P /\ task[t].inputs \in SUBSET InputId
  BY Before DEF IInv
<1>2. \A i \in P : i \in InputId /\ input[i].status = "placed"
  BY DEF InState
<1> HIDE DEF P
<1>3. Books(input', inbox', P \ task[t].inputs)
  <2>1. Books(Settled(input, task[t].inputs, "unanswered", 0), inbox \ task[t].inputs,
              P \ task[t].inputs)
    BY <1>1, SettledBooks
  <2>2. inbox \ task[t].inputs = inbox
    BY <1>1, <1>2 DEF Books
  <2> QED
    BY <2>1, <2>2
<1>4. SettleStep(input, input', task[t].inputs, "unanswered")
  <2>1. MaySettle(input, task[t].inputs, "unanswered")
    BY <1>1, <1>2 DEF MaySettle, Books
  <2> QED
    BY <1>1, <2>1, SettledMoves
<1>5. Numbered(input')
  <2>1. \A i \in InputId : input[i].status = "absent" <=> input'[i].status = "absent"
    BY <1>1, <1>2, <1>4 DEF SettleStep
  <2> QED
    BY <1>1, <2>1, NumberedStays
<1>6. task' \in Table /\ Groups(task', P \ task[t].inputs)
  <2>1. Groups(f, P) /\ f[t].inputs = task[t].inputs
    BY <1>1, SameGroups DEF SameOwners
  <2> QED
    BY <2>1, EndIs, EndGroups
<1>7. TableMove(task, task')
  BY EndMove
<1> QED
  BY <1>3, <1>4, <1>5, <1>6, <1>7, TableStepFrom DEF GoodStep, SettleStep

\* Queued inputs are given up.
LEMMA Withdrawn ==
  ASSUME IInv, NEW ids \in SUBSET inbox, inbox' = inbox \ ids,
         input' = Settled(input, ids, "unanswered", 0),
         task' \in Table, SameOwners(task, task')
  PROVE  GoodStep
<1> DEFINE P == InState("placed")
<1>1. Books(input, inbox, P) /\ Numbered(input) /\ Groups(task, P) /\ input \in InputTable
  BY Before DEF IInv
<1>2. \A i \in ids : i \in InputId /\ input[i].status = "queued"
  BY <1>1 DEF Books
<1>3. Books(input', inbox', P)
  <2>1. ids \in SUBSET InputId
    BY <1>2
  <2>2. Books(Settled(input, ids, "unanswered", 0), inbox \ ids, P \ ids)
    BY <1>1, <2>1, SettledBooks
  <2>3. P \ ids = P
    BY <1>2 DEF InState
  <2> QED
    BY <2>2, <2>3
<1>4. SettleStep(input, input', ids, "unanswered")
  <2>1. MaySettle(input, ids, "unanswered")
    BY <1>1, <1>2 DEF MaySettle, Books
  <2> QED
    BY <1>1, <2>1, SettledMoves
<1>5. Numbered(input')
  <2>1. \A i \in InputId : input[i].status = "absent" <=> input'[i].status = "absent"
    BY <1>2, <1>4 DEF SettleStep
  <2> QED
    BY <1>1, <2>1, NumberedStays
<1>6. Groups(task', P)
  BY <1>1, SameGroups
<1> QED
  BY <1>3, <1>4, <1>5, <1>6 DEF GoodStep, SettleStep

-------------------------------------------------------------------------------
(***************************************************************************)
(* The actions.                                                            *)
(***************************************************************************)
StepOK == GoodStep /\ TableStep /\ LogStep

\* A table of the same runs, taken as it is.
LEMMA SameMove ==
  ASSUME SameRuns(task, task')
  PROVE  TableStep
BY DEF SameRuns, TableStep, Evolves

LEMMA QueueOK ==
  ASSUME IInv, NEW mode \in Modes, Queue(mode)
  PROVE  StepOK
<1> DEFINE P == InState("placed")
           n == NextId
<1>1. /\ Books(input, inbox, P) /\ Numbered(input) /\ Groups(task, P) /\ TypeOK
      /\ task \in Table /\ input \in InputTable
  BY Before DEF IInv
<1>2. /\ n \in InputId /\ input[n].status = "absent"
      /\ (/\ input'[n].status # "absent"
          /\ \A i \in InputId \ {n} : input'[i].status = "absent" <=> input[i].status = "absent")
         => Numbered(input')
  BY <1>1, NextIdIsFree DEF Queue
<1>3. input' = [input EXCEPT ![n] = [status |-> "queued", mode |-> mode, waited |-> TRUE, answer |-> 0]]
      /\ inbox' = inbox \cup {n} /\ UNCHANGED <<entries, task, hurt, rounds, disruptions>>
  BY DEF Queue
<1> HIDE DEF n, P
<1>4. [status |-> "queued", mode |-> mode, waited |-> TRUE, answer |-> 0] \in InputRecord
  BY DEF InputRecord, Statuses
<1>5. /\ input' \in InputTable /\ \A i \in InputId \ {n} : input'[i] = input[i]
      /\ input'[n].status = "queued" /\ input'[n].waited /\ input'[n].answer = 0
  BY <1>1, <1>2, <1>3, <1>4 DEF InputTable
<1>6. Books(input', inbox', P)
  BY <1>1, <1>2, <1>3, <1>5 DEF Books
<1>7. Numbered(input')
  BY <1>2, <1>5
<1>8. \A i \in InputId : Moves(input[i], input'[i])
  BY <1>2, <1>5 DEF Moves
<1>9. GoodStep
  BY <1>1, <1>3, <1>6, <1>7, <1>8 DEF GoodStep
<1>10. TableStep
  BY <1>3, SameMove DEF SameRuns
<1>11. LogStep
  BY <1>1, <1>3, NothingAppended, BoundsKept, LogFrom
<1> QED
  BY <1>9, <1>10, <1>11 DEF StepOK

LEMMA WriteIdleOK ==
  ASSUME IInv, NEW mode \in Writing, WriteIdle(mode)
  PROVE  StepOK
<1> DEFINE P == InState("placed")
           n == NextId
<1>1. /\ Books(input, inbox, P) /\ Numbered(input) /\ Groups(task, P) /\ TypeOK
      /\ task \in Table /\ input \in InputTable
  BY Before DEF IInv
<1>2. /\ n \in InputId /\ input[n].status = "absent"
      /\ (/\ input'[n].status # "absent"
          /\ \A i \in InputId \ {n} : input'[i].status = "absent" <=> input[i].status = "absent")
         => Numbered(input')
  BY <1>1, NextIdIsFree DEF WriteIdle
<1>3. /\ input' = [input EXCEPT ![n] = [NoInput EXCEPT !.status = "done", !.mode = mode]]
      /\ entries' = Append(entries, [kind |-> mode, of |-> n])
      /\ UNCHANGED <<inbox, task, hurt, rounds, disruptions>>
  BY DEF WriteIdle
<1> HIDE DEF n, P
<1>4. LET r == [NoInput EXCEPT !.status = "done", !.mode = mode]
      IN /\ r \in InputRecord /\ r.status = "done" /\ r.mode = mode /\ r.answer = 0
  BY DEF NoInput, InputRecord, Statuses, Modes
<1>5. /\ input' \in InputTable /\ \A i \in InputId \ {n} : input'[i] = input[i]
      /\ input'[n].status = "done" /\ input'[n].answer = 0 /\ input'[n].mode = mode
  BY <1>1, <1>2, <1>3, <1>4 DEF InputTable
<1>6. Books(input', inbox', P)
  BY <1>1, <1>2, <1>3, <1>5 DEF Books
<1>7. Numbered(input')
  BY <1>2, <1>5
<1>8. \A i \in InputId : Moves(input[i], input'[i])
  BY <1>2, <1>5 DEF Moves
<1>9. GoodStep
  BY <1>1, <1>3, <1>6, <1>7, <1>8 DEF GoodStep
<1>10. TableStep
  BY <1>3, SameMove DEF SameRuns
<1>11. LogStep
  <2>1. [kind |-> mode, of |-> n] \in Entry
    BY <1>2 DEF Entry, Writing, InputId
  <2> QED
    BY <1>1, <1>3, <2>1, AppendIs, BoundsKept, LogFrom
<1> QED
  BY <1>9, <1>10, <1>11 DEF StepOK

LEMMA SendIdleOK ==
  ASSUME IInv, SendIdle
  PROVE  StepOK
<1> DEFINE P == InState("placed")
           n == NextId
<1>1. /\ Books(input, inbox, P) /\ Numbered(input) /\ Groups(task, P) /\ TypeOK
      /\ task \in Table /\ input \in InputTable /\ SameRuns(task, task)
  BY Before DEF IInv
<1>2. /\ n \in InputId /\ input[n].status = "absent"
      /\ (/\ input'[n].status # "absent"
          /\ \A i \in InputId \ {n} : input'[i].status = "absent" <=> input[i].status = "absent")
         => Numbered(input')
  BY <1>1, NextIdIsFree DEF SendIdle
<1>3. PICK B \in Selections("final") :
        /\ input' = [Moved(B) EXCEPT ![n] = [NoInput EXCEPT !.status = "placed"]]
        /\ Boundary(B)
        /\ entries' = entries \o Entries(B) \o <<[kind |-> "user", of |-> n]>>
        /\ Create(task, Generation(Triggers(B) \cup {n}))
  BY DEF SendIdle
<1>4. rounds' = rounds /\ disruptions' = disruptions
  BY DEF SendIdle
<1> DEFINE mid == Moved(B)
<1>5. /\ Books(mid, inbox', P \cup Triggers(B)) /\ Triggers(B) \cap P = {} /\ B \subseteq InputId
      /\ \A i \in InputId : /\ Moves(input[i], mid[i])
                            /\ input[i].status # "queued" => mid[i] = input[i]
                            /\ input[i].status = "queued" => mid[i].status # "absent"
  <2>1. inbox' = inbox \ (B \cup Stale)
    BY <1>3 DEF Boundary
  <2>2. KeepsBooks(B, P) /\ MovesOn(B)
    BY <1>1, MovedIs
  <2> HIDE DEF P
  <2> QED
    BY <2>1, <2>2 DEF KeepsBooks, MovesOn
<1>6. Triggers(B) \in SUBSET InputId /\ n \notin P /\ mid[n].status = "absent"
  BY <1>2, <1>5 DEF Triggers, InState
<1> HIDE DEF n, P, mid
<1>7. LET r == [NoInput EXCEPT !.status = "placed"]
      IN /\ r \in InputRecord /\ r.status = "placed" /\ r.mode \in Steering /\ r.answer = 0
  BY DEF NoInput, InputRecord, Statuses, Modes, Steering
<1>8. /\ input' \in InputTable /\ \A i \in InputId \ {n} : input'[i] = mid[i]
      /\ input'[n].status = "placed" /\ input'[n].answer = 0 /\ input'[n].mode \in Steering
  <2>1. mid \in InputTable /\ input' = [mid EXCEPT ![n] = [NoInput EXCEPT !.status = "placed"]]
    BY <1>3, <1>5 DEF Books, mid
  <2> QED
    BY <1>2, <1>7, <2>1 DEF InputTable
<1>9. Books(input', inbox', P \cup (Triggers(B) \cup {n}))
  BY <1>2, <1>5, <1>6, <1>8 DEF Books
<1>10. Numbered(input')
  BY <1>2, <1>5, <1>8
<1>11. \A i \in InputId : Moves(input[i], input'[i])
  <2>1. Moves(input[n], input'[n])
    BY <1>2, <1>8 DEF Moves
  <2> QED
    BY <1>5, <1>8, <2>1
<1> DEFINE ids == Triggers(B) \cup {n}
<1>12. ids \in SUBSET InputId /\ ids \cap P = {} /\ CreateFor(task, ids)
  BY <1>2, <1>3, <1>5, <1>6 DEF CreateFor, n
<1> HIDE DEF ids
<1>13. task' \in Table /\ Groups(task', P \cup ids)
  BY <1>1, <1>12, CreateForGroups
<1>14. GoodStep
  BY <1>9, <1>10, <1>11, <1>13 DEF GoodStep, ids
<1>15. TableStep
  <2>1. TableMove(task, task)
    BY DEF TableMove, Evolves
  <2> QED
    BY <1>1, <1>12, <2>1, CreateForMove, TableStepFrom
<1>16. LogStep
  <2>1. Entries(B) \in Seq(Entry)
    BY <1>1, <1>5, EntriesTyped
  <2>2. <<[kind |-> "user", of |-> n]>> \in Seq(Entry) /\ entries \in Seq(Entry)
    BY <1>1, <1>2 DEF Entry, InputId, TypeOK
  <2>3. Appends(Entries(B) \o <<[kind |-> "user", of |-> n]>>)
    BY <1>3, <2>1, <2>2 DEF Appends, n
  <2>4. hurt' = FALSE
    BY <1>3 DEF Boundary
  <2> QED
    BY <1>1, <1>4, <2>3, <2>4, BoundsKept, LogFrom
<1> QED
  BY <1>14, <1>15, <1>16 DEF StepOK

LEMMA WithdrawOK ==
  ASSUME IInv, NEW i \in InputId, Withdraw(i)
  PROVE  StepOK
<1>1. TypeOK /\ task \in Table /\ Books(input, inbox, InState("placed"))
  BY Before DEF IInv
<1>2. /\ input[i].status = "queued" /\ inbox' = inbox \ {i}
      /\ input' = Settled(input, {i}, "unanswered", 0)
      /\ UNCHANGED <<entries, task, hurt, rounds, disruptions>>
  BY DEF Withdraw
<1>3. {i} \in SUBSET inbox /\ SameOwners(task, task') /\ SameRuns(task, task')
  BY <1>1, <1>2 DEF Books, SameOwners, SameRuns
<1>4. GoodStep /\ TableStep
  BY <1>1, <1>2, <1>3, Withdrawn, SameMove
<1>5. LogStep
  BY <1>1, <1>2, NothingAppended, BoundsKept, LogFrom
<1> QED
  BY <1>4, <1>5 DEF StepOK

LEMMA AnswerFinalOK ==
  ASSUME IInv, NEW t \in TaskId, AnswerFinal(t)
  PROVE  StepOK
<1>1. /\ TypeOK /\ entries \in Seq(Entry) /\ input \in InputTable
      /\ task[t] \in TaskRecord /\ task[t].inputs \in SUBSET InputId
      /\ Books(input, inbox, InState("placed"))
  BY Before DEF TypeOK, IInv
<1> DEFINE said == Append(entries, [kind |-> "assistant", of |-> 0])
<1>2. PICK B \in Selections("final") :
        /\ Boundary(B)
        /\ \/ /\ Round /\ Triggers(B) = {}
              /\ entries' = Append(said \o Entries(B), [kind |-> "continue", of |-> 0])
              /\ Create(End(task, t), Generation(task[t].inputs))
              /\ input' = Moved(B)
           \/ /\ entries' = said \o Entries(B)
              /\ CreateFor(End(task, t), Triggers(B))
              /\ input' = Settled(Moved(B), task[t].inputs, "done", Len(entries) + 1)
              /\ UNCHANGED rounds
  BY DEF AnswerFinal, Answered
<1>3. disruptions' = disruptions
  BY DEF AnswerFinal
<1>4. B \subseteq InputId
  BY <1>1, MovedIs DEF KeepsBooks
<1>5. Entries(B) \in Seq(Entry)
  BY <1>1, <1>4, EntriesTyped
<1>6. GoodStep /\ TableStep
  <2>1. CASE input' = Moved(B)
             /\ Triggers(B) = {} /\ Create(End(task, t), Generation(task[t].inputs))
    <3> DEFINE r == Generation(task[t].inputs)
    <3>1. /\ r \in TaskRecord /\ Fresh(r) /\ r.live /\ r.kind = "pi.generation"
          /\ r.inputs = task[t].inputs
      BY <1>1, RecordsTyped DEF Generation, NoTask, Fresh
    <3>2. r.inputs = task[t].inputs \cup Triggers(B)
      BY <2>1, <3>1
    <3>3. Create(End(task, t), r)
      BY <2>1
    <3> HIDE DEF r
    <3> QED
      BY <1>2, <2>1, <3>1, <3>2, <3>3, CarriesOn
  <2>2. CASE /\ CreateFor(End(task, t), Triggers(B))
             /\ input' = Settled(Moved(B), task[t].inputs, "done", Len(entries) + 1)
    <3>1. Len(entries) + 1 \in Nat /\ Len(entries) + 1 # 0
      BY <1>1
    <3> QED
      BY <1>2, <2>2, <3>1, ClosesTurn
  <2> QED
    BY <1>2, <2>1, <2>2
<1>7. LogStep
  <2> DEFINE e == [kind |-> "assistant", of |-> 0]
             c == [kind |-> "continue", of |-> 0]
  <2>1. e \in Entry /\ c \in Entry
    BY DEF Entry
  <2> HIDE DEF e, c
  <2>2. said = entries \o <<e>> /\ <<e>> \in Seq(Entry) /\ <<c>> \in Seq(Entry)
    BY <1>1, <2>1, AppendIsConcat DEF e
  <2> HIDE DEF said
  <2>3. said \o Entries(B) = entries \o (<<e>> \o Entries(B)) /\ <<e>> \o Entries(B) \in Seq(Entry)
    BY <1>1, <1>5, <2>2, Associative
  <2>4. /\ Append(said \o Entries(B), c) = entries \o (<<e>> \o Entries(B) \o <<c>>)
        /\ <<e>> \o Entries(B) \o <<c>> \in Seq(Entry)
    <3> DEFINE u == <<e>> \o Entries(B)
    <3> HIDE DEF u
    <3>1. u \in Seq(Entry) /\ said \o Entries(B) = entries \o u
      BY <2>3 DEF u
    <3>2. entries \o u \in Seq(Entry)
      BY <1>1, <3>1
    <3>3. Append(entries \o u, c) = entries \o u \o <<c>>
      BY <2>1, <3>2, AppendIsConcat
    <3>4. entries \o u \o <<c>> = entries \o (u \o <<c>>) /\ u \o <<c>> \in Seq(Entry)
      BY <1>1, <2>2, <3>1, Associative
    <3> QED
      BY <3>1, <3>3, <3>4 DEF u
  <2>5. Appends(<<e>> \o Entries(B)) \/ Appends(<<e>> \o Entries(B) \o <<c>>)
    BY <1>2, <2>3, <2>4 DEF Appends, c, said
  <2>6. hurt' = FALSE /\ (Round \/ rounds' = rounds)
    BY <1>2 DEF Boundary
  <2>7. Bounds
    BY <1>1, <1>3, <2>6, BoundsKept
  <2> QED
    BY <2>5, <2>7, LogFrom
<1> QED
  BY <1>6, <1>7 DEF StepOK

LEMMA FailOK ==
  ASSUME IInv, NEW t \in TaskId, Fail(t)
  PROVE  StepOK
<1>1. /\ TypeOK /\ entries \in Seq(Entry) /\ input \in InputTable
      /\ Books(input, inbox, InState("placed"))
  BY Before DEF TypeOK, IInv
<1>2. PICK B \in Selections("final"), notice \in {<<>>, <<[kind |-> "notice", of |-> 0]>>} :
        /\ input' = Settled(Moved(B), task[t].inputs, "unanswered", 0)
        /\ Boundary(B)
        /\ entries' = entries \o notice \o Entries(B)
        /\ CreateFor(End(task, t), Triggers(B))
  BY DEF Fail
<1>3. rounds' = rounds /\ disruptions' = disruptions
  BY DEF Fail
<1>4. GoodStep /\ TableStep
  BY <1>2, ClosesTurn
<1>5. LogStep
  <2>1. Entries(B) \in Seq(Entry)
    <3>1. B \subseteq InputId
      BY <1>1, MovedIs DEF KeepsBooks
    <3> QED
      BY <1>1, <3>1, EntriesTyped
  <2>2. notice \in Seq(Entry)
    <3> DEFINE e == [kind |-> "notice", of |-> 0]
    <3>1. e \in Entry
      BY DEF Entry
    <3> HIDE DEF e
    <3>2. <<>> \in Seq(Entry) /\ <<e>> \in Seq(Entry)
      BY <3>1
    <3> QED
      BY <3>2 DEF e
  <2>3. Appends(notice \o Entries(B))
    <3>1. \A a, b, c \in Seq(Entry) : a \o b \o c = a \o (b \o c) /\ b \o c \in Seq(Entry)
      OBVIOUS
    <3>2. entries' = entries \o (notice \o Entries(B)) /\ notice \o Entries(B) \in Seq(Entry)
      BY <1>1, <1>2, <2>1, <2>2, <3>1
    <3> QED
      BY <3>2 DEF Appends
  <2>4. hurt' = FALSE
    BY <1>2 DEF Boundary
  <2> QED
    BY <1>1, <1>3, <2>3, <2>4, BoundsKept, LogFrom
<1> QED
  BY <1>4, <1>5 DEF StepOK

LEMMA CallToolsOK ==
  ASSUME IInv, NEW t \in TaskId, CallTools(t)
  PROVE  StepOK
<1> DEFINE P == InState("placed")
           f == End(task, t)
<1>1. /\ TypeOK /\ Groups(task, P) /\ task \in Table /\ SameRuns(task, task)
      /\ task[t].inputs \in SUBSET P /\ task[t].inputs \in SUBSET InputId
  BY Before DEF IInv
<1>2. PICK n \in CallId :
        LET s     == Places(f, n + 1)
            tools == {s[k] : k \in 1..n}
        IN /\ Room(f, n + 1)
           /\ entries' = Append(entries, [kind |-> "calls", of |-> n])
           /\ task' = [u \in TaskId |->
                IF u \in tools
                THEN [NoTask EXCEPT !.kind = "pi.tool", !.live = TRUE,
                                    !.call = CHOOSE k \in 1..n : s[k] = u]
                ELSE IF u = s[n + 1]
                THEN [NoTask EXCEPT !.kind = "pi.post_tools", !.live = TRUE, !.after = tools,
                                    !.inputs = task[t].inputs]
                ELSE f[u]]
  BY DEF CallTools
<1>3. Round /\ UNCHANGED <<input, inbox, hurt, disruptions>>
  BY DEF CallTools
<1> DEFINE s     == Places(f, n + 1)
           tools == {s[k] : k \in 1..n}
           last  == s[n + 1]
           tool(u) == [NoTask EXCEPT !.kind = "pi.tool", !.live = TRUE,
                                     !.call = CHOOSE k \in 1..n : s[k] = u]
           post  == [NoTask EXCEPT !.kind = "pi.post_tools", !.live = TRUE, !.after = tools,
                                   !.inputs = task[t].inputs]
<1>4. n \in Nat /\ n \in 1..MaxCalls /\ MaxCalls \in Nat
  BY InboxAssumption DEF CallId
<1>5. f \in Table /\ Groups(f, P \ task[t].inputs) /\ TableMove(task, f)
  BY <1>1, EndIs, EndGroups, EndMove
<1> HIDE DEF f, P
<1>6. s \in [1..(n + 1) -> Free(f)] /\ InOrder(s)
  <2>1. n + 1 \in Nat
    BY <1>4
  <2>2. Room(f, n + 1)
    BY <1>2, Zenon
  <2> QED
    BY <2>1, <2>2, PlacesAre
<1> HIDE DEF s
<1>7. tools \subseteq Free(f) /\ last \in Free(f) /\ last \notin tools
  BY <1>4, <1>6 DEF InOrder, Free, TaskId
<1>8. \A u \in Free(f) : u \in TaskId /\ f[u].inputs = {}
  BY DEF Free, NoTask
<1>9. \A u \in tools : tool(u) \in TaskRecord /\ tool(u).inputs = {} /\ Fresh(tool(u))
  <2> SUFFICES ASSUME NEW u \in tools
               PROVE  tool(u) \in TaskRecord /\ tool(u).inputs = {} /\ Fresh(tool(u))
    OBVIOUS
  <2> DEFINE k == CHOOSE j \in 1..n : s[j] = u
  <2>1. k \in 0..MaxCalls
    BY <1>4
  <2> HIDE DEF k
  <2>2. LET r == [NoTask EXCEPT !.kind = "pi.tool", !.live = TRUE, !.call = k]
        IN r \in TaskRecord /\ r.inputs = {} /\ Fresh(r)
    BY <2>1, RecordsTyped DEF NoTask, TaskRecord, Kinds, Fresh
  <2> QED
    BY <2>2 DEF k
<1>10. /\ post \in TaskRecord /\ post.inputs = task[t].inputs /\ post.live
       /\ post.kind = "pi.post_tools" /\ post.phase = "initial" /\ post.runs = 0
  <2>1. tools \subseteq TaskId
    BY <1>7, <1>8
  <2> HIDE DEF tools
  <2> QED
    BY <1>1, <2>1, RecordsTyped DEF NoTask, TaskRecord, Kinds
<1> HIDE DEF tools
<1>11. task' = [u \in TaskId |-> IF u \in tools THEN tool(u) ELSE IF u = last THEN post ELSE f[u]]
  BY <1>2 DEF tools, s
<1> HIDE DEF tool, post, last
<1>12. \A u \in TaskId : /\ u \in tools => task'[u] = tool(u)
                         /\ u = last => task'[u] = post
                         /\ u \notin tools /\ u # last => task'[u] = f[u]
  BY <1>7, <1>11
<1>13. task' \in Table
  <2>1. \A u \in TaskId : task'[u] \in TaskRecord
    BY <1>5, <1>9, <1>10, <1>12 DEF Table
  <2> QED
    BY <1>11, <2>1 DEF Table
<1>14. Groups(task', P)
  <2>1. \A u \in TaskId : task'[u].inputs = IF u = last THEN task[t].inputs ELSE f[u].inputs
    BY <1>7, <1>8, <1>9, <1>10, <1>12
  <2>2. \A u \in TaskId : /\ task'[u].inputs \subseteq P
                          /\ task'[u].inputs # {} => task'[u].live /\ task'[u].kind \in OwnerKinds
    <3> SUFFICES ASSUME NEW u \in TaskId
                 PROVE  /\ task'[u].inputs \subseteq P
                        /\ task'[u].inputs # {} => task'[u].live /\ task'[u].kind \in OwnerKinds
      OBVIOUS
    <3>1. CASE u = last
      BY <1>1, <1>10, <1>12, <3>1 DEF OwnerKinds
    <3>2. CASE u # last /\ u \in tools
      BY <1>9, <1>12, <3>2
    <3>3. CASE u # last /\ u \notin tools
      BY <1>5, <1>12, <3>3 DEF Groups
    <3> QED
      BY <3>1, <3>2, <3>3
  <2>3. \A u, v \in TaskId : u # v => task'[u].inputs \cap task'[v].inputs = {}
    BY <1>5, <2>1 DEF Groups
  <2>4. \A i \in P : \E u \in TaskId : i \in task'[u].inputs
    <3>1. \A i \in P \ task[t].inputs : \E u \in TaskId \ {last} : i \in f[u].inputs
      BY <1>5, <1>7, <1>8 DEF Groups
    <3> QED
      BY <1>7, <1>8, <2>1, <3>1
  <2> QED
    BY <2>2, <2>3, <2>4 DEF Groups
<1>15. GoodStep
  BY <1>3, <1>13, <1>14, OnlyTasks DEF P
<1> DEFINE e == [kind |-> "calls", of |-> n]
<1>16. e \in Entry /\ entries \in Seq(Entry)
  BY <1>1, <1>4 DEF Entry, TypeOK
<1>17. CallsAt' # {}
  <2>1. entries' = Append(entries, e)
    BY <1>2
  <2>2. Len(entries) + 1 \in DOMAIN entries' /\ entries'[Len(entries) + 1] = e
    BY <1>16, <2>1
  <2>3. e.kind = "calls"
    OBVIOUS
  <2> QED
    BY <2>2, <2>3 DEF CallsAt
<1>18. TableStep
  <2> SUFFICES ASSUME NEW u \in TaskId
               PROVE  \/ Evolves(task[u], task'[u])
                      \/ /\ task'[u].phase = "initial" /\ task'[u].runs = 0
                         /\ task'[u].kind = "pi.post_tools" => CallsAt' # {}
    BY DEF TableStep
  <2> QED
    BY <1>5, <1>9, <1>10, <1>12, <1>17 DEF TableMove, Fresh
<1>19. LogStep
  BY <1>1, <1>2, <1>3, <1>16, AppendIs, BoundsKept, LogFrom
<1> QED
  BY <1>15, <1>18, <1>19 DEF StepOK

LEMMA OverflowOK ==
  ASSUME IInv, NEW t \in TaskId, Overflow(t)
  PROVE  StepOK
<1> DEFINE P == InState("placed")
           f == End(task, t)
           s == Places(f, 2)
           collapse == [NoTask EXCEPT !.kind = "pi.collapse", !.live = TRUE]
           next == [Generation(task[t].inputs) EXCEPT !.after = {s[1]}]
           g == [f EXCEPT ![s[1]] = collapse]
<1>1. /\ TypeOK /\ Groups(task, P) /\ task \in Table /\ SameRuns(task, task)
      /\ task[t].inputs \in SUBSET P /\ task[t].inputs \in SUBSET InputId
  BY Before DEF IInv
<1>2. /\ Room(f, 2) /\ task' = [f EXCEPT ![s[1]] = collapse, ![s[2]] = next]
      /\ Round /\ UNCHANGED <<input, inbox, entries, hurt, disruptions>>
  BY DEF Overflow
<1>3. f \in Table /\ Groups(f, P \ task[t].inputs) /\ TableMove(task, f)
  BY <1>1, EndIs, EndGroups, EndMove
<1> HIDE DEF f, P
<1>4. s \in [1..2 -> Free(f)] /\ InOrder(s)
  BY <1>2, PlacesAre
<1> HIDE DEF s
<1>5. s[1] \in Free(f) /\ s[2] \in Free(f) /\ s[1] # s[2] /\ s[1] \in TaskId /\ s[2] \in TaskId
  BY <1>4 DEF InOrder, Free, TaskId
<1>6. collapse \in TaskRecord /\ collapse.inputs = {} /\ Fresh(collapse)
  BY RecordsTyped DEF NoTask, TaskRecord, Kinds, Fresh
<1>7. /\ next \in TaskRecord /\ next.inputs = task[t].inputs /\ Fresh(next)
      /\ next.live /\ next.kind \in OwnerKinds
  BY <1>1, <1>5, RecordsTyped DEF Generation, NoTask, TaskRecord, Kinds, Fresh, OwnerKinds
<1> HIDE DEF collapse, next
<1>8. g \in Table /\ Groups(g, P \ task[t].inputs)
  <2>1. collapse.inputs \cap (P \ task[t].inputs) = {}
        /\ (P \ task[t].inputs) \cup collapse.inputs = P \ task[t].inputs
    BY <1>6
  <2> QED
    BY <1>3, <1>5, <1>6, <2>1, PutGroups, ZenonT(60)
<1>9. /\ s[2] \in Free(g) /\ task' = [g EXCEPT ![s[2]] = next]
  BY <1>2, <1>3, <1>5 DEF Free, Table
<1>10. TableMove(task, g)
  BY <1>3, <1>5, <1>6 DEF TableMove, Table
<1> HIDE DEF g
<1>11. task' \in Table /\ Groups(task', P)
  <2>1. next.inputs \cap (P \ task[t].inputs) = {}
        /\ (P \ task[t].inputs) \cup next.inputs = P
    BY <1>1, <1>7
  <2>2. /\ [g EXCEPT ![s[2]] = next] \in Table
        /\ Groups([g EXCEPT ![s[2]] = next], (P \ task[t].inputs) \cup next.inputs)
    BY <1>7, <1>8, <1>9, <2>1, PutGroups
  <2> QED
    BY <1>9, <2>1, <2>2
<1>12. TableMove(task, task')
  BY <1>5, <1>7, <1>8, <1>9, <1>10 DEF TableMove, Table
<1>13. GoodStep /\ TableStep
  BY <1>2, <1>11, <1>12, OnlyTasks, TableStepFrom DEF P
<1>14. LogStep
  BY <1>1, <1>2, NothingAppended, BoundsKept, LogFrom
<1> QED
  BY <1>13, <1>14 DEF StepOK

\* A commit that changes the record of one task and leaves its group with it.
LEMMA RecordChanges ==
  ASSUME IInv, NEW t \in TaskId, NEW r \in TaskRecord, task' = [task EXCEPT ![t] = r],
         r.inputs = task[t].inputs, r.live = task[t].live, Evolves(task[t], r),
         UNCHANGED <<input, inbox>>
  PROVE  GoodStep /\ TableStep
<1>1. task \in Table /\ Groups(task, InState("placed"))
  BY Before DEF IInv
<1>2. task' \in Table /\ task'[t] = r /\ \A u \in TaskId \ {t} : task'[u] = task[u]
  BY <1>1 DEF Table
<1>3. SameOwners(task, task')
  BY <1>2 DEF SameOwners, Evolves
<1>4. Groups(task', InState("placed"))
  BY <1>1, <1>3, SameGroups
<1>5. TableStep
  BY <1>2 DEF TableStep, Evolves
<1> QED
  BY <1>2, <1>4, <1>5, OnlyTasks

\* The same, of a task that ends and has no group.
LEMMA Leaves ==
  ASSUME IInv, NEW t \in TaskId, task[t].kind \notin OwnerKinds, NEW f \in Table,
         SameRuns(task, f), SameOwners(task, f), task' = End(f, t), UNCHANGED <<input, inbox>>
  PROVE  GoodStep /\ TableStep
<1> DEFINE P == InState("placed")
<1>1. Groups(task, P) /\ Groups(f, P)
  BY SameGroups DEF IInv
<1>2. task[t].inputs = {} /\ f[t].inputs = {}
  BY <1>1 DEF Groups, SameOwners
<1> HIDE DEF P
<1>3. task' \in Table /\ Groups(task', P \ f[t].inputs)
  BY <1>1, EndIs, EndGroups
<1>4. P \ f[t].inputs = P
  BY <1>2
<1>5. TableStep
  BY EndMove, TableStepFrom
<1> QED
  BY <1>3, <1>4, <1>5, OnlyTasks DEF P

LEMMA CloseCollapseOK ==
  ASSUME IInv, NEW t \in TaskId, CloseCollapse(t)
  PROVE  StepOK
<1>1. /\ TypeOK /\ task \in Table /\ SameRuns(task, task) /\ SameOwners(task, task)
  BY Before DEF SameOwners
<1>2. /\ task[t].kind \notin OwnerKinds /\ task' = End(task, t)
      /\ UNCHANGED <<input, inbox, entries, hurt, rounds, disruptions>>
  BY DEF CloseCollapse, Runs, OwnerKinds
<1>3. GoodStep /\ TableStep
  BY <1>1, <1>2, Leaves
<1>4. LogStep
  BY <1>1, <1>2, NothingAppended, BoundsKept, LogFrom
<1> QED
  BY <1>3, <1>4 DEF StepOK

LEMMA CloseToolOK ==
  ASSUME IInv, NEW t \in TaskId, NEW control \in Controls, task[t].kind = "pi.tool",
         CloseTool(t, control)
  PROVE  StepOK
<1> DEFINE f == [task EXCEPT ![t].entry = TRUE, ![t].control = control]
           e == [kind |-> "result", of |-> task[t].call]
<1>1. TypeOK /\ task \in Table /\ task[t] \in TaskRecord
  BY Before
<1>2. f \in Table /\ SameRuns(task, f) /\ SameOwners(task, f)
  BY <1>1 DEF Table, TaskRecord, SameRuns, SameOwners
<1> HIDE DEF f
<1>3. /\ task' = End(f, t) /\ entries' = Append(entries, e)
      /\ UNCHANGED <<input, inbox, hurt, rounds, disruptions>>
  BY DEF CloseTool, f
<1>4. GoodStep /\ TableStep
  BY <1>2, <1>3, Leaves DEF OwnerKinds
<1>5. e \in Entry
  <2>1. task[t].call \in Nat
    BY <1>1, InboxAssumption DEF TaskRecord
  <2> QED
    BY <2>1 DEF Entry
<1> HIDE DEF e
<1>6. LogStep
  BY <1>1, <1>3, <1>5, AppendIs, BoundsKept, LogFrom
<1> QED
  BY <1>4, <1>6 DEF StepOK

LEMMA StartToolOK ==
  ASSUME IInv, NEW t \in TaskId, StartTool(t)
  PROVE  StepOK
<1> DEFINE r == [task[t] EXCEPT !.phase = "started"]
<1>1. TypeOK /\ task \in Table /\ task[t] \in TaskRecord
  BY Before
<1>2. /\ task[t].phase = "initial" /\ task' = [task EXCEPT ![t] = r]
      /\ UNCHANGED <<input, inbox, entries, hurt, rounds, disruptions>>
  BY <1>1 DEF StartTool, Table
<1>3. /\ r \in TaskRecord /\ r.inputs = task[t].inputs /\ r.live = task[t].live
      /\ Evolves(task[t], r)
  BY <1>1, <1>2 DEF TaskRecord, Phases, Evolves
<1> HIDE DEF r
<1>4. GoodStep /\ TableStep
  BY <1>2, <1>3, RecordChanges
<1>5. LogStep
  BY <1>1, <1>2, NothingAppended, BoundsKept, LogFrom
<1> QED
  BY <1>4, <1>5 DEF StepOK

LEMMA ExecuteOK ==
  ASSUME IInv, NEW t \in TaskId, Execute(t),
         \/ task[t].phase = "started"
         \/ task[t].phase = "interrupted" /\ task[t].call \in Safe
  PROVE  StepOK
<1> DEFINE r == [task[t] EXCEPT !.phase = "executing", !.runs = @ + 1]
<1>1. TypeOK /\ task \in Table /\ task[t] \in TaskRecord
  BY Before
<1>2. /\ task' = [task EXCEPT ![t] = r]
      /\ UNCHANGED <<input, inbox, entries, hurt, rounds, disruptions>>
  BY <1>1 DEF Execute, Table
<1>3. /\ r \in TaskRecord /\ r.inputs = task[t].inputs /\ r.live = task[t].live
      /\ Evolves(task[t], r)
  <2>1. task[t].runs + 1 \in Nat
    BY <1>1 DEF TaskRecord
  <2>2. /\ r \in TaskRecord /\ r.inputs = task[t].inputs /\ r.live = task[t].live
        /\ r.kind = task[t].kind /\ r.call = task[t].call
        /\ r.phase = "executing" /\ r.runs = task[t].runs + 1
    BY <1>1, <2>1 DEF TaskRecord, Phases
  <2> QED
    BY <2>2 DEF Evolves
<1> HIDE DEF r
<1>4. GoodStep /\ TableStep
  BY <1>2, <1>3, RecordChanges
<1>5. LogStep
  BY <1>1, <1>2, NothingAppended, BoundsKept, LogFrom
<1> QED
  BY <1>4, <1>5 DEF StepOK

LEMMA ToolOK ==
  ASSUME IInv, NEW t \in TaskId,
         RefuseTool(t) \/ StartTool(t) \/ ExecuteTool(t) \/ FinishTool(t) \/ RecoverTool(t)
  PROVE  StepOK
<1>1. CASE RefuseTool(t)
  BY <1>1, CloseToolOK DEF RefuseTool, Runs, Controls
<1>2. CASE StartTool(t)
  BY <1>2, StartToolOK
<1>3. CASE ExecuteTool(t)
  BY <1>3, ExecuteOK DEF ExecuteTool
<1>4. CASE FinishTool(t)
  BY <1>4, CloseToolOK DEF FinishTool, Runs
<1>5. CASE RecoverTool(t)
  BY <1>5, CloseToolOK, ExecuteOK DEF RecoverTool, Runs, Controls
<1> QED
  BY <1>1, <1>2, <1>3, <1>4, <1>5

\* What a closing commit of post_tools appends.
LEMMA JoinIs ==
  ASSUME IInv, NEW t \in TaskId, NEW at, NEW B \in Selections(at), Join(t, B)
  PROVE  Boundary(B) /\ LogStep
<1>1. /\ TypeOK /\ entries \in Seq(Entry) /\ input \in InputTable /\ task \in Table
      /\ Books(input, inbox, InState("placed"))
  BY Before DEF TypeOK, IInv
<1>2. /\ entries' = entries \o Synthesised(t) \o Handoff(t) \o Entries(B) /\ Boundary(B)
      /\ rounds' = rounds /\ disruptions' = disruptions
  BY DEF Join
<1>3. B \subseteq InputId
  BY <1>1, MovedIs DEF KeepsBooks
<1>4. Synthesised(t) \in Seq(Entry) /\ Handoff(t) \in Seq(Entry) /\ Entries(B) \in Seq(Entry)
  BY <1>1, <1>3, EntriesTyped, SynthesisedTyped, HandoffTyped
<1> DEFINE a == Synthesised(t)
           b == Handoff(t)
           c == Entries(B)
<1>5. Appends(a \o b \o c)
  <2>1. a \in Seq(Entry) /\ b \in Seq(Entry) /\ c \in Seq(Entry) /\ entries' = entries \o a \o b \o c
    BY <1>2, <1>4
  <2> HIDE DEF a, b, c
  <2>2. a \o b \o c \in Seq(Entry)
    BY <2>1
  <2>3. entries \o a \o b = entries \o (a \o b) /\ a \o b \in Seq(Entry)
    BY <1>1, <2>1
  <2>4. entries \o (a \o b) \o c = entries \o (a \o b \o c)
    BY <1>1, <2>1, <2>3
  <2> QED
    BY <2>1, <2>2, <2>3, <2>4 DEF Appends
<1>6. hurt' = FALSE
  BY <1>2 DEF Boundary
<1> QED
  BY <1>1, <1>2, <1>5, <1>6, BoundsKept, LogFrom

LEMMA PostToolsOK ==
  ASSUME IInv, NEW t \in TaskId, PostTools(t)
  PROVE  StepOK
<1>1. /\ TypeOK /\ entries \in Seq(Entry) /\ task[t] \in TaskRecord
      /\ task[t].inputs \in SUBSET InputId /\ Books(input, inbox, InState("placed")) /\ CallsBefore
  BY Before DEF TypeOK, IInv
<1>2. CASE EndAsked(t)
  <2>1. PICK B \in Selections("final") :
          /\ Join(t, B) /\ CreateFor(End(task, t), Triggers(B))
          /\ input' = Settled(Moved(B), task[t].inputs, "done", LastCalls)
    BY <1>2 DEF EndAsked
  <2>2. LastCalls \in Nat /\ LastCalls # 0
    <3>1. CallsAt # {}
      BY <1>1, <2>1 DEF CallsBefore, Join, Runs
    <3>2. CallsAt \subseteq 0..Len(entries) /\ Len(entries) \in Nat
      BY <1>1 DEF CallsAt
    <3>3. \E m \in CallsAt : \A i \in CallsAt : i <= m
      BY <3>1, <3>2, GreatestExists
    <3>4. LastCalls \in CallsAt
      BY <3>3 DEF LastCalls, CallsAt, Max
    <3> QED
      BY <1>1, <3>4 DEF CallsAt
  <2>3. Boundary(B) /\ LogStep
    BY <2>1, JoinIs
  <2> QED
    BY <2>1, <2>2, <2>3, ClosesTurn DEF StepOK
<1>3. CASE EndReset(t)
  <2>1. PICK B \in Selections("postTools") :
          /\ Join(t, B) /\ CreateFor(End(task, t), Triggers(B))
          /\ input' = Settled(Moved(B), task[t].inputs, "unanswered", 0)
    BY <1>3 DEF EndReset
  <2>2. Boundary(B) /\ LogStep
    BY <2>1, JoinIs
  <2> QED
    BY <2>1, <2>2, ClosesTurn DEF StepOK
<1>4. CASE CarryOn(t)
  <2>1. PICK B \in Selections("postTools") : CarryOnGroup(t, B)
    BY <1>4 DEF CarryOn
  <2> DEFINE ids == task[t].inputs \cup Triggers(B)
             r   == [Generation(ids) EXCEPT !.joins = TRUE]
  <2>2. Join(t, B) /\ input' = Moved(B) /\ Create(End(task, t), r)
    BY <2>1 DEF CarryOnGroup
  <2>3. ids \in SUBSET InputId
    <3>1. B \subseteq InputId
      BY <1>1, MovedIs DEF KeepsBooks
    <3> QED
      BY <1>1, <3>1 DEF Triggers
  <2> HIDE DEF ids
  <2>4. /\ r \in TaskRecord /\ Fresh(r) /\ r.live /\ r.kind = "pi.generation" /\ r.inputs = ids
    BY <2>3, RecordsTyped DEF Generation, NoTask, Fresh, TaskRecord
  <2> HIDE DEF r
  <2>5. r.inputs = task[t].inputs \cup Triggers(B)
    BY <2>4 DEF ids
  <2>6. Boundary(B) /\ LogStep
    BY <2>2, JoinIs
  <2> QED
    BY <2>2, <2>4, <2>5, <2>6, CarriesOn DEF StepOK
<1> QED
  BY <1>2, <1>3, <1>4 DEF PostTools

LEMMA MarkTaskOK ==
  ASSUME IInv, NEW t \in TaskId, MarkTask(t)
  PROVE  StepOK
<1> DEFINE r == [task[t] EXCEPT !.mark = TRUE]
<1>1. TypeOK /\ task \in Table /\ task[t] \in TaskRecord
  BY Before
<1>2. /\ task' = [task EXCEPT ![t] = r] /\ Disrupt
      /\ UNCHANGED <<input, inbox, entries, hurt, rounds>>
  BY <1>1 DEF MarkTask, Table
<1>3. /\ r \in TaskRecord /\ r.inputs = task[t].inputs /\ r.live = task[t].live
      /\ Evolves(task[t], r)
  BY <1>1 DEF TaskRecord, Evolves
<1> HIDE DEF r
<1>4. GoodStep /\ TableStep
  BY <1>2, <1>3, RecordChanges
<1>5. LogStep
  BY <1>1, <1>2, NothingAppended, BoundsKept, LogFrom
<1> QED
  BY <1>4, <1>5 DEF StepOK

LEMMA AbortConversationOK ==
  ASSUME IInv, AbortConversation
  PROVE  StepOK
<1> DEFINE ids == {i \in inbox : ModeIs(i, Steering)}
<1>1. TypeOK /\ task \in Table
  BY Before
<1>2. /\ inbox' = inbox \ ids /\ input' = Settled(input, ids, "unanswered", 0)
      /\ task' = [t \in TaskId |-> IF task[t].live THEN [task[t] EXCEPT !.mark = TRUE] ELSE task[t]]
      /\ Disrupt /\ UNCHANGED <<entries, hurt, rounds>>
  BY DEF AbortConversation
<1>3. ids \in SUBSET inbox
  OBVIOUS
<1> HIDE DEF ids
<1>4. \A t \in TaskId :
        /\ task'[t] \in TaskRecord /\ task'[t].inputs = task[t].inputs
        /\ task'[t].live = task[t].live /\ task'[t].kind = task[t].kind
        /\ task'[t].call = task[t].call /\ task'[t].phase = task[t].phase
        /\ task'[t].runs = task[t].runs
  <2> SUFFICES ASSUME NEW t \in TaskId
               PROVE  /\ task'[t] \in TaskRecord /\ task'[t].inputs = task[t].inputs
                      /\ task'[t].live = task[t].live /\ task'[t].kind = task[t].kind
                      /\ task'[t].call = task[t].call /\ task'[t].phase = task[t].phase
                      /\ task'[t].runs = task[t].runs
    OBVIOUS
  <2>1. task[t] \in TaskRecord /\ task'[t] \in {task[t], [task[t] EXCEPT !.mark = TRUE]}
    BY <1>1, <1>2 DEF Table
  <2>2. CASE task'[t] = task[t]
    BY <2>1, <2>2
  <2>3. CASE task'[t] = [task[t] EXCEPT !.mark = TRUE]
    BY <2>1, <2>3 DEF TaskRecord
  <2> QED
    BY <2>1, <2>2, <2>3
<1>5. task' \in Table
  BY <1>2, <1>4 DEF Table
<1>6. GoodStep /\ TableStep
  BY <1>2, <1>3, <1>4, <1>5, Withdrawn, SameMove DEF SameOwners, SameRuns
<1>7. LogStep
  BY <1>1, <1>2, NothingAppended, BoundsKept, LogFrom
<1> QED
  BY <1>6, <1>7 DEF StepOK

LEMMA AbortTaskOK ==
  ASSUME IInv, NEW t \in TaskId, AbortTask(t)
  PROVE  StepOK
<1>1. /\ TypeOK /\ task \in Table /\ task[t] \in TaskRecord /\ SameRuns(task, task)
      /\ SameOwners(task, task)
  BY Before DEF SameOwners
<1>2. /\ input' = Settled(input, task[t].inputs, "unanswered", 0)
      /\ hurt' = (hurt \/ IsTurn(t)) /\ UNCHANGED <<inbox, rounds, disruptions>>
  BY DEF AbortTask
<1>3. Bounds
  BY <1>1, <1>2, BoundsKept
<1>4. CASE task[t].kind = "pi.tool"
  <2> DEFINE f == [task EXCEPT ![t].entry = TRUE]
             e == [kind |-> "result", of |-> task[t].call]
  <2>1. task' = End(f, t) /\ entries' = Append(entries, e)
    BY <1>4 DEF AbortTask
  <2>2. f \in Table /\ SameRuns(task, f) /\ SameOwners(task, f)
    BY <1>1 DEF Table, TaskRecord, SameRuns, SameOwners
  <2>3. e \in Entry
    <3>1. task[t].call \in Nat
      BY <1>1, InboxAssumption DEF TaskRecord
    <3> QED
      BY <3>1 DEF Entry
  <2> HIDE DEF f, e
  <2>4. GoodStep /\ TableStep
    BY <1>2, <2>1, <2>2, GivesUp
  <2>5. LogStep
    BY <1>1, <1>3, <2>1, <2>3, AppendIs, LogFrom
  <2> QED
    BY <2>4, <2>5 DEF StepOK
<1>5. CASE task[t].kind # "pi.tool"
  <2>1. task' = End(task, t) /\ entries' = entries
    BY <1>5 DEF AbortTask
  <2>2. GoodStep /\ TableStep
    BY <1>1, <1>2, <2>1, GivesUp
  <2>3. LogStep
    BY <1>1, <1>3, <2>1, NothingAppended, LogFrom
  <2> QED
    BY <2>2, <2>3 DEF StepOK
<1> QED
  BY <1>4, <1>5

LEMMA FaultOK ==
  ASSUME IInv, NEW t \in TaskId, Fault(t)
  PROVE  StepOK
<1>1. /\ TypeOK /\ task \in Table /\ SameRuns(task, task) /\ SameOwners(task, task)
  BY Before DEF SameOwners
<1>2. /\ input' = Settled(input, task[t].inputs, "unanswered", 0) /\ task' = End(task, t)
      /\ hurt' = (hurt \/ IsTurn(t)) /\ Disrupt /\ UNCHANGED <<inbox, entries, rounds>>
  BY DEF Fault
<1>3. GoodStep /\ TableStep
  BY <1>1, <1>2, GivesUp
<1>4. LogStep
  BY <1>1, <1>2, NothingAppended, BoundsKept, LogFrom
<1> QED
  BY <1>3, <1>4 DEF StepOK

LEMMA CrashOK ==
  ASSUME IInv, Crash
  PROVE  StepOK
<1>1. TypeOK /\ task \in Table /\ Groups(task, InState("placed"))
  BY Before DEF IInv
<1>2. /\ task' = [t \in TaskId |->
           IF task[t].live /\ task[t].phase \in {"started", "executing"}
           THEN [task[t] EXCEPT !.phase = "interrupted"] ELSE task[t]]
      /\ Disrupt /\ UNCHANGED <<input, inbox, entries, hurt, rounds>>
  BY DEF Crash
<1>3. \A t \in TaskId :
        /\ task'[t] \in TaskRecord /\ task'[t].inputs = task[t].inputs
        /\ task'[t].live = task[t].live /\ task'[t].kind = task[t].kind
        /\ task'[t].call = task[t].call /\ task'[t].runs = task[t].runs
        /\ \/ task'[t].phase = task[t].phase
           \/ task[t].phase \in {"started", "executing"} /\ task'[t].phase = "interrupted"
  BY <1>1, <1>2 DEF Table, TaskRecord, Phases
<1>4. task' \in Table /\ SameOwners(task, task')
  BY <1>2, <1>3 DEF Table, SameOwners
<1>5. Groups(task', InState("placed"))
  BY <1>1, <1>4, SameGroups
<1>6. GoodStep /\ TableStep
  BY <1>2, <1>3, <1>4, <1>5, OnlyTasks DEF TableStep, Evolves
<1>7. LogStep
  BY <1>1, <1>2, NothingAppended, BoundsKept, LogFrom
<1> QED
  BY <1>6, <1>7 DEF StepOK

LEMMA StutterOK ==
  ASSUME IInv, UNCHANGED vars
  PROVE  StepOK
<1>1. TypeOK /\ task \in Table /\ Groups(task, InState("placed"))
  BY Before DEF IInv
<1>2. UNCHANGED <<input, inbox, entries, task, hurt, rounds, disruptions>>
  BY DEF vars
<1>3. GoodStep /\ TableStep
  BY <1>1, <1>2, OnlyTasks, SameMove DEF SameRuns
<1>4. LogStep
  BY <1>1, <1>2, NothingAppended, BoundsKept, LogFrom
<1> QED
  BY <1>3, <1>4 DEF StepOK

-------------------------------------------------------------------------------
(***************************************************************************)
(* The invariant holds, and what follows from it.                          *)
(***************************************************************************)
LEMMA InitOK == Init => IInv
<1> SUFFICES ASSUME Init PROVE IInv
  OBVIOUS
<1>1. /\ input = [i \in InputId |-> NoInput] /\ inbox = {} /\ entries = <<>>
      /\ task = [t \in TaskId |-> NoTask] /\ hurt = FALSE /\ rounds = 0 /\ disruptions = 0
  BY DEF Init
<1>2. \A i \in InputId : input[i] = NoInput /\ input[i].status = "absent" /\ input[i].answer = 0
  BY <1>1 DEF NoInput
<1>3. InState("placed") = {} /\ {i \in InputId : input[i].status = "queued"} = {}
  BY <1>2 DEF InState
<1>4. input \in InputTable /\ task \in Table
  BY <1>1, RecordsTyped DEF InputTable, Table
<1>5. TypeOK
  <2>1. entries \in Seq(Entry) /\ inbox \subseteq InputId
    BY <1>1
  <2>2. hurt \in BOOLEAN
    BY <1>1, Zenon
  <2>3. rounds \in 0..MaxRounds /\ disruptions \in 0..MaxDisruptions
    BY <1>1, InboxAssumption
  <2> QED
    BY <1>4, <2>1, <2>2, <2>3 DEF TypeOK, InputTable, Table
<1>6. Books(input, inbox, InState("placed"))
  BY <1>1, <1>2, <1>3, <1>4 DEF Books
<1>7. Numbered(input)
  <2>1. {i \in InputId : input[i].status # "absent"} = 1..0 /\ 0 \in 0..MaxInputs
    BY <1>2, InboxAssumption
  <2> QED
    BY <2>1 DEF Numbered
<1>8. \A t \in TaskId : /\ task[t].inputs = {} /\ task[t].runs = 0
                        /\ task[t].kind = "none"
  BY <1>1 DEF NoTask
<1>9. Groups(task, InState("placed")) /\ ToolRuns /\ CallsBefore
  BY <1>3, <1>8 DEF Groups, ToolRuns, CallsBefore
<1> QED
  BY <1>5, <1>6, <1>7, <1>9 DEF IInv

\* Every step is a good one.
LEMMA StepIsOK == IInv /\ [Next]_vars => StepOK
<1> SUFFICES ASSUME IInv, [Next]_vars PROVE StepOK
  OBVIOUS
<1>1. CASE Send
  BY <1>1, SendIdleOK, QueueOK DEF Send, Modes
<1>2. CASE Write
  BY <1>2, WriteIdleOK, QueueOK DEF Write, Modes
<1>3. CASE \E i \in InputId : Withdraw(i)
  BY <1>3, WithdrawOK
<1>4. ASSUME NEW t \in TaskId, Progress(t) PROVE StepOK
  <2>1. CASE AnswerFinal(t) \/ CallTools(t) \/ Fail(t) \/ Overflow(t) \/ CloseCollapse(t)
    BY <2>1, AnswerFinalOK, CallToolsOK, FailOK, OverflowOK, CloseCollapseOK
  <2>2. CASE RefuseTool(t) \/ StartTool(t) \/ ExecuteTool(t) \/ FinishTool(t) \/ RecoverTool(t)
    BY <2>2, ToolOK
  <2>3. CASE PostTools(t) \/ AbortTask(t)
    BY <2>3, PostToolsOK, AbortTaskOK
  <2> QED
    BY <1>4, <2>1, <2>2, <2>3 DEF Progress
<1>5. CASE \E t \in TaskId : MarkTask(t) \/ Fault(t)
  BY <1>5, MarkTaskOK, FaultOK
<1>6. CASE AbortConversation \/ Crash
  BY <1>6, AbortConversationOK, CrashOK
<1>7. CASE UNCHANGED vars
  BY <1>7, StutterOK
<1> QED
  BY <1>1, <1>2, <1>3, <1>4, <1>5, <1>6, <1>7 DEF Next

LEMMA Inductive == IInv /\ [Next]_vars => IInv'
<1> SUFFICES ASSUME IInv, [Next]_vars PROVE IInv'
  OBVIOUS
<1>1. GoodStep /\ TableStep /\ LogStep
  BY StepIsOK DEF StepOK
<1>2. PICK P : Books(input', inbox', P) /\ Groups(task', P)
  BY <1>1 DEF GoodStep
<1>3. P = InState("placed")'
  BY <1>2 DEF Books, InState
<1>4. task' \in Table /\ task \in Table /\ TypeOK
  BY <1>1, Before DEF GoodStep
<1>5. PICK s \in Seq(Entry) : entries' = entries \o s
  BY <1>1 DEF LogStep
<1>6. entries \in Seq(Entry) /\ entries' \in Seq(Entry)
  BY <1>4, <1>5 DEF TypeOK
<1>7. TypeOK'
  <2>1. input' \in InputTable /\ inbox' \subseteq InputId
    BY <1>2 DEF Books
  <2> QED
    BY <1>1, <1>4, <1>6, <2>1 DEF TypeOK, LogStep, InputTable, Table
<1>8. ToolRuns'
  <2> SUFFICES ASSUME NEW t \in TaskId
               PROVE  /\ task'[t].phase \in {"initial", "started"} => task'[t].runs = 0
                      /\ task'[t].call \notin Safe => task'[t].runs <= 1
    BY DEF ToolRuns
  <2>1. /\ task[t].phase \in {"initial", "started"} => task[t].runs = 0
        /\ task[t].call \notin Safe => task[t].runs <= 1
    BY DEF IInv, ToolRuns
  <2>2. task[t].runs \in Nat /\ task'[t].runs \in Nat /\ task[t].phase \in Phases
    BY <1>4 DEF Table, TaskRecord
  <2> QED
    BY <1>1, <2>1, <2>2 DEF TableStep, Evolves, Phases
<1>9. CallsBefore'
  <2>1. CallsAt # {} => CallsAt' # {}
    <3>1. \A p \in DOMAIN entries : p \in DOMAIN entries' /\ entries'[p] = entries[p]
      BY <1>5, <1>6
    <3> QED
      BY <3>1 DEF CallsAt
  <2>2. \A t \in TaskId : task[t].kind = "pi.post_tools" => CallsAt # {}
    BY DEF IInv, CallsBefore
  <2>3. \A t \in TaskId : task'[t].kind = "pi.post_tools" => CallsAt' # {}
    BY <1>1, <2>1, <2>2 DEF TableStep, Evolves
  <2> QED
    BY <2>3 DEF CallsBefore
<1> QED
  BY <1>1, <1>2, <1>3, <1>7, <1>8, <1>9 DEF IInv, GoodStep

\* The state and the transcript keep their types.
THEOREM TypeCorrect == Spec => []TypeOK
<1>1. IInv => TypeOK
  BY DEF IInv
<1> QED
  BY <1>1, InitOK, Inductive, PTL DEF Spec

\* The inbox and the stored inputs agree on what is queued.
THEOREM InboxAgrees == Spec => []InboxIsQueued
<1>1. IInv => InboxIsQueued
  BY DEF IInv, Books, InboxIsQueued, InState
<1> QED
  BY <1>1, InitOK, Inductive, PTL DEF Spec

\* A tool that may not be replayed runs at most once for a call.
THEOREM ToolsOnce == Spec => []UnsafeToolOnce
<1>1. IInv => UnsafeToolOnce
  BY DEF IInv, ToolRuns, UnsafeToolOnce
<1> QED
  BY <1>1, InitOK, Inductive, PTL DEF Spec

\* A placed input belongs to exactly one live generation or post_tools, any
\* other input to none.
THEOREM OneOwner == Spec => []OwnedOnce
<1>1. ASSUME IInv PROVE OwnedOnce
  <2> DEFINE P == InState("placed")
  <2>1. Groups(task, P)
    BY <1>1 DEF IInv
  <2> SUFFICES ASSUME NEW i \in InputId
               PROVE  /\ Cardinality(Owners(i)) = IF input[i].status = "placed" THEN 1 ELSE 0
                      /\ \A t \in Owners(i) : task[t].kind \in {"pi.generation", "pi.post_tools"}
    BY DEF OwnedOnce
  <2>2. i \in P <=> input[i].status = "placed"
    BY DEF InState
  <2> HIDE DEF P
  <2>3. \A t \in Owners(i) : task[t].kind \in {"pi.generation", "pi.post_tools"}
    BY <2>1 DEF Groups, Owners, OwnerKinds
  <2>4. CASE i \in P
    <3>1. PICK t \in TaskId : i \in task[t].inputs
      BY <2>1, <2>4 DEF Groups
    <3>2. Owners(i) = {t}
      BY <2>1, <3>1 DEF Groups, Owners
    <3> QED
      BY <2>2, <2>3, <2>4, <3>2, FS_Singleton
  <2>5. CASE i \notin P
    <3>1. Owners(i) = {}
      BY <2>1, <2>5 DEF Groups, Owners
    <3> QED
      BY <2>2, <2>3, <2>5, <3>1, FS_EmptySet
  <2> QED
    BY <2>4, <2>5
<1> QED
  BY <1>1, InitOK, Inductive, PTL DEF Spec

\* The record that InputLifecycle keeps of an input, and what may become of it.
View(r) == [status |-> r.status, write |-> r.status # "absent" /\ r.mode \in Writing,
            answered |-> r.answer # 0]

Accepts(a, b) ==
  /\ a.status = "absent"
  /\ \E write \in BOOLEAN : \E status \in {"queued", IF write THEN "done" ELSE "placed"} :
       b = [status |-> status, write |-> write, answered |-> FALSE]

PlacesOne(a, b) ==
  /\ a.status = "queued"
  /\ b = [a EXCEPT !.status = IF a.write THEN "done" ELSE "placed"]

Answers(a, b) ==
  /\ a.status = "placed"
  /\ b = [status |-> "done", write |-> a.write, answered |-> TRUE]

GivesUpOne(a, b) ==
  /\ a.status \in {"queued", "placed"}
  /\ b = [a EXCEPT !.status = "unanswered"]

LEMMA MovesAreSteps ==
  ASSUME NEW r \in InputRecord, NEW s \in InputRecord, Moves(r, s), r.status # "done" => r.answer = 0
  PROVE  LET a == View(r)
             b == View(s)
         IN b = a \/ Accepts(a, b) \/ PlacesOne(a, b) \/ Answers(a, b) \/ GivesUpOne(a, b)
<1>1. CASE s = r
  BY <1>1
<1>2. CASE r.status = "absent" /\ s.answer = 0 /\ s.status \in {"queued", "placed", "done"}
           /\ (s.status = "placed" => s.mode \in Steering) /\ (s.status = "done" => s.mode \in Writing)
  <2> DEFINE write == s.mode \in Writing
  <2>1. View(r).status = "absent"
    BY <1>2 DEF View
  <2>2. View(s) = [status |-> s.status, write |-> write, answered |-> FALSE]
    <3>1. s.status # "absent" /\ ~(s.answer # 0)
      BY <1>2
    <3>2. (s.status # "absent" /\ s.mode \in Writing) = write /\ (s.answer # 0) = FALSE
      BY <3>1
    <3> QED
      BY <3>2, Zenon DEF View
  <2>3. s.status \in {"queued", IF write THEN "done" ELSE "placed"} /\ write \in BOOLEAN
    BY <1>2 DEF Writing, Steering
  <2> HIDE DEF write
  <2> QED
    BY <2>1, <2>2, <2>3 DEF Accepts
<1>3. CASE /\ s.mode = r.mode /\ s.answer = r.answer /\ r.status = "queued"
           /\ \/ s.status = "placed" /\ s.mode \in Steering
              \/ s.status = "done" /\ s.mode \in Writing
  <2>1. View(r).status = "queued" /\ View(r).write = (s.mode \in Writing)
    BY <1>3 DEF View
  <2>2. View(s) = [View(r) EXCEPT !.status = s.status]
    BY <1>3 DEF View
  <2>3. s.status = IF View(r).write THEN "done" ELSE "placed"
    BY <1>3, <2>1 DEF Writing, Steering
  <2> QED
    BY <2>1, <2>2, <2>3 DEF PlacesOne
<1>4. CASE s.mode = r.mode /\ r.status = "placed" /\ s.status = "done" /\ s.answer # 0
  <2> DEFINE w == s.mode \in Writing
  <2>1. View(r) = [status |-> "placed", write |-> w, answered |-> r.answer # 0]
    <3>1. (r.status # "absent" /\ r.mode \in Writing) = w
      BY <1>4
    <3> QED
      BY <1>4, <3>1, Zenon DEF View
  <2>2. View(s) = [status |-> "done", write |-> w, answered |-> TRUE]
    <3>1. (s.status # "absent" /\ s.mode \in Writing) = w /\ (s.answer # 0) = TRUE
      BY <1>4
    <3> QED
      BY <1>4, <3>1, Zenon DEF View
  <2> HIDE DEF w
  <2> QED
    BY <2>1, <2>2 DEF Answers
<1>5. CASE /\ s.mode = r.mode /\ r.status \in {"queued", "placed"}
           /\ s.status = "unanswered" /\ s.answer = r.answer
  BY <1>5 DEF View, GivesUpOne
<1> QED
  BY <1>1, <1>2, <1>3, <1>4, <1>5 DEF Moves

\* The life of every input is the one that InputLifecycle describes.
THEOREM Refinement == Spec => FollowsInputLifecycle
<1> DEFINE view == [i \in InputId |->
             [status |-> input[i].status, write |-> input[i].status # "absent" /\ ModeIs(i, Writing),
              answered |-> input[i].answer # 0]]
<1>1. ASSUME Init PROVE Lifecycle!Init
  BY <1>1 DEF Init, Lifecycle!Init, NoInput
<1>2. ASSUME IInv, [Next]_vars PROVE [Lifecycle!Next]_view
  <2>1. \A i \in InputId : Moves(input[i], input'[i])
    BY <1>2, StepIsOK DEF StepOK, GoodStep
  <2>2. input \in InputTable /\ input' \in InputTable /\ Books(input, inbox, InState("placed"))
    BY <1>2, Before, Inductive DEF IInv, Books
  <2>3. ASSUME NEW i \in InputId
        PROVE  \/ view'[i] = view[i] \/ Lifecycle!Accept(i) \/ Lifecycle!Place(i)
               \/ Lifecycle!Answer(i) \/ Lifecycle!GiveUp(i)
    <3>1. view[i] = View(input[i]) /\ view'[i] = View(input'[i])
      BY DEF View, ModeIs
    <3>2. /\ input[i] \in InputRecord /\ input'[i] \in InputRecord
          /\ input[i].status # "done" => input[i].answer = 0
      BY <2>2 DEF InputTable, Books
    <3> DEFINE a == View(input[i])
               b == View(input'[i])
    <3>3. b = a \/ Accepts(a, b) \/ PlacesOne(a, b) \/ Answers(a, b) \/ GivesUpOne(a, b)
      BY <2>1, <3>2, MovesAreSteps
    <3> HIDE DEF a, b
    <3>4. view[i] = a /\ view'[i] = b
      BY <3>1 DEF a, b
    <3>5. CASE Accepts(a, b)
      BY <3>4, <3>5, Zenon DEF Accepts, Lifecycle!Accept
    <3>6. CASE PlacesOne(a, b)
      BY <3>4, <3>6, Zenon DEF PlacesOne, Lifecycle!Place
    <3>7. CASE Answers(a, b)
      BY <3>4, <3>7, Zenon DEF Answers, Lifecycle!Answer
    <3>8. CASE GivesUpOne(a, b)
      BY <3>4, <3>8, Zenon DEF GivesUpOne, Lifecycle!GiveUp
    <3> QED
      BY <3>3, <3>4, <3>5, <3>6, <3>7, <3>8
  <2>4. DOMAIN view' = InputId
    OBVIOUS
  <2> QED
    BY <2>3, <2>4 DEF Lifecycle!Next
<1> QED
  BY <1>1, <1>2, InitOK, Inductive, PTL DEF Spec, FollowsInputLifecycle, Lifecycle!Spec
=============================================================================
