-------------------------- MODULE JsonlStorageProofs --------------------------
(***************************************************************************)
(* Proofs about JsonlStorage, for every set of tasks and every bound: its  *)
(* variables keep their types; and, as long as no batch both patches a     *)
(* task and ends it, the directory can be opened at every instant and the  *)
(* files implement the table of AtomicStorage.                             *)
(***************************************************************************)
EXTENDS JsonlStorage, NaturalSets, SequenceTheorems
-------------------------------------------------------------------------------
(***************************************************************************)
(* Pieces of files.                                                        *)
(***************************************************************************)

LEMMA PieceIs ==
  ASSUME NEW X, NEW s \in Seq(X), NEW m \in 1..(Len(s) + 1), NEW n \in 0..Len(s), m <= n + 1
  PROVE  /\ SubSeq(s, m, n) \in Seq(X)
         /\ Len(SubSeq(s, m, n)) = n + 1 - m
         /\ \A i \in 1..(n + 1 - m) : SubSeq(s, m, n)[i] = s[m + i - 1]
<1>1. \A i \in m..n : s[i] \in X
  OBVIOUS
<1>2. m \in Int /\ n \in Int
  OBVIOUS
<1>3. /\ SubSeq(s, m, n) \in Seq(X)
      /\ Len(SubSeq(s, m, n)) = IF m <= n THEN n - m + 1 ELSE 0
      /\ \A i \in 1..(n - m + 1) : SubSeq(s, m, n)[i] = s[m + i - 1]
  BY <1>1, <1>2, SubSeqProperties
<1> QED
  BY <1>2, <1>3

LEMMA BeginningIs ==
  ASSUME NEW X, NEW s \in Seq(X), NEW n \in 0..Len(s)
  PROVE  /\ SubSeq(s, 1, n) \in Seq(X)
         /\ Len(SubSeq(s, 1, n)) = n
         /\ \A i \in 1..n : SubSeq(s, 1, n)[i] = s[i]
<1>1. 1 \in 1..(Len(s) + 1) /\ 1 <= n + 1 /\ n + 1 - 1 = n
  OBVIOUS
<1>2. /\ SubSeq(s, 1, n) \in Seq(X)
      /\ Len(SubSeq(s, 1, n)) = n + 1 - 1
      /\ \A i \in 1..(n + 1 - 1) : SubSeq(s, 1, n)[i] = s[1 + i - 1]
  BY <1>1, PieceIs
<1>3. \A i \in 1..n : 1 + i - 1 = i
  OBVIOUS
<1> QED
  BY <1>1, <1>2, <1>3

LEMMA TruncateTornIs ==
  ASSUME NEW X, NEW s \in Seq(X)
  PROVE  /\ TruncateTorn(s) \in Seq(X)
         /\ \/ TruncateTorn(s) = s
            \/ /\ s # <<>> /\ s[Len(s)].seq = 0
               /\ Len(TruncateTorn(s)) = Len(s) - 1
         /\ \A i \in DOMAIN TruncateTorn(s) : i \in DOMAIN s /\ TruncateTorn(s)[i] = s[i]
<1>1. CASE s # <<>> /\ s[Len(s)].seq = 0
  <2>1. TruncateTorn(s) = SubSeq(s, 1, Len(s) - 1)
    BY <1>1 DEF TruncateTorn, Last, Front
  <2>2. Len(s) - 1 \in 0..Len(s)
    BY <1>1
  <2>3. /\ SubSeq(s, 1, Len(s) - 1) \in Seq(X)
        /\ Len(SubSeq(s, 1, Len(s) - 1)) = Len(s) - 1
        /\ \A i \in 1..(Len(s) - 1) : SubSeq(s, 1, Len(s) - 1)[i] = s[i]
    BY <2>2, BeginningIs
  <2> QED
    BY <1>1, <2>1, <2>2, <2>3
<1>2. CASE ~(s # <<>> /\ s[Len(s)].seq = 0)
  BY <1>2 DEF TruncateTorn, Last
<1> QED
  BY <1>1, <1>2

\* A file without a torn tail is left as it is.
LEMMA CleanIsWhole ==
  ASSUME NEW X, NEW s \in Seq(X), \A i \in DOMAIN s : s[i].seq # 0
  PROVE  TruncateTorn(s) = s
BY DEF TruncateTorn, Last

LEMMA TornIsCut ==
  ASSUME NEW X, NEW s \in Seq(X), NEW r \in X, r.seq = 0
  PROVE  TruncateTorn(Append(s, r)) = s
<1> DEFINE a == Append(s, r)
<1>1. a \in Seq(X) /\ a # <<>> /\ Len(a) = Len(s) + 1 /\ a[Len(a)] = r
  OBVIOUS
<1>2. TruncateTorn(a) = SubSeq(a, 1, Len(s))
  BY <1>1 DEF TruncateTorn, Last, Front
<1>3. /\ SubSeq(a, 1, Len(s)) \in Seq(X)
      /\ Len(SubSeq(a, 1, Len(s))) = Len(s)
      /\ \A i \in 1..Len(s) : SubSeq(a, 1, Len(s))[i] = a[i]
  <2>1. Len(s) \in 0..Len(a)
    BY <1>1
  <2> HIDE DEF a
  <2> QED
    BY <1>1, <2>1, BeginningIs
<1>4. \A i \in 1..Len(s) : a[i] = s[i]
  OBVIOUS
<1> HIDE DEF a
<1>5. TruncateTorn(a) = s
  BY <1>2, <1>3, <1>4
<1> QED
  BY <1>5 DEF a

-------------------------------------------------------------------------------
(***************************************************************************)
(* The inductive invariant.                                                *)
(***************************************************************************)
Log == TruncateTorn(main)

\* The commits in main are numbered one by one.
Numbered(mc) == \A p \in DOMAIN mc : mc[p].seq = p

\* A sidecar file has increasing numbers: of commits that name it, and of the
\* commit after the last one.
Ordered(mc, file, f) ==
  /\ \A i, j \in DOMAIN file : i < j => file[i].seq < file[j].seq
  /\ \A i \in DOMAIN file :
       \/ file[i].seq = Len(mc) + 1
       \/ file[i].seq \in DOMAIN mc /\ f \in mc[file[i].seq].refs

\* A task is patched after it was created and before it ends.
Patched(mc) ==
  \A p \in DOMAIN mc : \A t \in mc[p].refs \cap Task :
    /\ \E c \in 1..p : t \in mc[c].create
    /\ \A e \in DOMAIN mc : t \in mc[e].end => p < e

\* What main names is in the file, unless a later base or an end made it
\* superfluous.
Kept(mc, file, f) ==
  \A p \in DOMAIN mc : f \in mc[p].refs =>
    \/ \E i \in DOMAIN file : file[i].seq = p
    \/ f = Sticky /\ file # <<>> /\ file[1].base /\ p < file[1].seq /\ file[1].seq <= Len(mc)
    \/ f \in Task /\ \E e \in DOMAIN mc : f \in mc[e].end

LogGood(mc) == mc \in Seq(MainRecord) /\ Numbered(mc) /\ Patched(mc)

FileGood(mc, file, f) ==
  file \in Seq(SidecarRecord) /\ Ordered(mc, file, f) /\ Kept(mc, file, f)

FilesGood == LogGood(Log) /\ \A f \in Sidecar : FileGood(Log, Whole[f], f)

\* An open storage has whole files and tables that replay would give.
Serving == up => main = Log /\ sidecar = Whole /\ mem = Replayed(main, sidecar)

\* The records of the commit that main does not have yet.
Unpublished(mc, file) == {r \in Records(file) : r.seq = Len(mc) + 1}

Staged(mc, b, f) == [seq |-> Len(mc) + 1, base |-> f = Sticky /\ b.sticky = "base"]

OpGood ==
  /\ op.stage = "append" =>
       /\ up /\ mem.seq < MaxSeq
       /\ Atomic!Accepts(mem, op.batch)
       /\ \A f \in Sidecar : Unpublished(Log, sidecar[f]) =
            IF f \in Refs(op.batch) \ op.left THEN {Staged(Log, op.batch, f)} ELSE {}
  /\ op.stage = "retire" => up /\ \A t \in op.left : Ends(Log, t) # {}
  /\ up /\ op.stage # "append" => \A f \in Sidecar : Unpublished(Log, sidecar[f]) = {}

IInv == TypeOK /\ FilesGood /\ Serving /\ OpGood

LEMMA NumberIsNat ==
  ASSUME NEW file \in Seq(SidecarRecord), NEW i \in DOMAIN file
  PROVE  file[i].seq \in Nat /\ file[i].base \in BOOLEAN /\ i \in Nat
<1>1. file[i] \in SidecarRecord /\ i \in 1..Len(file) /\ Len(file) \in Nat
  OBVIOUS
<1> QED
  BY <1>1, StorageAssumption DEF SidecarRecord

-------------------------------------------------------------------------------
(***************************************************************************)
(* What replay finds in a numbered log.                                    *)
(***************************************************************************)
\* A record is confirmed when the commit of its number names the file.
LEMMA ConfirmedIs ==
  ASSUME NEW mc \in Seq(MainRecord), Numbered(mc), NEW f, NEW r
  PROVE  Confirmed(mc, f, r) <=> r.seq \in DOMAIN mc /\ f \in mc[r.seq].refs
BY DEF Confirmed, Records, Numbered

LEMMA EndsIs ==
  ASSUME NEW mc \in Seq(MainRecord), Numbered(mc), NEW t
  PROVE  /\ Ends(mc, t) = {p \in DOMAIN mc : t \in mc[p].end}
         /\ Creations(mc, t) = {p \in DOMAIN mc : t \in mc[p].create}
BY DEF Ends, Creations, Records, Numbered

LEMMA ConfirmedSeqsIs ==
  ASSUME NEW mc \in Seq(MainRecord), Numbered(mc), NEW sc, NEW f
  PROVE  ConfirmedSeqs(mc, sc, f) =
           {p \in DOMAIN mc : f \in mc[p].refs /\ \E i \in DOMAIN sc[f] : sc[f][i].seq = p}
<1>1. \A r : Confirmed(mc, f, r) <=> r.seq \in DOMAIN mc /\ f \in mc[r.seq].refs
  BY ConfirmedIs
<1> QED
  BY <1>1 DEF ConfirmedSeqs, Records

LEMMA StatusIs ==
  ASSUME NEW mc \in Seq(MainRecord), Numbered(mc), NEW sc, NEW t
  PROVE  LET status == ReplayedTask(mc, sc, t).status
         IN  /\ status = "terminal" <=> \E p \in DOMAIN mc : t \in mc[p].end
             /\ status = "absent" <=> \A p \in DOMAIN mc : t \notin mc[p].end /\ t \notin mc[p].create
             /\ status = "live" <=> /\ \A p \in DOMAIN mc : t \notin mc[p].end
                                    /\ \E p \in DOMAIN mc : t \in mc[p].create
BY EndsIs DEF ReplayedTask

\* The directory that the invariant describes can be opened.
LEMMA GoodFilesReplay ==
  ASSUME NEW mc, NEW w \in [Sidecar -> Seq(SidecarRecord)],
         LogGood(mc), \A f \in Sidecar : FileGood(mc, w[f], f)
  PROVE  ~ReplayFails(mc, w)
<1>1. mc \in Seq(MainRecord) /\ Numbered(mc) /\ Patched(mc)
  BY DEF LogGood
<1>2. \A p \in DOMAIN mc : mc[p].seq = p /\ p > 0
  BY <1>1 DEF Numbered
<1>3. \A f, r : Confirmed(mc, f, r) <=> r.seq \in DOMAIN mc /\ f \in mc[r.seq].refs
  BY <1>1, ConfirmedIs
<1>4. ~Malformed(mc)
  BY <1>1, <1>2 DEF Malformed
<1>5. ASSUME NEW f \in Sidecar
      PROVE  /\ ~Malformed(w[f])
             /\ ~\E i, j \in DOMAIN w[f] :
                   i < j /\ ~Confirmed(mc, f, w[f][i]) /\ Confirmed(mc, f, w[f][j])
  <2>1. w[f] \in Seq(SidecarRecord) /\ Ordered(mc, w[f], f)
    BY DEF FileGood
  <2>2. \A i \in DOMAIN w[f] : w[f][i].seq \in Nat /\ w[f][i].seq > 0
    BY <2>1, <1>1 DEF Ordered, SidecarRecord
  <2>3. ~Malformed(w[f])
    BY <2>1, <2>2 DEF Malformed, Ordered
  <2>4. ASSUME NEW i \in DOMAIN w[f], NEW j \in DOMAIN w[f], i < j, Confirmed(mc, f, w[f][j])
        PROVE  Confirmed(mc, f, w[f][i])
    <3>1. w[f][i].seq < w[f][j].seq /\ w[f][j].seq \in DOMAIN mc
      BY <2>1, <2>4, <1>3 DEF Ordered
    <3>2. w[f][i].seq # Len(mc) + 1
      BY <3>1, <2>2, <1>1
    <3> QED
      BY <2>1, <3>2, <1>3 DEF Ordered
  <2> QED
    BY <2>3, <2>4
<1>6. ASSUME NEW f \in Sidecar, NEW m \in Records(mc), f \in m.refs,
             m.seq \notin ConfirmedSeqs(mc, w, f)
      PROVE  \/ f = Sticky /\ w[f] # <<>> /\ Head(w[f]).base /\ m.seq < Head(w[f]).seq
             \/ f \in Task /\ \E e \in Ends(mc, f) : m.seq < e
  <2>1. PICK p \in DOMAIN mc : m = mc[p] /\ m.seq = p
    BY <1>2 DEF Records
  <2>2. ~\E i \in DOMAIN w[f] : w[f][i].seq = p
    BY <1>1, <1>6, <2>1, ConfirmedSeqsIs
  <2>3. w[f] \in Seq(SidecarRecord) /\ Kept(mc, w[f], f)
    BY DEF FileGood
  <2>4. CASE f = Sticky /\ w[f] # <<>> /\ w[f][1].base /\ p < w[f][1].seq
    BY <2>1, <2>3, <2>4
  <2>5. CASE f \in Task /\ \E e \in DOMAIN mc : f \in mc[e].end
    <3>1. PICK e \in DOMAIN mc : f \in mc[e].end
      BY <2>5
    <3>2. p < e
      BY <1>1, <1>6, <2>1, <2>5, <3>1 DEF Patched
    <3>3. e \in Ends(mc, f)
      BY <1>1, <3>1, EndsIs
    <3> QED
      BY <2>1, <2>5, <3>2, <3>3
  <2> QED
    BY <1>6, <2>1, <2>2, <2>3, <2>4, <2>5 DEF Kept
<1>7. ASSUME NEW t \in Task, NEW p \in ConfirmedSeqs(mc, w, t)
      PROVE  \E c \in Creations(mc, t) : ~(c > p)
  <2>1. p \in DOMAIN mc /\ t \in mc[p].refs
    BY <1>1, ConfirmedSeqsIs
  <2>2. PICK c \in 1..p : t \in mc[c].create
    BY <1>1, <2>1 DEF Patched
  <2>3. c \in DOMAIN mc
    BY <1>1, <2>1, <2>2
  <2>4. c \in Creations(mc, t)
    BY <1>1, <2>2, <2>3, EndsIs
  <2> QED
    BY <1>1, <2>1, <2>2, <2>3, <2>4
<1> QED
  BY <1>4, <1>5, <1>6, <1>7 DEF ReplayFails

-------------------------------------------------------------------------------
(***************************************************************************)
(* Two sets of files that replay alike.                                    *)
(***************************************************************************)
\* The records of a file that a commit in main may confirm.
Published(mc, file) == {r \in Records(file) : r.seq \in DOMAIN mc}

\* The tasks whose sidecar says nothing: they are over, or were never created.
Dead(mc) == {t \in Task : \/ \E e \in DOMAIN mc : t \in mc[e].end
                          \/ \A c \in DOMAIN mc : t \notin mc[c].create}

\* A dead task has no value.
LEMMA DeadHasNoValue ==
  ASSUME NEW mc, LogGood(mc), NEW sc, NEW t \in Dead(mc)
  PROVE  {p \in ConfirmedSeqs(mc, sc, t) : \A e \in Ends(mc, t) : p >= e} = {}
<1>1. mc \in Seq(MainRecord) /\ Numbered(mc) /\ Patched(mc)
  BY DEF LogGood
<1> SUFFICES ASSUME NEW p \in ConfirmedSeqs(mc, sc, t), \A e \in Ends(mc, t) : p >= e
             PROVE  FALSE
  OBVIOUS
<1>2. p \in DOMAIN mc /\ t \in mc[p].refs /\ t \in Task
  BY <1>1, ConfirmedSeqsIs DEF Dead
<1>3. PICK c \in 1..p : t \in mc[c].create
  BY <1>1, <1>2 DEF Patched
<1>4. c \in DOMAIN mc
  BY <1>1, <1>2, <1>3
<1>5. PICK e \in DOMAIN mc : t \in mc[e].end
  BY <1>3, <1>4 DEF Dead
<1>6. p < e
  BY <1>1, <1>2, <1>5 DEF Patched
<1>7. e \in Ends(mc, t)
  BY <1>1, <1>5, EndsIs
<1> QED
  BY <1>1, <1>2, <1>5, <1>6, <1>7

LEMMA SameReplay ==
  ASSUME NEW mc, LogGood(mc), NEW a, NEW b,
         \A f \in Sidecar : f \in Dead(mc) \/ Published(mc, a[f]) = Published(mc, b[f])
  PROVE  Replayed(mc, a) = Replayed(mc, b)
<1>1. mc \in Seq(MainRecord) /\ Numbered(mc)
  BY DEF LogGood
<1>2. ASSUME NEW f \in Sidecar, Published(mc, a[f]) = Published(mc, b[f])
      PROVE  {r \in Records(a[f]) : Confirmed(mc, f, r)} = {r \in Records(b[f]) : Confirmed(mc, f, r)}
  <2>1. \A r : Confirmed(mc, f, r) => r.seq \in DOMAIN mc
    BY <1>1, ConfirmedIs
  <2> QED
    BY <1>2, <2>1 DEF Published
<1>3. ASSUME NEW t \in Task
      PROVE  ReplayedTask(mc, a, t) = ReplayedTask(mc, b, t)
  <2>1. CASE t \in Dead(mc)
    BY <2>1, DeadHasNoValue DEF ReplayedTask
  <2>2. CASE Published(mc, a[t]) = Published(mc, b[t])
    BY <1>2, <2>2 DEF ReplayedTask, ConfirmedSeqs, Sidecar
  <2> QED
    BY <2>1, <2>2 DEF Sidecar
<1>4. ReplayedSticky(mc, a) = ReplayedSticky(mc, b)
  <2>1. Sticky \notin Dead(mc) /\ Sticky \in Sidecar
    BY StorageAssumption DEF Dead, Sidecar
  <2> QED
    BY <1>2, <2>1 DEF ReplayedSticky
<1> QED
  BY <1>3, <1>4 DEF Replayed

\* Torn lines count for nothing.
LEMMA TornIsUnpublished ==
  ASSUME NEW mc \in Seq(MainRecord), NEW file \in Seq(SidecarRecord)
  PROVE  /\ Published(mc, TruncateTorn(file)) = Published(mc, file)
         /\ Unpublished(mc, TruncateTorn(file)) = Unpublished(mc, file)
<1>1. \A i \in DOMAIN TruncateTorn(file) : i \in DOMAIN file /\ TruncateTorn(file)[i] = file[i]
  BY TruncateTornIs
<1>2. ASSUME NEW i \in DOMAIN file, file[i].seq # 0
      PROVE  i \in DOMAIN TruncateTorn(file)
  BY <1>2, TruncateTornIs
<1>3. 0 \notin DOMAIN mc /\ 0 # Len(mc) + 1
  OBVIOUS
<1> QED
  BY <1>1, <1>2, <1>3 DEF Published, Unpublished, Records

LEMMA WholeTyped ==
  ASSUME TypeOK
  PROVE  /\ Log \in Seq(MainRecord)
         /\ Whole \in [Sidecar -> Seq(SidecarRecord)]
         /\ \A f \in Sidecar : Whole[f] = TruncateTorn(sidecar[f])
BY TruncateTornIs DEF TypeOK, Log, Whole

\* What the directory stands for does not depend on torn lines.
LEMMA WholeReplays ==
  ASSUME TypeOK, LogGood(Log)
  PROVE  Replayed(Log, Whole) = Replayed(Log, sidecar)
<1>1. \A f \in Sidecar : Published(Log, Whole[f]) = Published(Log, sidecar[f])
  BY WholeTyped, TornIsUnpublished DEF TypeOK
<1> QED
  BY <1>1, SameReplay

-------------------------------------------------------------------------------
(***************************************************************************)
(* open() repairs the files.                                               *)
(***************************************************************************)
\* Of a good file the repair keeps what main confirms, in its order.
LEMMA RepairKeepsConfirmed ==
  ASSUME FilesGood, NEW f \in Sidecar
  PROVE  \E k \in 0..Len(Whole[f]) :
           /\ Repaired[f] = SubSeq(Whole[f], 1, k)
           /\ \A i \in DOMAIN Whole[f] : i <= k <=> Whole[f][i].seq \in DOMAIN Log
<1> DEFINE file == Whole[f]
           confirmed == {i \in DOMAIN file : Confirmed(Log, f, file[i])}
<1>1. Log \in Seq(MainRecord) /\ Numbered(Log) /\ file \in Seq(SidecarRecord) /\ Ordered(Log, file, f)
  BY DEF FilesGood, LogGood, FileGood
<1>2. confirmed = {i \in DOMAIN file : file[i].seq \in DOMAIN Log}
  BY <1>1, ConfirmedIs DEF Ordered
<1>3. {0} \cup confirmed \in SUBSET (0..Len(file))
  BY <1>1
<1>4. PICK k \in {0} \cup confirmed : \A i \in {0} \cup confirmed : i <= k
  <2>1. Len(file) \in Nat /\ {0} \cup confirmed # {}
    BY <1>1
  <2> HIDE DEF confirmed
  <2> QED
    BY <1>3, <2>1, GreatestExists
<1>5. Max({0} \cup confirmed) = k
  <2> DEFINE S == {0} \cup confirmed
  <2>1. S \in SUBSET Nat /\ k \in S /\ \A i \in S : i <= k
    BY <1>3, <1>4
  <2> HIDE DEF S
  <2>2. Max(S) = k
    BY <2>1, MaxIs
  <2> QED
    BY <2>2 DEF S
<1>6. Repaired[f] = SubSeq(file, 1, k)
  BY <1>5 DEF Repaired, TruncateUnconfirmed, Log
<1>7. k \in 0..Len(file)
  BY <1>3, <1>4
<1>8. ASSUME NEW i \in DOMAIN file
      PROVE  i <= k <=> file[i].seq \in DOMAIN Log
  <2>1. ASSUME file[i].seq \in DOMAIN Log PROVE i <= k
    BY <1>2, <1>4, <2>1
  <2>2. ASSUME i <= k PROVE file[i].seq \in DOMAIN Log
    <3>1. k \in DOMAIN file /\ file[k].seq \in DOMAIN Log
      BY <1>1, <1>2, <1>4, <1>7, <2>2
    <3>2. file[i].seq <= file[k].seq
      <4>1. file[i].seq \in Nat /\ i \in Nat /\ k \in Nat
        BY <1>1, <1>7, NumberIsNat
      <4>2. i < k => file[i].seq < file[k].seq
        BY <1>1, <3>1 DEF Ordered
      <4> QED
        BY <1>1, <2>2, <3>1, <4>1, <4>2
    <3>3. file[i].seq # Len(Log) + 1
      BY <1>1, <3>1, <3>2
    <3> QED
      BY <1>1, <3>3 DEF Ordered
  <2> QED
    BY <2>1, <2>2
<1> QED
  BY <1>6, <1>7, <1>8

LEMMA RepairedGood ==
  ASSUME FilesGood, NEW f \in Sidecar
  PROVE  /\ FileGood(Log, Repaired[f], f)
         /\ Published(Log, Repaired[f]) = Published(Log, Whole[f])
         /\ Unpublished(Log, Repaired[f]) = {}
         /\ \A i \in DOMAIN Repaired[f] : Repaired[f][i].seq # 0
<1> DEFINE old == Whole[f]
           new == Repaired[f]
<1>1. PICK k \in 0..Len(old) :
        /\ new = SubSeq(old, 1, k)
        /\ \A i \in DOMAIN old : i <= k <=> old[i].seq \in DOMAIN Log
  BY RepairKeepsConfirmed
<1>2. Log \in Seq(MainRecord) /\ FileGood(Log, old, f)
  BY DEF FilesGood, LogGood
<1>3. old \in Seq(SidecarRecord) /\ Ordered(Log, old, f) /\ Kept(Log, old, f)
  BY <1>2 DEF FileGood
<1> HIDE DEF old, new
<1>4. /\ new \in Seq(SidecarRecord) /\ Len(new) = k
      /\ \A i \in 1..k : new[i] = old[i] /\ i \in DOMAIN old
  BY <1>1, <1>3, BeginningIs
<1>5. Ordered(Log, new, f)
  BY <1>1, <1>3, <1>4 DEF Ordered
<1>6. \A i \in DOMAIN old : old[i].seq \in DOMAIN Log => i \in DOMAIN new /\ new[i] = old[i]
  BY <1>1, <1>3, <1>4, SMTT(30)
<1>7. Kept(Log, new, f)
  <2> SUFFICES ASSUME NEW p \in DOMAIN Log, f \in Log[p].refs
               PROVE  \/ \E i \in DOMAIN new : new[i].seq = p
                      \/ f = Sticky /\ new # <<>> /\ new[1].base /\ p < new[1].seq
                         /\ new[1].seq <= Len(Log)
                      \/ f \in Task /\ \E e \in DOMAIN Log : f \in Log[e].end
    BY DEF Kept
  <2>1. CASE \E i \in DOMAIN old : old[i].seq = p
    BY <1>6, <2>1
  <2>2. CASE f = Sticky /\ old # <<>> /\ old[1].base /\ p < old[1].seq /\ old[1].seq <= Len(Log)
    <3>1. 1 \in DOMAIN old /\ old[1].seq \in DOMAIN Log
      BY <1>2, <1>3, <2>2 DEF Ordered
    <3>2. 1 \in DOMAIN new /\ new[1] = old[1]
      BY <1>6, <3>1
    <3> QED
      BY <2>2, <3>2
  <2> QED
    BY <1>3, <2>1, <2>2 DEF Kept
<1>8. Published(Log, new) = Published(Log, old)
  BY <1>4, <1>6 DEF Published, Records
<1>9. \A i \in DOMAIN new : new[i].seq \in DOMAIN Log
  BY <1>1, <1>4
<1>10. 0 \notin DOMAIN Log /\ Len(Log) + 1 \notin DOMAIN Log
  BY <1>2
<1>11. Unpublished(Log, new) = {} /\ \A i \in DOMAIN new : new[i].seq # 0
  BY <1>9, <1>10 DEF Unpublished, Records
<1> QED
  BY <1>4, <1>5, <1>7, <1>8, <1>11 DEF FileGood, old, new

\* The sidecar of a dead task may go.
LEMMA EmptyGood ==
  ASSUME NEW mc, LogGood(mc), NEW t \in Dead(mc)
  PROVE  FileGood(mc, <<>>, t)
<1>1. mc \in Seq(MainRecord) /\ Patched(mc) /\ t \in Task
  BY DEF LogGood, Dead
<1>2. Kept(mc, <<>>, t)
  <2> SUFFICES ASSUME NEW p \in DOMAIN mc, t \in mc[p].refs
               PROVE  \E e \in DOMAIN mc : t \in mc[e].end
    BY <1>1 DEF Kept
  <2>1. PICK c \in 1..p : t \in mc[c].create
    BY <1>1 DEF Patched
  <2>2. c \in DOMAIN mc
    BY <1>1, <2>1
  <2> QED
    BY <2>1, <2>2 DEF Dead
<1>3. Ordered(mc, <<>>, t)
  BY DEF Ordered
<1> QED
  BY <1>2, <1>3 DEF FileGood

\* open() removes only the sidecars of dead tasks.
LEMMA LeftoverIsDead ==
  ASSUME NEW mc, LogGood(mc), NEW sc
  PROVE  Leftover(Replayed(mc, sc)) = Dead(mc)
<1>1. mc \in Seq(MainRecord) /\ Numbered(mc)
  BY DEF LogGood
<1>2. \A t \in Task : Replayed(mc, sc).task[t] = ReplayedTask(mc, sc, t)
  BY DEF Replayed
<1>3. ASSUME NEW t \in Task
      PROVE  ReplayedTask(mc, sc, t).status # "live" <=> t \in Dead(mc)
  BY <1>1, StatusIs DEF Dead
<1> QED
  BY <1>2, <1>3 DEF Leftover, Dead

-------------------------------------------------------------------------------
(***************************************************************************)
(* A commit is published.                                                  *)
(***************************************************************************)
\* The log records are numbered, so the last one counts them.
LEMMA LastSeqIs ==
  ASSUME NEW mc, LogGood(mc), NEW sc
  PROVE  Replayed(mc, sc).seq = Len(mc)
<1>1. mc \in Seq(MainRecord) /\ Numbered(mc)
  BY DEF LogGood
<1>2. CASE mc = <<>>
  BY <1>2 DEF Replayed
<1>3. CASE mc # <<>>
  <2>1. Len(mc) \in DOMAIN mc
    BY <1>1, <1>3
  <2> QED
    BY <1>1, <1>3, <2>1 DEF Replayed, Last, Numbered
<1> QED
  BY <1>2, <1>3

Record(mc, b) == [seq |-> Len(mc) + 1, refs |-> Refs(b), create |-> b.create, end |-> b.end]

LEMMA BatchIs ==
  ASSUME NEW b \in Batches
  PROVE  /\ b \in Atomic!Batch
         /\ b.create \in SUBSET Task /\ b.patch \in SUBSET Task /\ b.end \in SUBSET Task
         /\ b.sticky \in {"none", "delta", "base"}
         /\ Refs(b) \in SUBSET Sidecar
         /\ Refs(b) \cap Task = b.patch
         /\ Sticky \in Refs(b) <=> b.sticky # "none"
         /\ PatchAndEnd \/ b.patch \cap b.end = {}
BY StorageAssumption DEF Batches, Atomic!Batch, Refs, Sidecar

LEMMA AppendedIs ==
  ASSUME NEW X, NEW s \in Seq(X), NEW r \in X
  PROVE  /\ Append(s, r) \in Seq(X) /\ Append(s, r) # <<>>
         /\ Len(Append(s, r)) = Len(s) + 1
         /\ DOMAIN Append(s, r) = DOMAIN s \cup {Len(s) + 1}
         /\ \A i \in DOMAIN s : Append(s, r)[i] = s[i]
         /\ Append(s, r)[Len(s) + 1] = r
OBVIOUS

LEMMA PublishLog ==
  ASSUME NEW mc, LogGood(mc), NEW sc, NEW b \in Batches, ~PatchAndEnd,
         Atomic!Accepts(Replayed(mc, sc), b), Len(mc) < MaxSeq
  PROVE  LogGood(Append(mc, Record(mc, b)))
<1> DEFINE n == Len(mc) + 1
           mc2 == Append(mc, Record(mc, b))
<1>1. mc \in Seq(MainRecord) /\ Numbered(mc) /\ Patched(mc)
  BY DEF LogGood
<1>2. Record(mc, b) \in MainRecord
  BY <1>1, BatchIs, StorageAssumption DEF Record, MainRecord
<1>3. /\ mc2 \in Seq(MainRecord) /\ Len(mc2) = n
      /\ DOMAIN mc2 = DOMAIN mc \cup {n}
      /\ \A i \in DOMAIN mc : mc2[i] = mc[i] /\ i < n /\ i \in Nat
      /\ mc2[n] = Record(mc, b) /\ n \in Nat
  BY <1>1, <1>2, AppendedIs
<1> HIDE DEF mc2
<1>4. Numbered(mc2)
  BY <1>1, <1>3 DEF Numbered, Record, n
<1>5. Patched(mc2)
  <2> SUFFICES ASSUME NEW p \in DOMAIN mc2, NEW t \in mc2[p].refs \cap Task
               PROVE  /\ \E c \in 1..p : t \in mc2[c].create
                      /\ \A e \in DOMAIN mc2 : t \in mc2[e].end => p < e
    BY DEF Patched
  <2>1. CASE p \in DOMAIN mc
    <3>1. t \in mc[p].refs \cap Task
      BY <1>3, <2>1
    <3>2. PICK c \in 1..p : t \in mc[c].create
      BY <1>1, <2>1, <3>1 DEF Patched
    <3>3. c \in DOMAIN mc
      BY <1>1, <2>1
    <3>4. \A e \in DOMAIN mc2 : t \in mc2[e].end => p < e
      BY <1>1, <1>3, <2>1, <3>1 DEF Patched
    <3> QED
      BY <1>3, <3>2, <3>3, <3>4
  <2>2. CASE p = n
    <3>1. t \in b.patch
      BY <1>3, <2>2, BatchIs DEF Record
    <3>2. t \notin b.end
      BY <3>1, BatchIs
    <3>3. Replayed(mc, sc).task[t] = ReplayedTask(mc, sc, t)
      BY DEF Replayed
    <3>4. \A e \in DOMAIN mc : t \notin mc[e].end
      BY <1>1, <3>1, <3>3, StatusIs DEF Atomic!Accepts
    <3>5. t \in b.create \/ \E c \in DOMAIN mc : t \in mc[c].create
      BY <1>1, <3>1, <3>3, StatusIs DEF Atomic!Accepts
    <3>6. \A c \in DOMAIN mc : c \in 1..n
      BY <1>1, <1>3
    <3> QED
      BY <1>3, <2>2, <3>2, <3>4, <3>5, <3>6 DEF Record
  <2> QED
    BY <1>3, <2>1, <2>2
<1> QED
  BY <1>3, <1>4, <1>5 DEF LogGood, mc2

LEMMA PublishFile ==
  ASSUME NEW mc, LogGood(mc), NEW b \in Batches, Len(mc) < MaxSeq,
         NEW f \in Sidecar, NEW file, FileGood(mc, file, f),
         Unpublished(mc, file) = IF f \in Refs(b) THEN {Staged(mc, b, f)} ELSE {}
  PROVE  /\ FileGood(Append(mc, Record(mc, b)), file, f)
         /\ Unpublished(Append(mc, Record(mc, b)), file) = {}
<1> DEFINE n == Len(mc) + 1
           mc2 == Append(mc, Record(mc, b))
<1>1. /\ mc \in Seq(MainRecord)
      /\ file \in Seq(SidecarRecord) /\ Ordered(mc, file, f) /\ Kept(mc, file, f)
  BY DEF LogGood, FileGood
<1>2. Record(mc, b) \in MainRecord
  BY <1>1, BatchIs, StorageAssumption DEF Record, MainRecord
<1>3. /\ Len(mc2) = n /\ DOMAIN mc2 = DOMAIN mc \cup {n}
      /\ \A i \in DOMAIN mc : mc2[i] = mc[i] /\ i < n /\ i \in Nat
      /\ mc2[n] = Record(mc, b) /\ n \in Nat
  BY <1>1, <1>2, AppendedIs
<1> HIDE DEF mc2
<1>4. \A i \in DOMAIN file : file[i].seq = n => f \in Refs(b)
  BY DEF Unpublished, Records
<1>5. Ordered(mc2, file, f)
  BY <1>1, <1>3, <1>4 DEF Ordered, Record
<1>6. Kept(mc2, file, f)
  <2> SUFFICES ASSUME NEW p \in DOMAIN mc2, f \in mc2[p].refs
               PROVE  \/ \E i \in DOMAIN file : file[i].seq = p
                      \/ f = Sticky /\ file # <<>> /\ file[1].base /\ p < file[1].seq
                         /\ file[1].seq <= Len(mc2)
                      \/ f \in Task /\ \E e \in DOMAIN mc2 : f \in mc2[e].end
    BY DEF Kept
  <2>1. CASE p = n
    <3>1. Staged(mc, b, f) \in Unpublished(mc, file)
      BY <1>3, <2>1 DEF Record
    <3> QED
      BY <2>1, <3>1 DEF Unpublished, Records
  <2>2. CASE p \in DOMAIN mc
    <3>1. CASE f = Sticky /\ file # <<>> /\ file[1].base /\ p < file[1].seq /\ file[1].seq <= Len(mc)
      <4>1. file[1].seq <= Len(mc2)
        <5>1. file[1].seq \in Nat /\ Len(mc) \in Nat
          BY <1>1, <3>1, NumberIsNat
        <5> QED
          BY <1>3, <3>1, <5>1
      <4> QED
        BY <3>1, <4>1
    <3> QED
      BY <1>1, <1>3, <2>2, <3>1 DEF Kept
  <2> QED
    BY <1>3, <2>1, <2>2
<1>7. Unpublished(mc2, file) = {}
  <2>1. \A i \in DOMAIN file : file[i].seq # n + 1
    BY <1>1, <1>3 DEF Ordered
  <2> QED
    BY <1>3, <2>1 DEF Unpublished, Records
<1> QED
  BY <1>1, <1>5, <1>6, <1>7 DEF FileGood, mc2

\* The tables that replay gives have their type.
LEMMA ReplayedTyped ==
  ASSUME NEW mc \in Seq(MainRecord), NEW sc
  PROVE  Replayed(mc, sc) \in Tables
<1>1. \A m \in Records(mc) : m.seq \in 0..MaxSeq
  <2>1. \A i \in DOMAIN mc : mc[i] \in MainRecord
    OBVIOUS
  <2> QED
    BY <2>1 DEF Records, MainRecord
<1>2. \A f, r : Confirmed(mc, f, r) => r.seq \in 0..MaxSeq
  BY <1>1 DEF Confirmed
<1>3. Replayed(mc, sc).seq \in 0..MaxSeq
  <2>1. CASE mc = <<>>
    BY <2>1, StorageAssumption DEF Replayed
  <2>2. CASE mc # <<>>
    BY <1>1, <2>2 DEF Replayed, Last, Records
  <2> QED
    BY <2>1, <2>2
<1>4. Replayed(mc, sc).sticky \in SUBSET (0..MaxSeq)
  BY <1>2 DEF Replayed, ReplayedSticky
<1>5. ASSUME NEW t \in Task
      PROVE  ReplayedTask(mc, sc, t) \in [status : {"absent", "live", "terminal"}, value : 0..MaxSeq]
  <2> DEFINE patched == {p \in ConfirmedSeqs(mc, sc, t) : \A e \in Ends(mc, t) : p >= e}
  <2>1. patched \in SUBSET (0..MaxSeq)
    BY <1>2 DEF ConfirmedSeqs
  <2>2. (IF patched = {} THEN 0 ELSE Max(patched)) \in 0..MaxSeq
    <3> HIDE DEF patched
    <3>1. CASE patched = {}
      BY <3>1, StorageAssumption
    <3>2. CASE patched # {}
      <4>1. PICK k \in patched : \A i \in patched : i <= k
        BY <2>1, <3>2, GreatestExists, StorageAssumption
      <4>2. Max(patched) = k
        BY <2>1, <4>1, MaxIs, StorageAssumption
      <4> QED
        BY <2>1, <3>2, <4>1, <4>2
    <3> QED
      BY <3>1, <3>2
  <2>3. ReplayedTask(mc, sc, t) =
          [status |-> ReplayedTask(mc, sc, t).status,
           value |-> IF patched = {} THEN 0 ELSE Max(patched)]
    BY DEF ReplayedTask
  <2>4. ReplayedTask(mc, sc, t).status \in {"absent", "live", "terminal"}
    BY DEF ReplayedTask
  <2> HIDE DEF patched
  <2> QED
    BY <2>2, <2>3, <2>4
<1> QED
  BY <1>3, <1>4, <1>5 DEF Replayed, Tables

\* The commit that main has just got is the batch, as a whole.
LEMMA PublishReplays ==
  ASSUME NEW mc, LogGood(mc), NEW w, \A f \in Sidecar : FileGood(mc, w[f], f),
         NEW b \in Batches, ~PatchAndEnd, Len(mc) < MaxSeq,
         Atomic!Accepts(Replayed(mc, w), b),
         \A f \in Sidecar : Unpublished(mc, w[f]) =
           IF f \in Refs(b) THEN {Staged(mc, b, f)} ELSE {}
  PROVE  Replayed(Append(mc, Record(mc, b)), w) = Atomic!Apply(Replayed(mc, w), b)
<1> DEFINE n == Len(mc) + 1
           mc2 == Append(mc, Record(mc, b))
           tb == Replayed(mc, w)
<1>1. mc \in Seq(MainRecord) /\ Numbered(mc) /\ Patched(mc)
  BY DEF LogGood
<1>2. Record(mc, b) \in MainRecord
  BY <1>1, BatchIs, StorageAssumption DEF Record, MainRecord
<1>3. /\ DOMAIN mc2 = DOMAIN mc \cup {n}
      /\ \A i \in DOMAIN mc : mc2[i] = mc[i] /\ i < n /\ i \in Nat
      /\ mc2[n] = Record(mc, b) /\ n \in Nat /\ n \notin DOMAIN mc
  BY <1>1, <1>2, AppendedIs
<1>4. LogGood(mc2)
  BY PublishLog
<1>5. mc2 \in Seq(MainRecord) /\ Numbered(mc2)
  BY <1>4 DEF LogGood
<1>6. tb.seq + 1 = n /\ Replayed(mc2, w).seq = n
  <2>1. Len(mc2) = n
    BY <1>1, <1>2, AppendedIs
  <2>2. tb.seq = Len(mc)
    BY LastSeqIs
  <2> HIDE DEF mc2, tb
  <2>3. Replayed(mc2, w).seq = Len(mc2)
    BY <1>4, LastSeqIs
  <2> QED
    BY <2>1, <2>2, <2>3
<1> HIDE DEF mc2
<1>7. ASSUME NEW f \in Sidecar
      PROVE  {r \in Records(w[f]) : Confirmed(mc2, f, r)} =
               {r \in Records(w[f]) : Confirmed(mc, f, r)} \cup Unpublished(mc, w[f])
  <2>1. \A r : Confirmed(mc, f, r) <=> r.seq \in DOMAIN mc /\ f \in mc[r.seq].refs
    BY <1>1, ConfirmedIs
  <2>2. \A r : Confirmed(mc2, f, r) <=> r.seq \in DOMAIN mc2 /\ f \in mc2[r.seq].refs
    BY <1>5, ConfirmedIs
  <2>3. \A r \in Unpublished(mc, w[f]) : f \in Refs(b)
    OBVIOUS
  <2> QED
    BY <1>3, <2>1, <2>2, <2>3 DEF Unpublished, Record
<1>8. ASSUME NEW t \in Task
      PROVE  ConfirmedSeqs(mc2, w, t) = ConfirmedSeqs(mc, w, t) \cup (IF t \in b.patch THEN {n} ELSE {})
  <2>1. t \in Sidecar /\ (t \in Refs(b) <=> t \in b.patch)
    BY BatchIs DEF Sidecar
  <2>2. {r.seq : r \in Unpublished(mc, w[t])} = IF t \in b.patch THEN {n} ELSE {}
    <3>1. Unpublished(mc, w[t]) = IF t \in b.patch THEN {Staged(mc, b, t)} ELSE {}
      BY <2>1
    <3>2. Staged(mc, b, t).seq = n
      BY DEF Staged
    <3> QED
      BY <3>1, <3>2
  <2> QED
    BY <1>7, <2>1, <2>2 DEF ConfirmedSeqs
<1>9. ASSUME NEW t \in Task
      PROVE  /\ Ends(mc2, t) = Ends(mc, t) \cup (IF t \in b.end THEN {n} ELSE {})
             /\ Creations(mc2, t) = Creations(mc, t) \cup (IF t \in b.create THEN {n} ELSE {})
             /\ Ends(mc, t) \in SUBSET DOMAIN mc /\ Creations(mc, t) \in SUBSET DOMAIN mc
  BY <1>1, <1>3, <1>5, EndsIs DEF Record
<1>10. ReplayedSticky(mc2, w) = Atomic!Apply(tb, b).sticky
  <2> DEFINE old == {r \in Records(w[Sticky]) : Confirmed(mc, Sticky, r)}
             new == {r \in Records(w[Sticky]) : Confirmed(mc2, Sticky, r)}
  <2>1. Sticky \in Sidecar /\ (Sticky \in Refs(b) <=> b.sticky # "none")
    BY BatchIs DEF Sidecar
  <2>2. new = old \cup Unpublished(mc, w[Sticky])
    BY <1>7, <2>1
  <2>3. \A r \in old : r.seq \in DOMAIN mc
    BY <1>1, ConfirmedIs
  <2>4. \A r \in old : r.seq \in Nat /\ r.seq < n /\ n \in Nat
    BY <1>3, <2>3
  <2>5. tb.sticky = {r.seq : r \in {q \in old : \A c \in old : c.base => c.seq <= q.seq}}
    BY DEF tb, Replayed, ReplayedSticky
  <2>6. ReplayedSticky(mc2, w) = {r.seq : r \in {q \in new : \A c \in new : c.base => c.seq <= q.seq}}
    BY DEF ReplayedSticky
  <2>7. b.sticky # "none" => Unpublished(mc, w[Sticky]) = {[seq |-> n, base |-> b.sticky = "base"]}
    BY <2>1 DEF Staged
  <2>8. b.sticky = "none" => Unpublished(mc, w[Sticky]) = {}
    BY <2>1
  <2> HIDE DEF old, new, tb
  <2>9. CASE b.sticky = "none"
    <3>1. new = old
      BY <2>2, <2>8, <2>9
    <3> QED
      BY <2>5, <2>6, <2>9, <3>1 DEF Atomic!Apply
  <2>10. CASE b.sticky = "delta"
    <3> DEFINE r == [seq |-> n, base |-> FALSE]
    <3>1. new = old \cup {r} /\ r.seq = n /\ ~r.base
      BY <2>2, <2>7, <2>10
    <3> HIDE DEF r
    <3>2. {q \in new : \A c \in new : c.base => c.seq <= q.seq} =
            {q \in old : \A c \in old : c.base => c.seq <= q.seq} \cup {r}
      BY <2>4, <3>1
    <3>3. ReplayedSticky(mc2, w) = tb.sticky \cup {n}
      BY <2>5, <2>6, <3>1, <3>2
    <3> QED
      BY <1>6, <2>10, <3>3 DEF Atomic!Apply
  <2>11. CASE b.sticky = "base"
    <3> DEFINE r == [seq |-> n, base |-> TRUE]
    <3>1. new = old \cup {r} /\ r.seq = n /\ r.base
      BY <2>2, <2>7, <2>11
    <3> HIDE DEF r
    <3>2. {q \in new : \A c \in new : c.base => c.seq <= q.seq} = {r}
      BY <1>3, <2>4, <3>1
    <3>3. ReplayedSticky(mc2, w) = {n}
      BY <2>6, <3>1, <3>2
    <3> QED
      BY <1>6, <2>11, <3>3 DEF Atomic!Apply
  <2> QED
    BY BatchIs, <2>9, <2>10, <2>11
<1>11. ASSUME NEW t \in Task
       PROVE  ReplayedTask(mc2, w, t) = Atomic!Apply(tb, b).task[t]
  <2> DEFINE old == {p \in ConfirmedSeqs(mc, w, t) : \A e \in Ends(mc, t) : p >= e}
             new == {p \in ConfirmedSeqs(mc2, w, t) : \A e \in Ends(mc2, t) : p >= e}
  <2>1. tb.task[t] = ReplayedTask(mc, w, t)
    BY DEF Replayed
  <2>2. ConfirmedSeqs(mc, w, t) \in SUBSET DOMAIN mc
    BY <1>1, ConfirmedSeqsIs
  <2>3. /\ tb.task[t].status = "absent" => Ends(mc, t) = {} /\ Creations(mc, t) = {}
        /\ tb.task[t].status = "live" => Ends(mc, t) = {} /\ Creations(mc, t) # {}
    BY <2>1 DEF ReplayedTask
  <2>4. /\ t \in b.create => tb.task[t].status = "absent"
        /\ t \in b.patch => tb.task[t].status = "live" \/ t \in b.create
        /\ t \in b.end => tb.task[t].status = "live"
        /\ t \in b.patch => t \notin b.end
    BY BatchIs DEF Atomic!Accepts
  <2>5. ReplayedTask(mc2, w, t) =
          [status |-> IF Ends(mc2, t) # {} THEN "terminal"
                      ELSE IF Creations(mc2, t) # {} THEN "live" ELSE "absent",
           value  |-> IF new = {} THEN 0 ELSE Max(new)]
    BY DEF ReplayedTask
  <2>6. Atomic!Apply(tb, b).task[t] =
          IF t \in b.end THEN [status |-> "terminal", value |-> 0]
          ELSE IF t \in b.patch THEN [status |-> "live", value |-> n]
          ELSE IF t \in b.create THEN [status |-> "live", value |-> 0]
          ELSE tb.task[t]
    BY <1>6 DEF Atomic!Apply
  <2>7. ReplayedTask(mc, w, t) =
          [status |-> IF Ends(mc, t) # {} THEN "terminal"
                      ELSE IF Creations(mc, t) # {} THEN "live" ELSE "absent",
           value  |-> IF old = {} THEN 0 ELSE Max(old)]
    BY DEF ReplayedTask
  <2>8. \A p \in DOMAIN mc : p \in Nat /\ p < n
    BY <1>3
  <2> HIDE DEF tb
  <2>9. CASE t \in b.end
    <3>1. Ends(mc2, t) # {} /\ n \in Ends(mc2, t)
      BY <1>9, <2>9
    <3>2. ConfirmedSeqs(mc2, w, t) = ConfirmedSeqs(mc, w, t)
      BY <1>8, <2>4, <2>9
    <3>3. new = {}
      BY <1>3, <2>2, <2>8, <3>1, <3>2
    <3> QED
      BY <2>5, <2>6, <2>9, <3>1, <3>3
  <2>10. CASE t \in b.patch /\ t \notin b.end
    <3>1. Ends(mc2, t) = {} /\ Creations(mc2, t) # {}
      BY <1>9, <2>3, <2>4, <2>10
    <3>2. new = ConfirmedSeqs(mc, w, t) \cup {n}
      BY <1>8, <2>10, <3>1
    <3>3. new \in SUBSET Nat /\ n \in new /\ \A p \in new : p <= n
      BY <1>3, <2>2, <2>8, <3>2
    <3> HIDE DEF new
    <3>4. Max(new) = n
      BY <3>3, MaxIs
    <3> QED
      BY <2>5, <2>6, <2>10, <3>1, <3>3, <3>4
  <2>11. CASE t \in b.create /\ t \notin b.patch /\ t \notin b.end
    <3>1. Ends(mc2, t) = {} /\ Creations(mc2, t) # {} /\ Creations(mc, t) = {}
      BY <1>9, <2>3, <2>4, <2>11
    <3>2. ConfirmedSeqs(mc, w, t) = {}
      <4> SUFFICES ASSUME NEW p \in ConfirmedSeqs(mc, w, t) PROVE FALSE
        OBVIOUS
      <4>1. p \in DOMAIN mc /\ t \in mc[p].refs
        BY <1>1, ConfirmedSeqsIs
      <4>2. PICK c \in 1..p : t \in mc[c].create
        BY <1>1, <4>1 DEF Patched
      <4>3. c \in DOMAIN mc
        BY <1>1, <4>1
      <4> QED
        BY <1>1, <3>1, <4>2, <4>3, EndsIs
    <3>3. new = {}
      BY <1>8, <2>11, <3>2
    <3> QED
      BY <2>5, <2>6, <2>11, <3>1, <3>3
  <2>12. CASE t \notin b.create /\ t \notin b.patch /\ t \notin b.end
    <3>1. /\ Ends(mc2, t) = Ends(mc, t) /\ Creations(mc2, t) = Creations(mc, t)
          /\ ConfirmedSeqs(mc2, w, t) = ConfirmedSeqs(mc, w, t)
      BY <1>8, <1>9, <2>12
    <3> QED
      BY <2>1, <2>5, <2>6, <2>7, <2>12, <3>1
  <2> QED
    BY <2>9, <2>10, <2>11, <2>12
<1>12. Atomic!Apply(tb, b) = [seq |-> tb.seq + 1, sticky |-> Atomic!Apply(tb, b).sticky,
                              task |-> [t \in Task |-> Atomic!Apply(tb, b).task[t]]]
  <2> HIDE DEF tb
  <2> DEFINE S == CASE b.sticky = "none"  -> tb.sticky
                    [] b.sticky = "delta" -> tb.sticky \cup {tb.seq + 1}
                    [] b.sticky = "base"  -> {tb.seq + 1}
             T == [t \in Task |-> IF t \in b.end THEN [status |-> "terminal", value |-> 0]
                                  ELSE IF t \in b.patch THEN [status |-> "live", value |-> tb.seq + 1]
                                  ELSE IF t \in b.create THEN [status |-> "live", value |-> 0]
                                  ELSE tb.task[t]]
  <2>1. Atomic!Apply(tb, b) = [seq |-> tb.seq + 1, sticky |-> S, task |-> T]
    BY DEF Atomic!Apply
  <2>2. T = [t \in Task |-> T[t]]
    OBVIOUS
  <2> HIDE DEF S, T
  <2> QED
    BY <2>1, <2>2
<1>13. Replayed(mc2, w) = [seq |-> Replayed(mc2, w).seq, sticky |-> ReplayedSticky(mc2, w),
                           task |-> [t \in Task |-> ReplayedTask(mc2, w, t)]]
  BY DEF Replayed
<1> HIDE DEF tb
<1>14. Replayed(mc2, w) = Atomic!Apply(tb, b)
  BY <1>6, <1>10, <1>11, <1>12, <1>13
<1> QED
  BY <1>14 DEF mc2, tb

-------------------------------------------------------------------------------
(***************************************************************************)
(* The steps keep the invariant.                                           *)
(***************************************************************************)
\* What the invariant says in the form the steps need it.
LEMMA GoodFacts ==
  ASSUME IInv
  PROVE  /\ Log \in Seq(MainRecord) /\ LogGood(Log) /\ TruncateTorn(Log) = Log
         /\ \A f \in Sidecar :
              /\ FileGood(Log, Whole[f], f)
              /\ Whole[f] \in Seq(SidecarRecord)
              /\ Whole[f] = TruncateTorn(sidecar[f])
              /\ TruncateTorn(Whole[f]) = Whole[f]
              /\ Unpublished(Log, Whole[f]) = Unpublished(Log, sidecar[f])
              /\ Published(Log, Whole[f]) = Published(Log, sidecar[f])
         /\ Replayed(Log, Whole) = Replayed(Log, sidecar)
         /\ up => main = Log /\ sidecar = Whole /\ mem = Replayed(Log, Whole) /\ mem.seq = Len(Log)
<1> USE DEF IInv
<1>1. LogGood(Log) /\ Log \in Seq(MainRecord) /\ Numbered(Log)
  BY DEF FilesGood, LogGood
<1>2. TruncateTorn(Log) = Log
  BY <1>1, CleanIsWhole DEF Numbered
<1>3. ASSUME NEW f \in Sidecar
      PROVE  /\ FileGood(Log, Whole[f], f)
             /\ Whole[f] \in Seq(SidecarRecord)
             /\ TruncateTorn(Whole[f]) = Whole[f]
  <2>1. FileGood(Log, Whole[f], f) /\ Whole[f] \in Seq(SidecarRecord) /\ Ordered(Log, Whole[f], f)
    BY DEF FilesGood, FileGood
  <2>2. \A i \in DOMAIN Whole[f] : Whole[f][i].seq # 0
    BY <1>1, <2>1 DEF Ordered
  <2> QED
    BY <2>1, <2>2, CleanIsWhole
<1>4. \A f \in Sidecar : sidecar[f] \in Seq(SidecarRecord) /\ Whole[f] = TruncateTorn(sidecar[f])
  BY DEF TypeOK, Whole
<1>5. \A f \in Sidecar : /\ Unpublished(Log, Whole[f]) = Unpublished(Log, sidecar[f])
                         /\ Published(Log, Whole[f]) = Published(Log, sidecar[f])
  BY <1>1, <1>4, TornIsUnpublished
<1>6. Replayed(Log, Whole) = Replayed(Log, sidecar)
  BY <1>1, WholeReplays
<1>7. up => main = Log /\ sidecar = Whole /\ mem = Replayed(Log, Whole) /\ mem.seq = Len(Log)
  BY <1>1, LastSeqIs DEF Serving
<1> QED
  BY <1>1, <1>2, <1>3, <1>4, <1>5, <1>6, <1>7

\* An open directory has clean files; a step may leave any good ones.
LEMMA CleanStep ==
  ASSUME IInv, main' = Log, sidecar' \in [Sidecar -> Seq(SidecarRecord)],
         \A f \in Sidecar : FileGood(Log, sidecar'[f], f)
  PROVE  Log' = Log /\ Whole' = sidecar' /\ FilesGood'
<1>1. Log \in Seq(MainRecord) /\ LogGood(Log) /\ TruncateTorn(Log) = Log
  BY GoodFacts
<1>2. Log' = Log
  BY <1>1 DEF Log
<1>3. ASSUME NEW f \in Sidecar PROVE TruncateTorn(sidecar'[f]) = sidecar'[f]
  <2>1. sidecar'[f] \in Seq(SidecarRecord) /\ Ordered(Log, sidecar'[f], f)
    BY DEF FileGood
  <2>2. \A i \in DOMAIN sidecar'[f] : sidecar'[f][i].seq # 0
    BY <1>1, <2>1 DEF Ordered
  <2> QED
    BY <2>1, <2>2, CleanIsWhole
<1>4. Whole' = sidecar'
  BY <1>3 DEF Whole
<1> QED
  BY <1>1, <1>2, <1>4 DEF FilesGood

LEMMA OpenStep ==
  ASSUME IInv, Open
  PROVE  IInv' /\ Log' = Log /\ Replayed(Log, sidecar') = Replayed(Log, Whole)
<1> USE DEF IInv
<1>1. /\ Log \in Seq(MainRecord) /\ LogGood(Log) /\ FilesGood
      /\ ~up /\ up' = TRUE /\ main' = Log /\ op' = op
      /\ mem' = Replayed(Log, Repaired)
      /\ sidecar' = Without(Repaired, Leftover(mem'))
  BY GoodFacts DEF Open, Log
<1>2. \A f \in Sidecar : /\ FileGood(Log, Repaired[f], f)
                         /\ Published(Log, Repaired[f]) = Published(Log, Whole[f])
                         /\ Unpublished(Log, Repaired[f]) = {}
  BY <1>1, RepairedGood
<1>3. Leftover(mem') = Dead(Log)
  BY <1>1, LeftoverIsDead
<1>4. \A f \in Sidecar : sidecar'[f] = IF f \in Dead(Log) THEN <<>> ELSE Repaired[f]
  BY <1>1, <1>3 DEF Without
<1>5. \A f \in Sidecar : FileGood(Log, sidecar'[f], f) /\ Unpublished(Log, sidecar'[f]) = {}
  BY <1>1, <1>2, <1>4, EmptyGood DEF Unpublished, Records
<1>6. sidecar' \in [Sidecar -> Seq(SidecarRecord)]
  BY <1>1, <1>5 DEF Without, FileGood
<1>7. Log' = Log /\ Whole' = sidecar' /\ FilesGood'
  BY <1>1, <1>5, <1>6, CleanStep
<1>8. mem' = Replayed(Log, sidecar')
  BY <1>1, <1>4, SameReplay
<1>9. Serving'
  BY <1>1, <1>7, <1>8 DEF Serving
<1>10. OpGood'
  <2>1. op.stage # "append" /\ op.stage # "retire"
    BY <1>1 DEF OpGood
  <2> QED
    BY <1>1, <1>5, <1>7, <2>1 DEF OpGood
<1>11. TypeOK'
  <2>1. mem' \in Tables
    BY <1>1, ReplayedTyped
  <2> QED
    BY <1>1, <1>6, <2>1 DEF TypeOK
<1>12. Replayed(Log, sidecar') = Replayed(Log, Whole)
  BY <1>1, <1>2, <1>8, SameReplay
<1> QED
  BY <1>7, <1>9, <1>10, <1>11, <1>12

\* open() that is cut short leaves files that stand for the same.
LEMMA InterruptedFiles ==
  ASSUME IInv, OpenInterrupted
  PROVE  /\ Log' = Log /\ TypeOK' /\ FilesGood' /\ up' = FALSE /\ up = FALSE
         /\ \A f \in Sidecar : f \in Dead(Log) \/ Published(Log, Whole'[f]) = Published(Log, Whole[f])
<1> USE DEF IInv
<1>1. /\ Log \in Seq(MainRecord) /\ LogGood(Log) /\ TruncateTorn(Log) = Log /\ FilesGood
      /\ up = FALSE /\ up' = FALSE /\ main' \in {main, Log} /\ UNCHANGED <<mem, op>>
  BY GoodFacts DEF OpenInterrupted, Log, TypeOK
<1>2. Log' = Log
  BY <1>1 DEF Log
<1>3. \A f \in Sidecar : /\ FileGood(Log, Whole[f], f)
                         /\ Whole[f] = TruncateTorn(sidecar[f])
                         /\ TruncateTorn(Whole[f]) = Whole[f]
                         /\ sidecar[f] \in Seq(SidecarRecord)
  BY GoodFacts DEF TypeOK
<1>4. ASSUME NEW f \in Sidecar
      PROVE  /\ FileGood(Log, Repaired[f], f)
             /\ TruncateTorn(Repaired[f]) = Repaired[f]
             /\ Published(Log, Repaired[f]) = Published(Log, Whole[f])
  <2>1. /\ FileGood(Log, Repaired[f], f)
        /\ Published(Log, Repaired[f]) = Published(Log, Whole[f])
        /\ \A i \in DOMAIN Repaired[f] : Repaired[f][i].seq # 0
    BY <1>1, RepairedGood
  <2>2. TruncateTorn(Repaired[f]) = Repaired[f]
    BY <2>1, CleanIsWhole DEF FileGood
  <2> QED
    BY <2>1, <2>2
<1>5. \A t \in Dead(Log) : FileGood(Log, <<>>, t) /\ TruncateTorn(<<>>) = <<>>
  BY <1>1, EmptyGood DEF TruncateTorn
<1>6. /\ DOMAIN sidecar' = Sidecar /\ sidecar' = [f \in Sidecar |-> sidecar'[f]]
      /\ \A f \in Sidecar : \/ sidecar'[f] \in {sidecar[f], Whole[f], Repaired[f]}
                            \/ f \in Dead(Log) /\ sidecar'[f] = <<>>
  <2>1. CASE \E S \in SUBSET (Sidecar \cup {Main}) :
               sidecar' = [f \in Sidecar |-> IF f \in S THEN Whole[f] ELSE sidecar[f]]
    BY <2>1
  <2>2. CASE \E S \in SUBSET Sidecar :
               sidecar' = [f \in Sidecar |-> IF f \in S THEN Repaired[f] ELSE Whole[f]]
    BY <2>2
  <2>3. CASE main' = Log /\ \E S \in SUBSET Leftover(Replayed(main', Repaired)) :
               sidecar' = Without(Repaired, S)
    <3>1. Leftover(Replayed(main', Repaired)) = Dead(Log)
      BY <1>1, <2>3, LeftoverIsDead
    <3> QED
      BY <2>3, <3>1 DEF Without
  <2> QED
    BY <2>1, <2>2, <2>3 DEF OpenInterrupted, Log
<1>7. \A f \in Sidecar :
        /\ FileGood(Log, TruncateTorn(sidecar'[f]), f)
        /\ sidecar'[f] \in Seq(SidecarRecord)
        /\ f \in Dead(Log) \/ Published(Log, TruncateTorn(sidecar'[f])) = Published(Log, Whole[f])
  <2> TAKE f \in Sidecar
  <2>1. CASE sidecar'[f] = sidecar[f]
    BY <1>3, <2>1
  <2>2. CASE sidecar'[f] = Whole[f]
    BY <1>3, <2>2 DEF FileGood
  <2>3. CASE sidecar'[f] = Repaired[f]
    BY <1>4, <2>3 DEF FileGood
  <2>4. CASE f \in Dead(Log) /\ sidecar'[f] = <<>>
    <3>1. FileGood(Log, <<>>, f) /\ TruncateTorn(<<>>) = <<>>
      BY <1>5, <2>4
    <3> QED
      BY <2>4, <3>1
  <2> QED
    BY <1>6, <2>1, <2>2, <2>3, <2>4
<1>8. \A f \in Sidecar : Whole'[f] = TruncateTorn(sidecar'[f])
  BY DEF Whole
<1>9. FilesGood'
  BY <1>1, <1>2, <1>7, <1>8 DEF FilesGood
<1>10. TypeOK'
  <2>1. sidecar' \in [Sidecar -> Seq(SidecarRecord)]
    BY <1>6, <1>7
  <2> QED
    BY <1>1, <2>1 DEF TypeOK
<1> QED
  BY <1>1, <1>2, <1>7, <1>8, <1>9, <1>10

LEMMA OpenInterruptedStep ==
  ASSUME IInv, OpenInterrupted
  PROVE  IInv'
<1>1. /\ Log' = Log /\ TypeOK' /\ FilesGood' /\ up' = FALSE /\ up = FALSE
      /\ op' = op
  BY InterruptedFiles DEF OpenInterrupted
<1>2. OpGood'
  BY <1>1 DEF IInv, OpGood
<1> QED
  BY <1>1, <1>2 DEF IInv, Serving

LEMMA BeginCommitStep ==
  ASSUME IInv, NEW b \in Batches, BeginCommit(b)
  PROVE  IInv'
<1> USE DEF IInv
<1>1. /\ UNCHANGED <<main, sidecar, up, mem>> /\ up /\ op = NoOp /\ mem.seq < MaxSeq
      /\ Atomic!Accepts(mem, b)
      /\ op' = [stage |-> "append", batch |-> b, left |-> Refs(b)]
  BY DEF BeginCommit
<1>2. Log' = Log /\ Whole' = Whole
  BY <1>1 DEF Log, Whole
<1>3. FilesGood' /\ Serving'
  BY <1>1, <1>2 DEF FilesGood, Serving
<1>4. TypeOK'
  BY <1>1, BatchIs DEF TypeOK
<1>5. OpGood'
  <2>1. \A f \in Sidecar : Unpublished(Log, sidecar[f]) = {}
    BY <1>1 DEF OpGood, NoOp
  <2>2. op'.stage = "append" /\ op'.batch = b /\ op'.left = Refs(b)
    BY <1>1
  <2> QED
    BY <1>1, <1>2, <2>1, <2>2 DEF OpGood
<1> QED
  BY <1>3, <1>4, <1>5

LEMMA EmptyLogGood == <<>> \in Seq(MainRecord) /\ <<>> \in Seq(SidecarRecord) /\ LogGood(<<>>)
<1>1. <<>> \in Seq(MainRecord) /\ DOMAIN <<>> = {}
  OBVIOUS
<1> QED
  BY <1>1 DEF LogGood, Numbered, Patched

LEMMA StopStep ==
  ASSUME IInv, Stop
  PROVE  IInv'
<1> USE DEF IInv
<1>1. up' = FALSE /\ op' = NoOp /\ UNCHANGED <<main, sidecar>>
      /\ mem' = Replayed(<<>>, [f \in Sidecar |-> <<>>])
  BY DEF Stop, Stopped
<1>2. Log' = Log /\ Whole' = Whole
  BY <1>1 DEF Log, Whole
<1>3. FilesGood' /\ Serving' /\ OpGood'
  BY <1>1, <1>2 DEF FilesGood, Serving, OpGood, NoOp
<1>4. mem' \in Tables
  BY <1>1, EmptyLogGood, ReplayedTyped
<1> QED
  BY <1>1, <1>3, <1>4 DEF TypeOK

\* A commit that is under way has staged what it has written.
LEMMA AppendFacts ==
  ASSUME IInv, op.stage = "append"
  PROVE  /\ up /\ main = Log /\ sidecar = Whole /\ mem = Replayed(Log, Whole)
         /\ mem.seq = Len(Log) /\ Len(Log) < MaxSeq
         /\ op \in [stage : {"append"}, batch : Batches, left : SUBSET Sidecar]
         /\ op.batch \in Batches /\ op.left \in SUBSET Sidecar /\ op.left \subseteq Refs(op.batch)
         /\ Atomic!Accepts(Replayed(Log, Whole), op.batch)
         /\ \A f \in Sidecar : Unpublished(Log, Whole[f]) =
              IF f \in Refs(op.batch) \ op.left THEN {Staged(Log, op.batch, f)} ELSE {}
<1>1. up /\ mem.seq < MaxSeq /\ Atomic!Accepts(mem, op.batch)
  BY DEF IInv, OpGood
<1>2. main = Log /\ sidecar = Whole /\ mem = Replayed(Log, Whole) /\ mem.seq = Len(Log)
  BY <1>1, GoodFacts
<1>3. /\ op \in [stage : {"append"}, batch : Batches, left : SUBSET Sidecar]
      /\ op.left \subseteq Refs(op.batch)
  BY DEF IInv, TypeOK, NoOp
<1>4. \A f \in Sidecar : Unpublished(Log, sidecar[f]) =
        IF f \in Refs(op.batch) \ op.left THEN {Staged(Log, op.batch, f)} ELSE {}
  BY DEF IInv, OpGood
<1> QED
  BY <1>1, <1>2, <1>3, <1>4

\* A record of the next commit at the end of a file that has none yet.
LEMMA AppendFile ==
  ASSUME NEW mc, LogGood(mc), Len(mc) < MaxSeq, NEW f \in Sidecar, NEW file,
         FileGood(mc, file, f), Unpublished(mc, file) = {},
         NEW r \in SidecarRecord, r.seq = Len(mc) + 1
  PROVE  /\ FileGood(mc, Append(file, r), f)
         /\ Unpublished(mc, Append(file, r)) = {r}
         /\ Published(mc, Append(file, r)) = Published(mc, file)
<1> DEFINE new == Append(file, r)
           n == Len(mc) + 1
<1>1. /\ mc \in Seq(MainRecord)
      /\ file \in Seq(SidecarRecord) /\ Ordered(mc, file, f) /\ Kept(mc, file, f)
  BY DEF LogGood, FileGood
<1>2. /\ new \in Seq(SidecarRecord) /\ new # <<>>
      /\ DOMAIN new = DOMAIN file \cup {Len(file) + 1}
      /\ \A i \in DOMAIN file : new[i] = file[i]
      /\ new[Len(file) + 1] = r
  BY <1>1, AppendedIs
<1>3. \A i \in DOMAIN file : file[i].seq \in DOMAIN mc /\ f \in mc[file[i].seq].refs
  BY <1>1 DEF Ordered, Unpublished, Records
<1>4. \A i \in DOMAIN file : file[i].seq < r.seq /\ i < Len(file) + 1
  BY <1>1, <1>3
<1> HIDE DEF new
<1>5. Ordered(mc, new, f)
  <2>1. ASSUME NEW i \in DOMAIN new, NEW j \in DOMAIN new, i < j
        PROVE  new[i].seq < new[j].seq
    <3>1. i \in DOMAIN file
      BY <1>1, <1>2, <1>4, <2>1
    <3>2. CASE j \in DOMAIN file
      BY <1>1, <1>2, <2>1, <3>1, <3>2 DEF Ordered
    <3>3. CASE j = Len(file) + 1
      BY <1>2, <1>4, <3>1, <3>3
    <3> QED
      BY <1>2, <3>2, <3>3
  <2> QED
    BY <1>2, <1>3, <2>1 DEF Ordered
<1>6. Kept(mc, new, f)
  <2>1. file # <<>> => 1 \in DOMAIN file
    BY <1>1
  <2> QED
    BY <1>1, <1>2, <2>1 DEF Kept
<1>7. n \notin DOMAIN mc
  BY <1>1
<1>8. Unpublished(mc, new) = {r} /\ Published(mc, new) = Published(mc, file)
  BY <1>2, <1>3, <1>7 DEF Unpublished, Published, Records
<1> QED
  BY <1>2, <1>5, <1>6, <1>8 DEF FileGood, new

LEMMA AppendSidecarStep ==
  ASSUME IInv, NEW f \in Sidecar, AppendSidecar(f)
  PROVE  IInv' /\ Log' = Log /\ Replayed(Log, sidecar') = Replayed(Log, Whole)
<1> DEFINE b == op.batch
           r == Staged(Log, b, f)
<1>1. /\ op.stage = "append" /\ f \in op.left
      /\ sidecar' = [sidecar EXCEPT ![f] =
           Append(@, [seq |-> mem.seq + 1, base |-> f = Sticky /\ op.batch.sticky = "base"])]
      /\ op' = [op EXCEPT !.left = @ \ {f}]
      /\ UNCHANGED <<main, up, mem>>
  BY DEF AppendSidecar, NextAppend
<1>2. /\ up /\ main = Log /\ sidecar = Whole /\ mem = Replayed(Log, Whole)
      /\ mem.seq = Len(Log) /\ Len(Log) < MaxSeq
      /\ op \in [stage : {"append"}, batch : Batches, left : SUBSET Sidecar]
      /\ b \in Batches /\ op.left \in SUBSET Sidecar /\ op.left \subseteq Refs(b)
      /\ \A g \in Sidecar : Unpublished(Log, Whole[g]) =
           IF g \in Refs(b) \ op.left THEN {Staged(Log, b, g)} ELSE {}
  BY <1>1, AppendFacts
<1>3. /\ Log \in Seq(MainRecord) /\ LogGood(Log)
      /\ \A g \in Sidecar : FileGood(Log, Whole[g], g) /\ Whole[g] \in Seq(SidecarRecord)
  BY GoodFacts
<1>4. r \in SidecarRecord /\ r.seq = Len(Log) + 1
  BY <1>2, <1>3, StorageAssumption DEF Staged, SidecarRecord
<1>5. /\ DOMAIN sidecar' = Sidecar /\ sidecar' = [g \in Sidecar |-> sidecar'[g]]
      /\ sidecar'[f] = Append(Whole[f], r)
      /\ \A g \in Sidecar \ {f} : sidecar'[g] = Whole[g]
  BY <1>1, <1>2 DEF Staged, Whole
<1>6. /\ FileGood(Log, sidecar'[f], f)
      /\ Unpublished(Log, sidecar'[f]) = {r}
      /\ Published(Log, sidecar'[f]) = Published(Log, Whole[f])
  <2>1. Unpublished(Log, Whole[f]) = {}
    BY <1>1, <1>2
  <2> HIDE DEF r
  <2> QED
    BY <1>2, <1>3, <1>4, <1>5, <2>1, AppendFile
<1>7. \A g \in Sidecar : FileGood(Log, sidecar'[g], g)
  BY <1>3, <1>5, <1>6
<1>8. sidecar' \in [Sidecar -> Seq(SidecarRecord)]
  BY <1>5, <1>7 DEF FileGood
<1>9. Log' = Log /\ Whole' = sidecar' /\ FilesGood'
  BY <1>1, <1>2, <1>7, <1>8, CleanStep
<1>10. \A g \in Sidecar : Published(Log, Whole'[g]) = Published(Log, Whole[g])
  BY <1>5, <1>6, <1>9
<1>s. Replayed(Log, sidecar') = Replayed(Log, Whole)
  BY <1>3, <1>9, <1>10, SameReplay
<1>11. Serving'
  BY <1>1, <1>2, <1>9, <1>s DEF Serving
<1>12. /\ op' \in [stage : {"append"}, batch : Batches, left : SUBSET Sidecar]
       /\ op'.stage = "append" /\ op'.batch = b /\ op'.left = op.left \ {f}
  BY <1>1, <1>2
<1>13. OpGood'
  <2>1. \A g \in Sidecar : Unpublished(Log, sidecar'[g]) =
          IF g \in Refs(b) \ op'.left THEN {Staged(Log, b, g)} ELSE {}
    <3> TAKE g \in Sidecar
    <3>1. CASE g = f
      BY <1>1, <1>2, <1>6, <1>12, <3>1
    <3>2. CASE g # f
      BY <1>2, <1>5, <1>12, <3>2
    <3> QED
      BY <3>1, <3>2
  <2>2. Atomic!Accepts(mem, b) /\ mem.seq < MaxSeq
    BY <1>1 DEF IInv, OpGood
  <2> QED
    BY <1>1, <1>2, <1>9, <1>12, <2>1, <2>2 DEF OpGood
<1>14. TypeOK'
  <2>1. op'.left \subseteq Refs(op'.batch)
    BY <1>2, <1>12
  <2> QED
    BY <1>1, <1>8, <1>12, <2>1 DEF IInv, TypeOK
<1> QED
  BY <1>s, <1>9, <1>10, <1>11, <1>13, <1>14 DEF IInv

\* The record of the commit under way reaches main.
LEMMA PublishedFiles ==
  ASSUME IInv, ~PatchAndEnd, op.stage = "append", op.left = {}, AppendMain, UNCHANGED sidecar
  PROVE  /\ Log' = Append(Log, Record(Log, op.batch)) /\ Whole' = Whole /\ main' = Log'
         /\ FilesGood' /\ main' \in Seq(MainRecord)
         /\ \A f \in Sidecar : Unpublished(Log', Whole[f]) = {}
         /\ Replayed(Log', Whole) = Atomic!Apply(Replayed(Log, Whole), op.batch)
<1> DEFINE b == op.batch
           mc2 == Append(Log, Record(Log, b))
<1>1. /\ up /\ main = Log /\ sidecar = Whole /\ mem = Replayed(Log, Whole)
      /\ mem.seq = Len(Log) /\ Len(Log) < MaxSeq /\ b \in Batches
      /\ Atomic!Accepts(Replayed(Log, Whole), b)
      /\ \A f \in Sidecar : Unpublished(Log, Whole[f]) =
           IF f \in Refs(b) THEN {Staged(Log, b, f)} ELSE {}
  BY AppendFacts
<1>2. /\ Log \in Seq(MainRecord) /\ LogGood(Log)
      /\ \A f \in Sidecar : FileGood(Log, Whole[f], f)
  BY GoodFacts
<1>3. main' = mc2
  BY <1>1 DEF AppendMain, Record
<1> HIDE DEF b
<1>4. LogGood(mc2)
  BY <1>1, <1>2, PublishLog
<1>5. \A f \in Sidecar : FileGood(mc2, Whole[f], f) /\ Unpublished(mc2, Whole[f]) = {}
  BY <1>1, <1>2, PublishFile
<1>6. Replayed(mc2, Whole) = Atomic!Apply(Replayed(Log, Whole), b)
  BY <1>1, <1>2, PublishReplays
<1> HIDE DEF mc2
<1>7. Log' = mc2
  <2>1. mc2 \in Seq(MainRecord) /\ \A p \in DOMAIN mc2 : mc2[p].seq # 0
    BY <1>4 DEF LogGood, Numbered
  <2> QED
    BY <1>3, <2>1, CleanIsWhole DEF Log
<1>8. Whole' = Whole
  BY DEF Whole
<1>9. FilesGood' /\ main' \in Seq(MainRecord)
  BY <1>3, <1>4, <1>5, <1>7, <1>8 DEF FilesGood, LogGood
<1> QED
  BY <1>3, <1>5, <1>6, <1>7, <1>8, <1>9 DEF mc2, b

LEMMA PublishStep ==
  ASSUME IInv, ~PatchAndEnd, Publish
  PROVE  IInv'
<1> DEFINE b == op.batch
<1>1. /\ op.stage = "append" /\ op.left = {} /\ AppendMain /\ UNCHANGED <<sidecar, up>>
      /\ mem' = Atomic!Apply(mem, b)
      /\ op' = IF b.end = {} THEN NoOp ELSE [stage |-> "retire", left |-> b.end]
  BY DEF Publish
<1>2. /\ Log' = Append(Log, Record(Log, b)) /\ Whole' = Whole /\ main' = Log'
      /\ FilesGood' /\ main' \in Seq(MainRecord)
      /\ \A f \in Sidecar : Unpublished(Log', Whole[f]) = {}
      /\ Replayed(Log', Whole) = Atomic!Apply(Replayed(Log, Whole), b)
  BY <1>1, PublishedFiles
<1>3. up /\ sidecar = Whole /\ mem = Replayed(Log, Whole) /\ b \in Batches /\ Log \in Seq(MainRecord)
  BY <1>1, AppendFacts, GoodFacts
<1> HIDE DEF b
<1>4. Serving'
  BY <1>1, <1>2, <1>3 DEF Serving
<1>5. b.end \in SUBSET Task
  BY <1>3, BatchIs
<1>6. OpGood'
  <2>1. \A t \in b.end : Ends(Log', t) # {}
    <3> DEFINE n == Len(Log) + 1
    <3>1. Record(Log, b) \in MainRecord
      <4>1. Append(Log, Record(Log, b)) \in Seq(MainRecord) /\ Append(Log, Record(Log, b))[n] = Record(Log, b)
            /\ n \in DOMAIN Append(Log, Record(Log, b))
        BY <1>2, <1>3
      <4> QED
        BY <4>1
    <3>2. n \in DOMAIN Log' /\ Log'[n] = Record(Log, b) /\ Log' \in Seq(MainRecord)
      BY <1>2, <1>3, <3>1, AppendedIs
    <3> QED
      BY <3>2 DEF Ends, Records, Record
  <2>2. op'.stage # "append"
    BY <1>1 DEF NoOp
  <2>3. op'.stage = "retire" => op'.left = b.end
    BY <1>1 DEF NoOp
  <2> QED
    BY <1>1, <1>2, <1>3, <2>1, <2>2, <2>3 DEF OpGood
<1>7. mem' \in Tables
  BY <1>1, <1>2, <1>3, ReplayedTyped DEF FilesGood
<1>8. TypeOK'
  <2>1. op' = NoOp \/ op' \in [stage : {"retire"}, left : (SUBSET Task) \ {{}}]
    <3>1. b.end # {} => b.end \in (SUBSET Task) \ {{}}
      BY <1>5
    <3> QED
      BY <1>1, <3>1
  <2>2. sidecar' \in [Sidecar -> Seq(SidecarRecord)] /\ up' \in BOOLEAN
    BY <1>1 DEF IInv, TypeOK
  <2> QED
    BY <1>2, <1>7, <2>1, <2>2 DEF TypeOK
<1> QED
  BY <1>2, <1>4, <1>6, <1>8 DEF IInv

LEMMA RetireFacts ==
  ASSUME IInv, NEW t \in Task, RetireTaskSidecar(t)
  PROVE  /\ up /\ main = Log /\ sidecar = Whole /\ mem = Replayed(Log, Whole)
         /\ op \in [stage : {"retire"}, left : (SUBSET Task) \ {{}}]
         /\ t \in Dead(Log)
         /\ \A f \in Sidecar : Unpublished(Log, Whole[f]) = {}
<1>1. op.stage = "retire" /\ t \in op.left
  BY DEF RetireTaskSidecar
<1>2. up /\ Ends(Log, t) # {}
  BY <1>1 DEF IInv, OpGood
<1>3. main = Log /\ sidecar = Whole /\ mem = Replayed(Log, Whole) /\ Log \in Seq(MainRecord) /\ LogGood(Log)
  BY <1>2, GoodFacts
<1>4. \A f \in Sidecar : Unpublished(Log, Whole[f]) = {}
  BY <1>1, <1>2, <1>3 DEF IInv, OpGood
<1>5. op \in [stage : {"retire"}, left : (SUBSET Task) \ {{}}]
  BY <1>1 DEF IInv, TypeOK, NoOp
<1>6. t \in Dead(Log)
  BY <1>2, <1>3, EndsIs DEF Dead, LogGood
<1> QED
  BY <1>2, <1>3, <1>4, <1>5, <1>6

LEMMA RetireStep ==
  ASSUME IInv, NEW t \in Task, RetireTaskSidecar(t)
  PROVE  IInv' /\ Log' = Log /\ Replayed(Log, sidecar') = Replayed(Log, Whole)
<1>1. /\ up /\ main = Log /\ sidecar = Whole /\ mem = Replayed(Log, Whole)
      /\ op \in [stage : {"retire"}, left : (SUBSET Task) \ {{}}]
      /\ t \in Dead(Log)
      /\ \A f \in Sidecar : Unpublished(Log, Whole[f]) = {}
  BY RetireFacts
<1>2. /\ sidecar' \in {sidecar, Without(sidecar, {t})} /\ UNCHANGED <<main, up, mem>>
      /\ op' = IF op.left = {t} THEN NoOp ELSE [op EXCEPT !.left = @ \ {t}]
      /\ t \in op.left
  BY DEF RetireTaskSidecar
<1>3. LogGood(Log) /\ \A f \in Sidecar : FileGood(Log, Whole[f], f)
  BY GoodFacts
<1>4. /\ DOMAIN sidecar' = Sidecar /\ sidecar' = [f \in Sidecar |-> sidecar'[f]]
      /\ \A f \in Sidecar : sidecar'[f] = Whole[f] \/ (f = t /\ sidecar'[f] = <<>>)
  BY <1>1, <1>2 DEF Without, Whole
<1>5. ASSUME NEW f \in Sidecar
      PROVE  /\ FileGood(Log, sidecar'[f], f) /\ Unpublished(Log, sidecar'[f]) = {}
             /\ f \in Dead(Log) \/ Published(Log, sidecar'[f]) = Published(Log, Whole[f])
  <2>1. FileGood(Log, <<>>, t) /\ Unpublished(Log, <<>>) = {}
    BY <1>1, <1>3, EmptyGood DEF Unpublished, Records
  <2> QED
    BY <1>1, <1>3, <1>4, <2>1
<1>6. sidecar' \in [Sidecar -> Seq(SidecarRecord)]
  BY <1>4, <1>5 DEF FileGood
<1>7. Log' = Log /\ Whole' = sidecar' /\ FilesGood'
  BY <1>1, <1>2, <1>5, <1>6, CleanStep
<1>s. Replayed(Log, sidecar') = Replayed(Log, Whole)
  BY <1>3, <1>5, SameReplay
<1>8. Serving'
  BY <1>1, <1>2, <1>7, <1>s DEF Serving
<1>9. /\ op' = NoOp \/ op' \in [stage : {"retire"}, left : (SUBSET Task) \ {{}}]
      /\ op'.stage # "append"
      /\ op'.stage = "retire" => op'.left \subseteq op.left
  BY <1>1, <1>2 DEF NoOp
<1>10. OpGood'
  <2>1. \A u \in op.left : Ends(Log, u) # {}
    BY <1>1 DEF IInv, OpGood
  <2> QED
    BY <1>1, <1>2, <1>5, <1>7, <1>9, <2>1 DEF OpGood
<1>11. TypeOK'
  BY <1>2, <1>6, <1>9 DEF IInv, TypeOK
<1> QED
  BY <1>s, <1>5, <1>7, <1>8, <1>10, <1>11 DEF IInv

\* The sticky sidecar from its last base on stands for the same document.
LEMMA TruncateFile ==
  ASSUME NEW mc, LogGood(mc), NEW w, NEW v, w[Sticky] \in Seq(SidecarRecord),
         FileGood(mc, w[Sticky], Sticky), Unpublished(mc, w[Sticky]) = {},
         NEW k \in DOMAIN w[Sticky], w[Sticky][k].base,
         \A i \in DOMAIN w[Sticky] : w[Sticky][i].base => i <= k,
         v[Sticky] = SubSeq(w[Sticky], k, Len(w[Sticky]))
  PROVE  /\ FileGood(mc, v[Sticky], Sticky)
         /\ Unpublished(mc, v[Sticky]) = {}
         /\ ReplayedSticky(mc, v) = ReplayedSticky(mc, w)
<1> DEFINE file == w[Sticky]
           new == v[Sticky]
<1>1. /\ mc \in Seq(MainRecord) /\ Numbered(mc) /\ Sticky \in Sidecar
      /\ file \in Seq(SidecarRecord) /\ Ordered(mc, file, Sticky) /\ Kept(mc, file, Sticky)
  BY DEF LogGood, FileGood, Sidecar
<1>a. new = SubSeq(file, k, Len(file))
  OBVIOUS
<1> HIDE DEF file, new
<1>2. \A i \in DOMAIN file : file[i].seq \in DOMAIN mc /\ Sticky \in mc[file[i].seq].refs
  BY <1>1 DEF Ordered, Unpublished, Records, file
<1>3. /\ k \in 1..(Len(file) + 1) /\ Len(file) \in 0..Len(file) /\ k <= Len(file) + 1
      /\ k \in Nat /\ k <= Len(file)
  BY <1>1 DEF file
<1>4. /\ new \in Seq(SidecarRecord) /\ Len(new) = Len(file) + 1 - k
      /\ \A i \in 1..(Len(file) + 1 - k) : new[i] = file[k + i - 1]
  BY <1>1, <1>3, <1>a, PieceIs
<1> DEFINE n == Len(file)
<1>0. n \in Nat /\ DOMAIN file = 1..n /\ DOMAIN new = 1..(n + 1 - k)
  BY <1>1, <1>3, <1>4
<1>5. \A i \in DOMAIN new : k + i - 1 \in DOMAIN file /\ new[i] = file[k + i - 1]
  <2>1. \A i \in 1..(n + 1 - k) : k + i - 1 \in 1..n
    BY <1>0, <1>3
  <2> QED
    BY <1>0, <1>4, <2>1
<1>6. \A i \in DOMAIN file : i >= k => (i + 1 - k) \in DOMAIN new /\ new[i + 1 - k] = file[i]
  <2>1. \A i \in 1..n : i >= k => (i + 1 - k) \in 1..(n + 1 - k) /\ k + (i + 1 - k) - 1 = i
    BY <1>0, <1>3
  <2> QED
    BY <1>0, <1>5, <2>1
<1>7. 1 \in DOMAIN new /\ new # <<>> /\ new[1] = file[k] /\ new[1].base
  <2>1. 1 \in 1..(n + 1 - k) /\ k + 1 - 1 = k
    BY <1>0, <1>3
  <2>2. 1 \in DOMAIN new /\ new[1] = file[k]
    BY <1>0, <1>5, <2>1
  <2>3. new # <<>>
    BY <2>2
  <2> QED
    BY <2>2, <2>3 DEF file
<1>8. \A i, j \in DOMAIN file : i < j => file[i].seq < file[j].seq
  BY <1>1 DEF Ordered
<1>9. \A i, j \in DOMAIN file : i \in Nat /\ file[i].seq \in Nat /\ (i <= j <=> file[i].seq <= file[j].seq)
  <2> TAKE i, j \in DOMAIN file
  <2>1. i \in Nat /\ j \in Nat /\ file[i].seq \in Nat /\ file[j].seq \in Nat
    BY <1>1, NumberIsNat
  <2> QED
    BY <1>8, <2>1
<1>10. Ordered(mc, new, Sticky)
  <2>1. \A i, j \in DOMAIN new : i < j => k + i - 1 < k + j - 1
    BY <1>3, <1>4
  <2> QED
    BY <1>2, <1>5, <1>8, <2>1 DEF Ordered
<1>11. Kept(mc, new, Sticky)
  <2> SUFFICES ASSUME NEW p \in DOMAIN mc, Sticky \in mc[p].refs
               PROVE  \/ \E i \in DOMAIN new : new[i].seq = p
                      \/ new # <<>> /\ new[1].base /\ p < new[1].seq /\ new[1].seq <= Len(mc)
    BY DEF Kept
  <2>1. new[1].seq \in 1..Len(mc) /\ new[1].seq = file[k].seq /\ k \in DOMAIN file
    BY <1>1, <1>2, <1>3, <1>7
  <2>2. CASE \E i \in DOMAIN file : file[i].seq = p
    <3>1. PICK i \in DOMAIN file : file[i].seq = p
      BY <2>2
    <3>2. CASE i >= k
      BY <1>6, <3>1, <3>2
    <3>3. CASE ~(i >= k)
      <4>1. i < k
        BY <1>3, <1>9, <3>3
      <4>2. p < new[1].seq
        BY <1>8, <2>1, <3>1, <4>1
      <4> QED
        BY <1>1, <1>7, <2>1, <4>2
    <3> QED
      BY <3>2, <3>3
  <2>3. CASE file # <<>> /\ file[1].base /\ p < file[1].seq
    <3>1. 1 \in DOMAIN file /\ file[1].seq <= file[k].seq /\ p \in Nat
      BY <1>1, <1>3, <1>9, <2>1, <2>3
    <3>2. p < new[1].seq
      BY <1>9, <2>1, <2>3, <3>1
    <3> QED
      BY <1>1, <1>7, <2>1, <3>2
  <2>4. Sticky \notin Task
    BY StorageAssumption
  <2> QED
    BY <1>1, <2>2, <2>3, <2>4 DEF Kept
<1>12. Unpublished(mc, new) = {}
  <2>1. Len(mc) + 1 \notin DOMAIN mc
    BY <1>1
  <2> QED
    BY <1>2, <1>5, <2>1 DEF Unpublished, Records
<1>13. ReplayedSticky(mc, v) = ReplayedSticky(mc, w)
  <2> DEFINE old == Records(file)
             rest == Records(new)
  <2>1. \A r \in old : Confirmed(mc, Sticky, r)
    BY <1>1, <1>2, ConfirmedIs DEF Records
  <2>2. rest \subseteq old
    BY <1>5 DEF Records
  <2>3. v[Sticky] = new
    BY DEF new
  <2>4. ReplayedSticky(mc, w) = {r.seq : r \in {q \in old : \A c \in old : c.base => c.seq <= q.seq}}
    <3>1. {r \in old : Confirmed(mc, Sticky, r)} = old
      BY <2>1
    <3> QED
      BY <3>1 DEF ReplayedSticky, file
  <2>5. ReplayedSticky(mc, v) =
          {r.seq : r \in {q \in rest : \A c \in rest : c.base => c.seq <= q.seq}}
    <3>1. {r \in rest : Confirmed(mc, Sticky, r)} = rest
      BY <2>1, <2>2
    <3> QED
      BY <2>3, <3>1 DEF ReplayedSticky
  <2>6. k \in DOMAIN file /\ file[k] \in old /\ file[k].base
    BY <1>1 DEF Records, file
  <2>7. \A c \in old : c.base => c.seq <= file[k].seq
    BY <1>9, <2>6 DEF Records, file
  <2>8. rest = {q \in old : file[k].seq <= q.seq}
    <3>1. \A q \in rest : file[k].seq <= q.seq
      BY <1>3, <1>4, <1>5, <1>9, <2>6 DEF Records
    <3>2. \A i \in DOMAIN file : file[k].seq <= file[i].seq => i >= k
      BY <1>9, <2>6
    <3>3. \A q \in old : file[k].seq <= q.seq => q \in rest
      BY <1>6, <3>2 DEF Records
    <3> QED
      BY <2>2, <3>1, <3>3
  <2>9. \A q \in old : (\A c \in old : c.base => c.seq <= q.seq) <=> file[k].seq <= q.seq
    <3> TAKE q \in old
    <3>1. \A c \in old : c.seq \in Nat
      BY <1>9 DEF Records
    <3> HIDE DEF old
    <3> QED
      BY <2>6, <2>7, <3>1
  <2>10. \A q \in rest : \A c \in rest : c.base => c.seq <= q.seq
    BY <2>2, <2>8, <2>9
  <2> HIDE DEF old, rest
  <2>11. {q \in old : \A c \in old : c.base => c.seq <= q.seq} = rest
    BY <2>8, <2>9
  <2>12. {q \in rest : \A c \in rest : c.base => c.seq <= q.seq} = rest
    BY <2>10
  <2> QED
    BY <2>4, <2>5, <2>11, <2>12
<1> QED
  BY <1>4, <1>10, <1>11, <1>12, <1>13 DEF FileGood, new

LEMMA TruncateStep ==
  ASSUME IInv, Truncate
  PROVE  IInv' /\ Log' = Log /\ Replayed(Log, sidecar') = Replayed(Log, Whole)
<1> DEFINE bases == {i \in DOMAIN sidecar[Sticky] : sidecar[Sticky][i].base}
<1>1. /\ up /\ op = NoOp /\ UNCHANGED <<main, up, mem, op>> /\ bases # {}
      /\ sidecar' = [sidecar EXCEPT ![Sticky] = SubSeq(@, Max(bases), Len(@))]
  BY DEF Truncate
<1>2. main = Log /\ sidecar = Whole /\ mem = Replayed(Log, Whole) /\ Log \in Seq(MainRecord) /\ LogGood(Log)
  BY <1>1, GoodFacts
<1>3. \A f \in Sidecar : FileGood(Log, sidecar[f], f) /\ Unpublished(Log, sidecar[f]) = {}
  BY <1>1, <1>2, GoodFacts DEF IInv, OpGood, NoOp
<1>4. sidecar \in [Sidecar -> Seq(SidecarRecord)] /\ Sticky \in Sidecar
  BY DEF IInv, TypeOK, Sidecar
<1>5. PICK k \in bases : \A i \in bases : i <= k
  <2>1. sidecar[Sticky] \in Seq(SidecarRecord)
    BY <1>4
  <2>2. bases \in SUBSET (0..Len(sidecar[Sticky])) /\ Len(sidecar[Sticky]) \in Nat
    BY <2>1
  <2> HIDE DEF bases
  <2> QED
    BY <1>1, <2>2, GreatestExists
<1>6. Max(bases) = k
  <2>1. bases \in SUBSET Nat
    BY <1>4
  <2> HIDE DEF bases
  <2> QED
    BY <1>5, <2>1, MaxIs
<1> DEFINE new == SubSeq(sidecar[Sticky], k, Len(sidecar[Sticky]))
<1>7. sidecar' = [sidecar EXCEPT ![Sticky] = new]
  BY <1>1, <1>6
<1>8. /\ DOMAIN sidecar' = Sidecar /\ sidecar' = [f \in Sidecar |-> sidecar'[f]]
      /\ sidecar'[Sticky] = new
      /\ \A f \in Sidecar \ {Sticky} : sidecar'[f] = sidecar[f]
  BY <1>4, <1>7
<1>9. /\ FileGood(Log, sidecar'[Sticky], Sticky) /\ Unpublished(Log, sidecar'[Sticky]) = {}
      /\ ReplayedSticky(Log, sidecar') = ReplayedSticky(Log, sidecar)
  <2>1. k \in DOMAIN sidecar[Sticky] /\ sidecar[Sticky][k].base
    BY <1>5
  <2>2. \A i \in DOMAIN sidecar[Sticky] : sidecar[Sticky][i].base => i <= k
    BY <1>5
  <2>3. FileGood(Log, sidecar[Sticky], Sticky) /\ Unpublished(Log, sidecar[Sticky]) = {}
    BY <1>3, <1>4
  <2>4. sidecar'[Sticky] = SubSeq(sidecar[Sticky], k, Len(sidecar[Sticky]))
    BY <1>8
  <2>5. sidecar[Sticky] \in Seq(SidecarRecord)
    BY <1>4
  <2> HIDE DEF new, bases
  <2> QED
    BY ONLY <1>2, <2>1, <2>2, <2>3, <2>4, <2>5, TruncateFile
<1> HIDE DEF new, bases
<1>10. \A f \in Sidecar : FileGood(Log, sidecar'[f], f) /\ Unpublished(Log, sidecar'[f]) = {}
  BY <1>3, <1>8, <1>9
<1>11. sidecar' \in [Sidecar -> Seq(SidecarRecord)]
  BY <1>8, <1>10 DEF FileGood
<1>12. Log' = Log /\ Whole' = sidecar' /\ FilesGood'
  BY <1>1, <1>2, <1>10, <1>11, CleanStep
<1>13. Replayed(Log, sidecar') = Replayed(Log, Whole)
  <2>1. \A t \in Task : ReplayedTask(Log, sidecar', t) = ReplayedTask(Log, Whole, t)
    <3> TAKE t \in Task
    <3>1. sidecar'[t] = Whole[t]
      BY <1>2, <1>8, StorageAssumption DEF Sidecar
    <3> QED
      BY <3>1 DEF ReplayedTask, ConfirmedSeqs
  <2>2. ReplayedSticky(Log, sidecar') = ReplayedSticky(Log, Whole)
    BY <1>2, <1>9
  <2> QED
    BY <2>1, <2>2 DEF Replayed
<1>14. Serving'
  BY <1>1, <1>2, <1>12, <1>13 DEF Serving
<1>15. OpGood'
  BY <1>1, <1>10, <1>12 DEF OpGood, NoOp
<1>16. TypeOK'
  BY <1>1, <1>11 DEF IInv, TypeOK
<1> QED
  BY <1>12, <1>13, <1>14, <1>15, <1>16 DEF IInv

\* A line that a stop cut short is not there once the tails are cut.
LEMMA StopInAppendStep ==
  ASSUME IInv, StopInAppend
  PROVE  IInv' /\ Log' = Log /\ Whole' = Whole
<1>1. /\ up' = FALSE /\ op' = NoOp /\ mem' = Replayed(<<>>, [f \in Sidecar |-> <<>>])
      /\ op.stage = "append" /\ up
      /\ \/ main' = Append(main, TornMain) /\ sidecar' = sidecar
         \/ /\ \E f \in Sidecar : sidecar' = [sidecar EXCEPT ![f] = Append(@, Torn)]
            /\ main' = main
  <2>1. op.stage = "append" => op.left \subseteq Sidecar
    BY AppendFacts
  <2> QED
    BY <2>1 DEF StopInAppend, Stopped, NextAppend
<1>2. /\ main = Log /\ sidecar = Whole /\ Log \in Seq(MainRecord) /\ TruncateTorn(Log) = Log
      /\ \A f \in Sidecar : Whole[f] \in Seq(SidecarRecord) /\ TruncateTorn(Whole[f]) = Whole[f]
      /\ sidecar \in [Sidecar -> Seq(SidecarRecord)]
  BY <1>1, GoodFacts DEF IInv, TypeOK
<1>3. TornMain \in MainRecord /\ TornMain.seq = 0 /\ Torn \in SidecarRecord /\ Torn.seq = 0
  BY StorageAssumption DEF TornMain, MainRecord, Torn, SidecarRecord
<1>4. Log' = Log /\ main' \in Seq(MainRecord)
  <2>1. CASE main' = main
    BY <1>2, <2>1 DEF Log
  <2>2. CASE main' = Append(main, TornMain)
    BY <1>2, <1>3, <2>2, TornIsCut DEF Log
  <2> QED
    BY <1>1, <2>1, <2>2
<1>5. Whole' = Whole /\ sidecar' \in [Sidecar -> Seq(SidecarRecord)]
  <2>1. CASE sidecar' = sidecar
    BY <1>2, <2>1 DEF Whole
  <2>2. ASSUME NEW f \in Sidecar, sidecar' = [sidecar EXCEPT ![f] = Append(@, Torn)]
        PROVE  Whole' = Whole /\ sidecar' \in [Sidecar -> Seq(SidecarRecord)]
    <3>1. sidecar'[f] = Append(Whole[f], Torn) /\ \A g \in Sidecar \ {f} : sidecar'[g] = Whole[g]
      BY <1>2, <2>2
    <3>2. TruncateTorn(sidecar'[f]) = Whole[f]
      BY <1>2, <1>3, <3>1, TornIsCut
    <3>3. \A g \in Sidecar : TruncateTorn(sidecar'[g]) = Whole[g]
      BY <1>2, <3>1, <3>2
    <3>4. Whole' = [g \in Sidecar |-> Whole[g]]
      BY <3>3 DEF Whole
    <3>5. Append(sidecar[f], Torn) \in Seq(SidecarRecord)
      BY <1>2, <1>3
    <3> QED
      BY <1>2, <2>2, <3>4, <3>5
  <2> QED
    BY <1>1, <2>1, <2>2
<1>6. FilesGood' /\ Serving' /\ OpGood'
  BY <1>1, <1>4, <1>5 DEF IInv, FilesGood, Serving, OpGood, NoOp
<1>7. mem' \in Tables
  BY <1>1, EmptyLogGood, ReplayedTyped
<1> QED
  BY <1>1, <1>4, <1>5, <1>6, <1>7 DEF IInv, TypeOK

LEMMA StopInPublishStep ==
  ASSUME IInv, ~PatchAndEnd, StopInPublish
  PROVE  IInv'
<1>1. /\ up' = FALSE /\ op' = NoOp /\ mem' = Replayed(<<>>, [f \in Sidecar |-> <<>>])
      /\ op.stage = "append" /\ op.left = {} /\ AppendMain /\ UNCHANGED sidecar
  BY DEF StopInPublish, Stopped
<1>2. FilesGood' /\ main' \in Seq(MainRecord)
  BY <1>1, PublishedFiles
<1>3. Serving' /\ OpGood'
  BY <1>1 DEF Serving, OpGood, NoOp
<1>4. mem' \in Tables
  BY <1>1, EmptyLogGood, ReplayedTyped
<1> QED
  BY <1>1, <1>2, <1>3, <1>4 DEF IInv, TypeOK

LEMMA InitGood ==
  ASSUME Init
  PROVE  IInv /\ Replayed(Log, sidecar) = Atomic!Empty
<1>1. main = <<>> /\ sidecar = [f \in Sidecar |-> <<>>] /\ up = FALSE /\ op = NoOp
      /\ mem = Replayed(<<>>, sidecar)
  BY DEF Init
<1>2. Log = <<>> /\ LogGood(Log) /\ <<>> \in Seq(MainRecord) /\ <<>> \in Seq(SidecarRecord)
  BY <1>1, EmptyLogGood DEF Log, TruncateTorn
<1>3. Whole = sidecar /\ sidecar \in [Sidecar -> Seq(SidecarRecord)]
  BY <1>1, <1>2 DEF Whole, TruncateTorn
<1>4. \A f \in Sidecar : FileGood(Log, Whole[f], f)
  BY <1>1, <1>2, <1>3 DEF FileGood, Ordered, Kept
<1>5. FilesGood /\ Serving /\ OpGood
  BY <1>1, <1>2, <1>4 DEF FilesGood, Serving, OpGood, NoOp
<1>6. mem \in Tables
  BY <1>1, EmptyLogGood, ReplayedTyped
<1>7. TypeOK
  BY <1>1, <1>2, <1>3, <1>6 DEF TypeOK
<1>8. Replayed(<<>>, sidecar) = Atomic!Empty
  <2>1. \A q : q \notin Records(<<>>)
    BY DEF Records
  <2>2. ASSUME NEW t \in Task
        PROVE  ReplayedTask(<<>>, sidecar, t) = [status |-> "absent", value |-> 0]
    <3>1. Ends(<<>>, t) = {} /\ Creations(<<>>, t) = {} /\ ConfirmedSeqs(<<>>, sidecar, t) = {}
      BY <2>1 DEF Ends, Creations, ConfirmedSeqs, Confirmed
    <3> QED
      BY <3>1 DEF ReplayedTask
  <2>3. ReplayedSticky(<<>>, sidecar) = {}
    BY <2>1 DEF ReplayedSticky, Confirmed
  <2> QED
    BY <2>2, <2>3 DEF Replayed, Atomic!Empty
<1> QED
  BY <1>2, <1>5, <1>7, <1>8 DEF IInv

-------------------------------------------------------------------------------
(***************************************************************************)
(* Theorems.  The type invariant holds of every storage.                   *)
(***************************************************************************)
Typed == TypeOK /\ (op.stage = "append" => up /\ mem.seq < MaxSeq)

LEMMA AppliedTyped ==
  ASSUME NEW tb \in Tables, tb.seq < MaxSeq, NEW b \in Batches
  PROVE  Atomic!Apply(tb, b) \in Tables
<1> DEFINE s == tb.seq + 1
           entry(t) == IF t \in b.end THEN [status |-> "terminal", value |-> 0]
                       ELSE IF t \in b.patch THEN [status |-> "live", value |-> s]
                       ELSE IF t \in b.create THEN [status |-> "live", value |-> 0]
                       ELSE tb.task[t]
           sticky == CASE b.sticky = "none"  -> tb.sticky
                       [] b.sticky = "delta" -> tb.sticky \cup {s}
                       [] b.sticky = "base"  -> {s}
<1>1. s \in 0..MaxSeq /\ 0 \in 0..MaxSeq
  BY StorageAssumption DEF Tables
<1>2. Atomic!Apply(tb, b) = [seq |-> s, sticky |-> sticky, task |-> [t \in Task |-> entry(t)]]
  BY DEF Atomic!Apply
<1>3. \A t \in Task : entry(t) \in [status : {"absent", "live", "terminal"}, value : 0..MaxSeq]
  <2> HIDE DEF s
  <2> QED
    BY <1>1 DEF Tables
<1>4. sticky \in SUBSET (0..MaxSeq)
  <2> HIDE DEF s
  <2> QED
    BY <1>1, BatchIs DEF Tables
<1> HIDE DEF s, entry, sticky
<1> QED
  BY <1>1, <1>2, <1>3, <1>4 DEF Tables

LEMMA OpenTyped ==
  ASSUME Typed, Open \/ OpenInterrupted
  PROVE  Typed'
<1> USE DEF Typed, TypeOK
<1>1. /\ Log \in Seq(MainRecord) /\ Whole \in [Sidecar -> Seq(SidecarRecord)]
      /\ main' \in {main, Log} /\ op' = op /\ UNCHANGED op /\ up' \in BOOLEAN
  BY WholeTyped DEF Open, OpenInterrupted, Log
<1>2. Repaired \in [Sidecar -> Seq(SidecarRecord)]
  <2> SUFFICES ASSUME NEW f \in Sidecar
               PROVE  TruncateUnconfirmed(f, Whole[f]) \in Seq(SidecarRecord)
    BY DEF Repaired
  <2> DEFINE file == Whole[f]
             confirmed == {i \in DOMAIN file : Confirmed(TruncateTorn(main), f, file[i])}
             n == Max({0} \cup confirmed)
  <2>1. file \in Seq(SidecarRecord) /\ Len(file) \in Nat
    BY <1>1
  <2>2. n \in 0..Len(file)
    <3>1. /\ {0} \cup confirmed \in SUBSET (0..Len(file)) /\ {0} \cup confirmed # {}
          /\ {0} \cup confirmed \in SUBSET Nat
      BY <2>1
    <3> HIDE DEF confirmed
    <3>2. PICK k \in {0} \cup confirmed : \A i \in {0} \cup confirmed : i <= k
      BY <2>1, <3>1, GreatestExists
    <3>3. Max({0} \cup confirmed) = k
      BY <3>1, <3>2, MaxIs
    <3> QED
      BY <3>1, <3>2, <3>3
  <2>3. TruncateUnconfirmed(f, file) = SubSeq(file, 1, n)
    BY DEF TruncateUnconfirmed
  <2> HIDE DEF n, file
  <2>4. TruncateUnconfirmed(f, file) \in Seq(SidecarRecord)
    BY <2>1, <2>2, <2>3, BeginningIs
  <2> QED
    BY <2>4 DEF file
<1>3. \A f \in Sidecar : sidecar'[f] \in {sidecar[f], Whole[f], Repaired[f], <<>>}
  BY DEF Open, OpenInterrupted, Without
<1>4. sidecar' = [f \in Sidecar |-> sidecar'[f]]
  BY DEF Open, OpenInterrupted, Without
<1>5. sidecar' \in [Sidecar -> Seq(SidecarRecord)]
  <2>1. <<>> \in Seq(SidecarRecord)
    OBVIOUS
  <2> QED
    BY <1>1, <1>2, <1>3, <1>4, <2>1
<1>6. mem' \in Tables /\ (op'.stage = "append" => up' /\ mem'.seq < MaxSeq)
  <2>1. CASE Open
    BY <2>1, <1>1, ReplayedTyped DEF Open, Log
  <2>2. CASE OpenInterrupted
    BY <2>2 DEF OpenInterrupted
  <2> QED
    BY <2>1, <2>2
<1> QED
  BY <1>1, <1>5, <1>6

LEMMA AppendMainTyped ==
  ASSUME main \in Seq(MainRecord), mem.seq \in 0..MaxSeq, mem.seq < MaxSeq, op.batch \in Batches,
         AppendMain
  PROVE  main' \in Seq(MainRecord)
<1> DEFINE r == [seq |-> mem.seq + 1, refs |-> Refs(op.batch),
                 create |-> op.batch.create, end |-> op.batch.end]
<1>1. r \in MainRecord
  BY BatchIs, StorageAssumption DEF MainRecord
<1>2. main' = Append(main, r)
  BY DEF AppendMain
<1> HIDE DEF r
<1> QED
  BY <1>1, <1>2

LEMMA CommitTyped ==
  ASSUME Typed,
         \/ \E b \in Batches : BeginCommit(b)
         \/ \E f \in Sidecar : AppendSidecar(f)
         \/ Publish
         \/ \E t \in Task : RetireTaskSidecar(t)
  PROVE  Typed'
<1> USE DEF Typed, TypeOK
<1>1. ASSUME NEW b \in Batches, BeginCommit(b) PROVE Typed'
  BY <1>1, BatchIs DEF BeginCommit
<1>2. ASSUME NEW f \in Sidecar, AppendSidecar(f) PROVE Typed'
  <2>1. /\ op \in [stage : {"append"}, batch : Batches, left : SUBSET Sidecar]
        /\ op.left \subseteq Refs(op.batch) /\ mem.seq < MaxSeq /\ mem.seq \in 0..MaxSeq
    BY <1>2 DEF AppendSidecar, NoOp, Tables
  <2>2. [seq |-> mem.seq + 1, base |-> f = Sticky /\ op.batch.sticky = "base"] \in SidecarRecord
    BY <2>1, StorageAssumption DEF SidecarRecord
  <2>3. Append(sidecar[f], [seq |-> mem.seq + 1, base |-> f = Sticky /\ op.batch.sticky = "base"])
          \in Seq(SidecarRecord)
    BY <2>2
  <2>4. sidecar' \in [Sidecar -> Seq(SidecarRecord)]
    BY <1>2, <2>3 DEF AppendSidecar
  <2>5. op' \in [stage : {"append"}, batch : Batches, left : SUBSET Sidecar] /\ op'.left \subseteq op.left
        /\ op'.batch = op.batch
    BY <1>2, <2>1 DEF AppendSidecar
  <2> QED
    BY <1>2, <2>1, <2>4, <2>5 DEF AppendSidecar
<1>3. CASE Publish
  <2>1. /\ op \in [stage : {"append"}, batch : Batches, left : SUBSET Sidecar]
        /\ mem.seq < MaxSeq /\ mem \in Tables /\ op.batch \in Batches /\ mem.seq \in 0..MaxSeq
    BY <1>3 DEF Publish, NoOp, Tables
  <2>2. mem' \in Tables
    BY <1>3, <2>1, AppliedTyped DEF Publish
  <2>3. main' \in Seq(MainRecord)
    BY <1>3, <2>1, AppendMainTyped DEF Publish
  <2>4. op' = NoOp \/ op' \in [stage : {"retire"}, left : (SUBSET Task) \ {{}}]
    <3>1. op.batch.end \in SUBSET Task
      BY <2>1, BatchIs
    <3>2. op.batch.end # {} => op.batch.end \in (SUBSET Task) \ {{}}
      BY <3>1
    <3> QED
      BY <1>3, <3>2 DEF Publish
  <2>5. op'.stage # "append"
    BY <1>3 DEF Publish, NoOp
  <2> QED
    BY <1>3, <2>2, <2>3, <2>4, <2>5 DEF Publish
<1>4. ASSUME NEW t \in Task, RetireTaskSidecar(t) PROVE Typed'
  <2>1. op \in [stage : {"retire"}, left : (SUBSET Task) \ {{}}]
    BY <1>4 DEF RetireTaskSidecar, NoOp
  <2>2. (op' = NoOp \/ op' \in [stage : {"retire"}, left : (SUBSET Task) \ {{}}]) /\ op'.stage # "append"
    BY <1>4, <2>1 DEF RetireTaskSidecar, NoOp
  <2>3. sidecar' \in [Sidecar -> Seq(SidecarRecord)]
    <3>1. Without(sidecar, {t}) \in [Sidecar -> Seq(SidecarRecord)]
      BY EmptyLogGood DEF Without
    <3> QED
      BY <1>4, <3>1 DEF RetireTaskSidecar
  <2> QED
    BY <1>4, <2>2, <2>3 DEF RetireTaskSidecar
<1> QED
  BY <1>1, <1>2, <1>3, <1>4

LEMMA StopTyped ==
  ASSUME Typed, Truncate \/ Stop \/ StopInAppend \/ StopInPublish
  PROVE  Typed'
<1> USE DEF Typed, TypeOK
<1>1. CASE Truncate
  <2> DEFINE bases == {i \in DOMAIN sidecar[Sticky] : sidecar[Sticky][i].base}
             file == sidecar[Sticky]
  <2>1. bases # {} /\ sidecar' = [sidecar EXCEPT ![Sticky] = SubSeq(@, Max(bases), Len(@))]
        /\ UNCHANGED <<main, up, mem, op>>
    BY <1>1 DEF Truncate
  <2>2. file \in Seq(SidecarRecord) /\ bases \in SUBSET (0..Len(file)) /\ bases \in SUBSET Nat
        /\ bases \in SUBSET (1..Len(file)) /\ Len(file) \in Nat
    BY DEF Sidecar
  <2> HIDE DEF bases
  <2>3. PICK k \in bases : \A i \in bases : i <= k
    BY <2>1, <2>2, GreatestExists
  <2>4. Max(bases) = k
    BY <2>2, <2>3, MaxIs
  <2>5. SubSeq(file, k, Len(file)) \in Seq(SidecarRecord)
    <3>1. k \in 1..(Len(file) + 1) /\ Len(file) \in 0..Len(file) /\ k <= Len(file) + 1
      BY <2>2, <2>3
    <3> HIDE DEF file
    <3> QED
      BY <2>2, <3>1, PieceIs
  <2>6. sidecar' \in [Sidecar -> Seq(SidecarRecord)]
    BY <2>1, <2>4, <2>5
  <2> QED
    BY <2>1, <2>6
<1>2. CASE Stop \/ StopInAppend \/ StopInPublish
  <2>1. up' = FALSE /\ op' = NoOp /\ mem' \in Tables /\ op'.stage # "append"
    <3>1. Stopped
      BY <1>2 DEF Stop, StopInAppend, StopInPublish
    <3>2. Replayed(<<>>, [f \in Sidecar |-> <<>>]) \in Tables
      BY EmptyLogGood, ReplayedTyped
    <3> QED
      BY <3>1, <3>2 DEF Stopped, NoOp
  <2>2. CASE Stop
    BY <2>1, <2>2 DEF Stop
  <2>3. CASE StopInAppend
    <3>1. TornMain \in MainRecord /\ Torn \in SidecarRecord
      BY StorageAssumption DEF TornMain, MainRecord, Torn, SidecarRecord
    <3>2. Append(main, TornMain) \in Seq(MainRecord)
          /\ \A f \in Sidecar : Append(sidecar[f], Torn) \in Seq(SidecarRecord)
      BY <3>1
    <3>3. main' \in Seq(MainRecord)
      BY <2>3, <3>2 DEF StopInAppend
    <3>4. sidecar' \in [Sidecar -> Seq(SidecarRecord)]
      <4>1. ASSUME NEW f \in Sidecar, sidecar' = [sidecar EXCEPT ![f] = Append(@, Torn)]
            PROVE  sidecar' \in [Sidecar -> Seq(SidecarRecord)]
        BY <3>2, <4>1
      <4>2. op \in [stage : {"append"}, batch : Batches, left : SUBSET Sidecar]
        BY <2>3 DEF StopInAppend, NoOp
      <4> QED
        BY <2>3, <4>1, <4>2 DEF StopInAppend, NextAppend
    <3> QED
      BY <2>1, <3>3, <3>4
  <2>4. CASE StopInPublish
    <3>1. /\ op \in [stage : {"append"}, batch : Batches, left : SUBSET Sidecar]
          /\ mem.seq < MaxSeq /\ mem.seq \in 0..MaxSeq /\ op.batch \in Batches
      BY <2>4 DEF StopInPublish, NoOp, Tables
    <3>2. main' \in Seq(MainRecord)
      BY <2>4, <3>1, AppendMainTyped DEF StopInPublish
    <3> QED
      BY <2>1, <2>4, <3>2 DEF StopInPublish
  <2> QED
    BY <1>2, <2>2, <2>3, <2>4
<1> QED
  BY <1>1, <1>2

\* The storage's variables stay in their types, whatever its batches do.
THEOREM TypeCorrect == Spec => []TypeOK
<1>1. Init => Typed
  <2> SUFFICES ASSUME Init PROVE Typed
    OBVIOUS
  <2>1. /\ main = <<>> /\ sidecar = [f \in Sidecar |-> <<>>] /\ up = FALSE /\ op = NoOp
        /\ mem = Replayed(<<>>, sidecar)
    BY DEF Init
  <2>2. mem \in Tables
    BY <2>1, EmptyLogGood, ReplayedTyped
  <2>3. sidecar \in [Sidecar -> Seq(SidecarRecord)] /\ main \in Seq(MainRecord)
    BY <2>1, EmptyLogGood
  <2> QED
    BY <2>1, <2>2, <2>3 DEF Typed, TypeOK, NoOp
<1>2. Typed /\ [Next]_vars => Typed'
  <2> SUFFICES ASSUME Typed, [Next]_vars PROVE Typed'
    OBVIOUS
  <2>1. CASE UNCHANGED vars
    BY <2>1 DEF vars, Typed, TypeOK
  <2> QED
    BY <2>1, OpenTyped, CommitTyped, StopTyped DEF Next
<1>3. Typed => TypeOK
  BY DEF Typed
<1> QED
  BY <1>1, <1>2, <1>3, PTL DEF Spec

-------------------------------------------------------------------------------
(***************************************************************************)
(* While no batch both patches a task and ends it, the directory can be    *)
(* opened at every instant, and open() finds whole commits.                *)
(***************************************************************************)
LEMMA InvariantHolds ==
  ASSUME ~PatchAndEnd
  PROVE  Spec => []IInv
<1>1. Init => IInv
  BY InitGood
<1>2. IInv /\ [Next]_vars => IInv'
  <2> SUFFICES ASSUME IInv, [Next]_vars PROVE IInv'
    OBVIOUS
  <2>1. CASE Open \/ OpenInterrupted
    BY <2>1, OpenStep, OpenInterruptedStep
  <2>2. CASE \E b \in Batches : BeginCommit(b)
    BY <2>2, BeginCommitStep
  <2>3. CASE \E f \in Sidecar : AppendSidecar(f)
    BY <2>3, AppendSidecarStep
  <2>4. CASE Publish
    BY <2>4, PublishStep
  <2>5. CASE \E t \in Task : RetireTaskSidecar(t)
    BY <2>5, RetireStep
  <2>6. CASE Truncate
    BY <2>6, TruncateStep
  <2>7. CASE Stop
    BY <2>7, StopStep
  <2>8. CASE StopInAppend
    BY <2>8, StopInAppendStep
  <2>9. CASE StopInPublish
    BY <2>9, StopInPublishStep
  <2>10. CASE UNCHANGED vars
    <3>1. UNCHANGED <<main, sidecar, up, mem, op>>
      BY <2>10 DEF vars
    <3>2. Log' = Log /\ Whole' = Whole
      BY <3>1 DEF Log, Whole
    <3> QED
      BY <3>1, <3>2 DEF IInv, TypeOK, FilesGood, Serving, OpGood
  <2> QED
    BY <2>1, <2>2, <2>3, <2>4, <2>5, <2>6, <2>7, <2>8, <2>9, <2>10 DEF Next
<1> QED
  BY <1>1, <1>2, PTL DEF Spec

\* After whatever commits, truncations, failed appends, interrupted opens and
\* crashes, replay() finds every published record and refuses nothing.
THEOREM AlwaysRecoverable ==
  ASSUME ~PatchAndEnd
  PROVE  Spec => []Recoverable
<1>1. IInv => Recoverable
  <2> SUFFICES ASSUME IInv PROVE ~ReplayFails(Log, Whole)
    BY DEF Recoverable, Log
  <2>1. LogGood(Log) /\ \A f \in Sidecar : FileGood(Log, Whole[f], f)
    BY DEF IInv, FilesGood
  <2>2. Whole \in [Sidecar -> Seq(SidecarRecord)]
    BY WholeTyped DEF IInv
  <2> QED
    BY <2>1, <2>2, GoodFilesReplay
<1> QED
  BY <1>1, InvariantHolds, PTL

\* What the directory stands for.
Stands == Replayed(TruncateTorn(main), sidecar)

LEMMA StandsIs == IInv => Stands = Replayed(Log, Whole) /\ Stands = Replayed(Log, sidecar)
BY GoodFacts DEF Stands, Log

LEMMA ServedIs == IInv => (up => mem = Stands)
BY GoodFacts, StandsIs

\* A step leaves what the directory stands for, or it is the publication point.
LEMMA StepStands ==
  ASSUME IInv, IInv', ~PatchAndEnd, [Next]_vars
  PROVE  \/ Stands' = Stands
         \/ /\ Publish \/ StopInPublish
            /\ up /\ op.batch \in Batches /\ mem = Stands
            /\ Atomic!Accepts(Stands, op.batch)
            /\ Stands' = Atomic!Apply(Stands, op.batch)
<1>1. Stands = Replayed(Log, Whole) /\ Stands = Replayed(Log, sidecar) /\ LogGood(Log)
  BY StandsIs, GoodFacts
<1>2. Stands' = Replayed(Log', Whole') /\ Stands' = Replayed(Log', sidecar')
  <2>1. (IInv => Stands = Replayed(Log, Whole) /\ Stands = Replayed(Log, sidecar))'
    BY StandsIs, PTL
  <2> QED
    BY <2>1
<1>3. CASE Open
  BY <1>1, <1>2, <1>3, OpenStep
<1>4. CASE OpenInterrupted
  <2>1. /\ Log' = Log
        /\ \A f \in Sidecar : f \in Dead(Log) \/ Published(Log, (Whole')[f]) = Published(Log, Whole[f])
    BY <1>4, InterruptedFiles
  <2>2. PICK a : a = Whole'
    OBVIOUS
  <2>3. Replayed(Log, a) = Replayed(Log, Whole)
    BY <1>1, <2>1, <2>2, SameReplay
  <2> QED
    BY <1>1, <1>2, <2>1, <2>2, <2>3
<1>5. ASSUME UNCHANGED <<main, sidecar>> PROVE Stands' = Stands
  BY <1>5 DEF Stands
<1>6. ASSUME NEW f \in Sidecar, AppendSidecar(f) PROVE Stands' = Stands
  BY <1>1, <1>2, <1>6, AppendSidecarStep
<1>7. ASSUME NEW t \in Task, RetireTaskSidecar(t) PROVE Stands' = Stands
  BY <1>1, <1>2, <1>7, RetireStep
<1>8. CASE Truncate
  BY <1>1, <1>2, <1>8, TruncateStep
<1>9. CASE StopInAppend
  BY <1>1, <1>2, <1>9, StopInAppendStep
<1>10. CASE Publish \/ StopInPublish
  <2>1. op.stage = "append" /\ op.left = {} /\ AppendMain /\ UNCHANGED sidecar
    BY <1>10 DEF Publish, StopInPublish
  <2>2. /\ up /\ mem = Replayed(Log, Whole) /\ op.batch \in Batches
        /\ Atomic!Accepts(Replayed(Log, Whole), op.batch)
    BY <2>1, AppendFacts
  <2>3. Replayed(Log', Whole') = Atomic!Apply(Replayed(Log, Whole), op.batch)
    BY <2>1, PublishedFiles
  <2> QED
    BY <1>1, <1>2, <1>10, <2>2, <2>3
<1> QED
  BY <1>3, <1>4, <1>5, <1>6, <1>7, <1>8, <1>9, <1>10 DEF Next, vars, BeginCommit, Stop

\* What the storage answers.
Answers == IF up THEN [open |-> TRUE, tables |-> mem] ELSE [open |-> FALSE]

\* The files implement the atomic table.
THEOREM Implements ==
  ASSUME ~PatchAndEnd
  PROVE  Spec => ImplementsAtomic
<1>1. Init => Atomic!Init
  <2> SUFFICES ASSUME Init PROVE Atomic!Init
    OBVIOUS
  <2>1. Stands = Atomic!Empty /\ ~up
    BY InitGood DEF Init, Stands, Log
  <2> QED
    BY <2>1 DEF Atomic!Init, Atomic!Closed, Stands
<1>2. IInv /\ IInv' /\ [Next]_vars => [Atomic!Next]_<<Stands, Answers>>
  <2> SUFFICES ASSUME IInv, IInv', [Next]_vars
               PROVE  Atomic!Next \/ UNCHANGED <<Stands, Answers>>
    OBVIOUS
  <2>1. up => mem = Stands
    BY ServedIs
  <2>2. up' => mem' = Stands'
    <3>1. (IInv => (up => mem = Stands))'
      BY ServedIs, PTL
    <3> QED
      BY <3>1
  <2>3. CASE Open
    <3>1. Stands' = Stands
      BY <2>3, StepStands DEF Open, Publish, StopInPublish
    <3>2. ~up /\ up'
      BY <2>3 DEF Open
    <3>3. Atomic!Open
      BY <2>2, <3>1, <3>2 DEF Atomic!Open, Atomic!Closed, Stands
    <3> QED
      BY <3>3 DEF Atomic!Next
  <2>4. CASE Stands' = Stands /\ up' = up
    BY <2>1, <2>2, <2>4 DEF Answers
  <2>5. CASE Stands' = Stands /\ up' = FALSE
    <3>1. Atomic!Stop
      BY <2>5 DEF Atomic!Stop, Atomic!Closed, Stands
    <3> QED
      BY <3>1 DEF Atomic!Next
  <2>6. CASE /\ up /\ op.batch \in Batches /\ mem = Stands
             /\ Atomic!Accepts(Stands, op.batch)
             /\ Stands' = Atomic!Apply(Stands, op.batch)
    <3>1. op.batch \in Atomic!Batch
      BY <2>6, BatchIs
    <3>2. Stands'.seq = Stands.seq + 1
      BY <2>6 DEF Atomic!Apply
    <3>3. up' \in BOOLEAN
      BY DEF IInv, TypeOK
    <3>4. Atomic!Commit
      BY <2>2, <2>6, <3>1, <3>2, <3>3 DEF Atomic!Commit, Atomic!Closed, Stands
    <3> QED
      BY <3>4 DEF Atomic!Next
  <2>7. Open \/ up' = up \/ up' = FALSE
    BY DEF Next, vars, OpenInterrupted, BeginCommit, AppendSidecar, Publish, RetireTaskSidecar,
           Truncate, Stop, StopInAppend, StopInPublish, Stopped
  <2> QED
    BY <2>3, <2>4, <2>5, <2>6, <2>7, StepStands
<1> QED
  BY <1>1, <1>2, InvariantHolds, PTL DEF Spec, ImplementsAtomic, Atomic!Spec, Stands, Answers
===============================================================================
