--------------------------- MODULE CompactionProofs ---------------------------
(***************************************************************************)
(* Proofs about Compaction, for any number of keys, levels, writes and     *)
(* snapshots: the files of a level do not overlap, of two entries of a key *)
(* the one further down is the older, and Get and a scan find what the     *)
(* last write left, while compactions move and drop entries without the    *)
(* mutex.                                                                  *)
(*                                                                         *)
(* Two hypotheses (Sane) take out what is known to go wrong: outputs that  *)
(* share a user key, which takes a snapshot, and memtables flushed during  *)
(* a manual compaction.  The database client of the app uses neither       *)
(* snapshots nor manual compactions.                                       *)
(***************************************************************************)
EXTENDS Compaction, SequenceLemmas, FiniteSetTheorems

Sane == (~SplitsKeys \/ MaxSnapshots = 0) /\ ~FlushesInManual

-----------------------------------------------------------------------------
\* The inductive invariant, in parts.

\* A file holds something.
FilesInv == \A l \in Levels : \A f \in version[l] : f.entries # {}

\* The types of the state, and its bounds.
Types ==
    /\ TypeOK
    /\ LastSequence <= MaxWrites /\ snapshots \subseteq 0..LastSequence
    /\ compaction \in [level : Int, in0 : SUBSET Files, in1 : SUBSET Files, base : SUBSET Files,
                       smallest : Nat, manual : BOOLEAN]
    /\ MaxSnapshots = 0 => snapshots = {}
    /\ FilesInv

\* The entries of files.
EntriesOf(F) == UNION {f.entries : f \in F}
AllEntries == mem \cup StoredEntries

\* An entry is the write it says it is.
TruthInv ==
    \A e \in AllEntries : e.seq \in 1..LastSequence /\ wrote[e.seq] = [key |-> e.key, del |-> e.del]

\* The memtable is newer than what is stored, and files of level 0 are as old as their
\* numbers say.
AgeInv ==
    /\ \A e \in mem, h \in StoredEntries : h.seq < e.seq
    /\ \A f \in version[0] :
          /\ f.number <= LastSequence
          /\ \A e \in mem : f.number < e.seq
          /\ \A e \in f.entries : e.seq <= f.number
    /\ \A f, g \in version[0] :
          /\ f.number < g.number => \A h \in g.entries : f.number < h.seq
          /\ f.number = g.number => f = g

\* The keys of two sets of entries: one comes before the other.
Apart(A, B) ==
    \/ \A e \in A, h \in B : e.key < h.key
    \/ \A e \in A, h \in B : h.key < e.key

\* Two files of a level other than 0 share no stretch of keys.
DisjointInv == \A l \in Levels \ {0} : \A f, g \in version[l] : f = g \/ Apart(f.entries, g.entries)

\* The last write of a key that a reader at s sees.
IsLast(i, s) == \A j \in 1..s : wrote[j].key = wrote[i].key => j <= i

\* It is there, or it was a deletion and there is nothing it would hide.
KeptInv ==
    \A s \in snapshots \cup {LastSequence} : \A i \in 1..s : IsLast(i, s) =>
        \/ \E e \in AllEntries : e.seq = i
        \/ wrote[i].del /\ \A e \in AllEntries : e.key = wrote[i].key => e.seq > s

\* Entries of the same key in A are newer than those in B.
Newer(A, B) == \A e \in A, h \in B : e.key = h.key => e.seq > h.seq

\* A key lies in the range of a file.
InRange(k, f) == \E e, h \in f.entries : e.key <= k /\ k <= h.key

\* The inputs of a compaction of level l: everything else on the level above is newer,
\* and everything else on the level below is out of the way.
InputsInv(l, in0, in1) ==
    /\ in0 \subseteq version[l] /\ in1 \subseteq version[l + 1] /\ in0 # {}
    /\ \A f \in version[l] \ in0 : Newer(f.entries, EntriesOf(in0))
    /\ \A f \in version[l + 1] \ in1 : Apart(f.entries, EntriesOf(in0 \cup in1))

\* There is no gap between the inputs.
NoGap(F) ==
    \A e, h \in EntriesOf(F) : \A k \in Keys :
        e.key <= k /\ k <= h.key => \E g \in F : InRange(k, g)

\* What a compaction at work relies on, although the mutex was released.
CompactionInv ==
    \A l \in {compaction.level} :
        /\ l \in 0..(NumLevels - 2)
        /\ InputsInv(l, compaction.in0, compaction.in1)
        /\ ~compaction.manual => NoGap(compaction.in0 \cup compaction.in1)
        /\ \A m \in (l + 2)..(NumLevels - 1) : \A f \in version[m] :
              f \in compaction.base \/ Newer(f.entries, InputEntries)
        /\ \A s \in snapshots \cup {LastSequence} : compaction.smallest <= s
        /\ MaxSnapshots = 0 => \A e \in InputEntries : e.seq <= compaction.smallest

IInv ==
    /\ Types /\ TruthInv /\ AgeInv
    /\ DisjointInv /\ EntriesNeverHop
    /\ KeptInv
    /\ compaction # NoCompaction => CompactionInv

-----------------------------------------------------------------------------
\* Ranges of keys.

\* Files that hold something.
GoodFiles(F) == F \subseteq Files /\ \A f \in F : f.entries # {}

\* The fields of entries and files.
LEMMA EntryFacts ==
    /\ NumKeys \in Nat /\ MaxWrites \in Nat
    /\ \A e \in Entries : e.key \in Keys /\ e.key \in Nat /\ e.seq \in Nat /\ e.seq <= MaxWrites
                          /\ e.del \in BOOLEAN
    /\ \A f \in Files : f.entries \subseteq Entries /\ f.number \in Nat
BY CompactionAssumption DEF Entries, Files, Keys

\* The least and the greatest key of some entries.
LEMMA KeyBounds ==
    ASSUME NEW S \in SUBSET Entries, S # {}
    PROVE  /\ Min(UserKeys(S)) \in Keys /\ Max(UserKeys(S)) \in Keys
           /\ \E e \in S : e.key = Min(UserKeys(S))
           /\ \E e \in S : e.key = Max(UserKeys(S))
           /\ \A e \in S : Min(UserKeys(S)) <= e.key /\ e.key <= Max(UserKeys(S))
<1> DEFINE K == UserKeys(S)
<1>1. K \in SUBSET Nat /\ K \subseteq Keys /\ K # {} /\ NumKeys \in Nat /\ \A x \in K : x <= NumKeys
  BY EntryFacts DEF UserKeys, Keys
<1>2. \A e \in S : e.key \in K
  BY DEF UserKeys
<1>3. \A x \in K : \E e \in S : e.key = x
  BY DEF UserKeys
<1> HIDE DEF K
<1>4. Min(K) \in K /\ \A x \in K : Min(K) <= x
  BY <1>1, LeastOf
<1>5. Max(K) \in K /\ \A x \in K : x <= Max(K)
  BY <1>1, GreatestOf
<1> QED
  BY <1>1, <1>2, <1>3, <1>4, <1>5 DEF K

\* The least and the greatest key of a file.
LEMMA FileBounds ==
    ASSUME NEW f \in Files, f.entries # {}
    PROVE  /\ Smallest(f) \in Keys /\ Largest(f) \in Keys
           /\ \E e \in f.entries : e.key = Smallest(f)
           /\ \E e \in f.entries : e.key = Largest(f)
           /\ \A e \in f.entries : Smallest(f) <= e.key /\ e.key <= Largest(f)
<1>1. f.entries \in SUBSET Entries
  BY EntryFacts
<1> QED
  BY <1>1, KeyBounds DEF Smallest, Largest

\* A file overlaps a range: it has a key not before its start and one not after its end.
LEMMA OverlapFacts ==
    ASSUME NEW f \in Files, f.entries # {}, NEW b \in Nat, NEW e \in Nat
    PROVE  Overlaps(f, b, e) <=> (\E x \in f.entries : b <= x.key) /\ (\E x \in f.entries : x.key <= e)
<1>1. f.entries \subseteq Entries /\ Smallest(f) \in Nat /\ Largest(f) \in Nat
  BY EntryFacts, FileBounds DEF Keys
<1>2. Largest(f) >= b <=> \E x \in f.entries : b <= x.key
  <2>1. ASSUME NEW x \in f.entries, b <= x.key
        PROVE  Largest(f) >= b
    BY <1>1, <2>1, FileBounds, EntryFacts
  <2>2. ASSUME Largest(f) >= b
        PROVE  \E x \in f.entries : b <= x.key
    <3>1. PICK x \in f.entries : x.key = Largest(f)
      BY FileBounds
    <3> QED
      BY <1>1, <2>2, <3>1
  <2> QED
    BY <2>1, <2>2
<1>3. Smallest(f) <= e <=> \E x \in f.entries : x.key <= e
  <2>1. ASSUME NEW x \in f.entries, x.key <= e
        PROVE  Smallest(f) <= e
    BY <1>1, <2>1, FileBounds, EntryFacts
  <2>2. ASSUME Smallest(f) <= e
        PROVE  \E x \in f.entries : x.key <= e
    <3>1. PICK x \in f.entries : x.key = Smallest(f)
      BY FileBounds
    <3> QED
      BY <1>1, <2>2, <3>1
  <2> QED
    BY <2>1, <2>2
<1> QED
  BY <1>2, <1>3 DEF Overlaps

\* The range of several files.
LEMMA RangeBounds ==
    ASSUME NEW F, GoodFiles(F), F # {}
    PROVE  /\ RangeStart(F) \in Keys /\ RangeLimit(F) \in Keys
           /\ \E e \in EntriesOf(F) : e.key = RangeStart(F)
           /\ \E e \in EntriesOf(F) : e.key = RangeLimit(F)
           /\ \A e \in EntriesOf(F) : RangeStart(F) <= e.key /\ e.key <= RangeLimit(F)
<1> DEFINE A == {Smallest(f) : f \in F}
           B == {Largest(f) : f \in F}
<1>1. A \subseteq Keys /\ B \subseteq Keys /\ A # {} /\ B # {}
  BY FileBounds DEF GoodFiles
<1>2. A \in SUBSET Nat /\ B \in SUBSET Nat /\ NumKeys \in Nat /\ \A x \in B : x <= NumKeys
  BY <1>1, EntryFacts DEF Keys
<1>3. Min(A) \in A /\ \A x \in A : Min(A) <= x
  <2> HIDE DEF A
  <2> QED
    BY <1>1, <1>2, LeastOf
<1>4. Max(B) \in B /\ \A x \in B : x <= Max(B)
  <2> HIDE DEF B
  <2> QED
    BY <1>1, <1>2, GreatestOf
<1>5. RangeStart(F) = Min(A) /\ RangeLimit(F) = Max(B)
  BY DEF RangeStart, RangeLimit
<1>6. \A f \in F : Smallest(f) \in A /\ Largest(f) \in B
  OBVIOUS
<1>7. PICK f \in F : Smallest(f) = RangeStart(F)
  BY <1>3, <1>5
<1>8. PICK g \in F : Largest(g) = RangeLimit(F)
  BY <1>4, <1>5
<1> HIDE DEF A, B
<1>9. \E e \in EntriesOf(F) : e.key = RangeStart(F)
  <2>1. PICK e \in f.entries : e.key = Smallest(f)
    BY FileBounds DEF GoodFiles
  <2> QED
    BY <1>7, <2>1 DEF EntriesOf
<1>10. \E e \in EntriesOf(F) : e.key = RangeLimit(F)
  <2>1. PICK e \in g.entries : e.key = Largest(g)
    BY FileBounds DEF GoodFiles
  <2> QED
    BY <1>8, <2>1 DEF EntriesOf
<1>11. ASSUME NEW e \in EntriesOf(F)
       PROVE  RangeStart(F) <= e.key /\ e.key <= RangeLimit(F)
  <2>1. PICK h \in F : e \in h.entries
    BY DEF EntriesOf
  <2>2. /\ Smallest(h) <= e.key /\ e.key <= Largest(h) /\ e.key \in Nat
        /\ Smallest(h) \in Nat /\ Largest(h) \in Nat
    BY <2>1, FileBounds, EntryFacts DEF GoodFiles, Keys
  <2>3. RangeStart(F) <= Smallest(h) /\ Largest(h) <= RangeLimit(F)
    BY <1>3, <1>4, <1>5, <1>6
  <2>4. RangeStart(F) \in Nat /\ RangeLimit(F) \in Nat
    BY <1>2, <1>3, <1>4, <1>5
  <2> QED
    BY <2>2, <2>3, <2>4
<1> QED
  BY <1>1, <1>3, <1>4, <1>5, <1>9, <1>10, <1>11

-----------------------------------------------------------------------------
\* GetOverlappingInputs.

\* The files that meet a range, and a range that the files it meets do not exceed.
Met(F, b, e) == {f \in F : Overlaps(f, b, e)}
Closed(F, b, e) ==
    Met(F, b, e) = {} \/ (b <= RangeStart(Met(F, b, e)) /\ RangeLimit(Met(F, b, e)) <= e)

\* A closed range holds all the keys of the files it meets.
LEMMA ClosedFacts ==
    ASSUME NEW F, GoodFiles(F), NEW b \in Nat, NEW e \in Nat
    PROVE  Closed(F, b, e) <=> \A x \in EntriesOf(Met(F, b, e)) : b <= x.key /\ x.key <= e
<1> DEFINE M == Met(F, b, e)
<1>1. GoodFiles(M)
  BY DEF GoodFiles, Met
<1>2. CASE M = {}
  BY <1>2 DEF Closed, EntriesOf
<1>3. CASE M # {}
  <2> HIDE DEF M
  <2>1. /\ RangeStart(M) \in Nat /\ RangeLimit(M) \in Nat
        /\ \E x \in EntriesOf(M) : x.key = RangeStart(M)
        /\ \E x \in EntriesOf(M) : x.key = RangeLimit(M)
        /\ \A x \in EntriesOf(M) : RangeStart(M) <= x.key /\ x.key <= RangeLimit(M)
    BY <1>1, <1>3, RangeBounds DEF Keys
  <2>2. \A x \in EntriesOf(M) : x.key \in Nat
    BY <1>1, EntryFacts DEF EntriesOf, GoodFiles
  <2>3. (b <= RangeStart(M) /\ RangeLimit(M) <= e) <=> \A x \in EntriesOf(M) : b <= x.key /\ x.key <= e
    BY <2>1, <2>2
  <2> QED
    BY <1>3, <2>3 DEF Closed, M
<1> QED
  BY <1>2, <1>3

\* The files of a level hold something.
LEMMA VersionFacts ==
    ASSUME Types, NEW l \in Levels
    PROVE  GoodFiles(version[l])
BY DEF Types, TypeOK, FilesInv, GoodFiles

\* On level 0: the files that a closed range meets, and the range cannot be narrowed.
LEMMA GrownRange ==
    ASSUME Types, NEW begin \in Keys, NEW end \in Keys
    PROVE  \E b \in 0..begin, e \in end..(NumKeys + 1) :
              /\ GetOverlappingInputs(0, begin, end) = Met(version[0], b, e)
              /\ Closed(version[0], b, e)
              /\ \A x \in 0..begin : Closed(version[0], x, e) => x <= b
              /\ \A y \in end..(NumKeys + 1) : Closed(version[0], b, y) => e <= y
<1> DEFINE F == version[0]
           X == {x \in 0..begin : \E y \in end..(NumKeys + 1) : Closed(F, x, y)}
           b == Max(X)
           Y == {y \in end..(NumKeys + 1) : Closed(F, b, y)}
           e == Min(Y)
<1>1. GoodFiles(F) /\ NumKeys \in Nat /\ begin \in 1..NumKeys /\ end \in 1..NumKeys
  BY VersionFacts, EntryFacts, CompactionAssumption DEF Levels, Keys
<1>2. Closed(F, 0, NumKeys + 1)
  <2>1. \A x \in EntriesOf(Met(F, 0, NumKeys + 1)) : x.key \in 1..NumKeys
    BY <1>1, EntryFacts DEF EntriesOf, Met, GoodFiles, Keys
  <2> HIDE DEF F
  <2>2. \A x \in EntriesOf(Met(F, 0, NumKeys + 1)) : 0 <= x.key /\ x.key <= NumKeys + 1
    BY <1>1, <2>1
  <2>3. NumKeys + 1 \in Nat /\ 0 \in Nat
    BY <1>1
  <2> QED
    BY <1>1, <2>2, <2>3, ClosedFacts
<1> HIDE DEF F
<1>3. 0 \in 0..begin /\ NumKeys + 1 \in end..(NumKeys + 1)
  BY <1>1
<1>4. X \in SUBSET Nat /\ X # {} /\ begin \in Nat /\ \A x \in X : x <= begin
  BY <1>1, <1>2, <1>3
<1>5. b \in X /\ \A x \in X : x <= b
  <2> HIDE DEF X
  <2> QED
    BY <1>4, GreatestOf
<1>6. b \in 0..begin /\ \E y \in end..(NumKeys + 1) : Closed(F, b, y)
  BY <1>5
<1>7. Y \in SUBSET Nat /\ Y # {}
  <2> HIDE DEF b
  <2> QED
    BY <1>1, <1>6
<1>8. e \in Y /\ \A y \in Y : e <= y
  <2> HIDE DEF Y
  <2> QED
    BY <1>7, LeastOf
<1>9. e \in end..(NumKeys + 1) /\ Closed(F, b, e) /\ \A y \in end..(NumKeys + 1) : Closed(F, b, y) => e <= y
  <2> HIDE DEF b
  <2> QED
    BY <1>8
<1>10. \A x \in 0..begin : Closed(F, x, e) => x <= b
  <2> HIDE DEF e, b
  <2> QED
    BY <1>5, <1>9
<1>11. GetOverlappingInputs(0, begin, end) = Met(F, b, e)
  BY DEF GetOverlappingInputs, Closed, Met, F
<1> QED
  <2> HIDE DEF e, b
  <2> QED
    BY <1>6, <1>9, <1>10, <1>11 DEF F

\* The level 0 case of the next lemma.
LEMMA OverlappingAbove ==
    ASSUME Types, NEW begin \in Keys, NEW end \in Keys,
           NEW In, In = GetOverlappingInputs(0, begin, end)
    PROVE  /\ In \subseteq version[0]
           /\ \A f \in version[0] : Overlaps(f, begin, end) => f \in In
           /\ \A f \in version[0] \ In : \A x \in f.entries, y \in EntriesOf(In) : x.key # y.key
           /\ begin <= end => \A x \in EntriesOf(In), k \in Keys :
                 (x.key <= k /\ k < begin) \/ (end < k /\ k <= x.key) => \E g \in In : InRange(k, g)
<1> DEFINE F == version[0]
<1>1. PICK b \in 0..begin, e \in end..(NumKeys + 1) :
         /\ In = Met(F, b, e) /\ Closed(F, b, e)
         /\ \A x \in 0..begin : Closed(F, x, e) => x <= b
         /\ \A y \in end..(NumKeys + 1) : Closed(F, b, y) => e <= y
  BY GrownRange
<1>2. GoodFiles(F) /\ NumKeys \in Nat /\ begin \in 1..NumKeys /\ end \in 1..NumKeys /\ b \in Nat /\ e \in Nat
  BY VersionFacts, EntryFacts, CompactionAssumption DEF Levels, Keys
<1> HIDE DEF F
<1>3. \A x \in EntriesOf(In) : b <= x.key /\ x.key <= e
  BY <1>1, <1>2, ClosedFacts
<1>4. \A f \in F : f \in Files /\ f.entries # {} /\ \A x \in f.entries : x.key \in Nat /\ x.key \in Keys
  BY <1>2, EntryFacts DEF GoodFiles
<1>5. \A f \in F : f \in In <=> (\E x \in f.entries : b <= x.key) /\ (\E x \in f.entries : x.key <= e)
  BY <1>1, <1>2, <1>4, OverlapFacts DEF Met
<1>6. In \subseteq F
  BY <1>1 DEF Met
<1>7. ASSUME NEW f \in F, Overlaps(f, begin, end)
      PROVE  f \in In
  <2>1. (\E x \in f.entries : begin <= x.key) /\ (\E x \in f.entries : x.key <= end)
    BY <1>2, <1>4, <1>7, OverlapFacts
  <2> QED
    BY <1>2, <1>4, <1>5, <2>1
<1>8. ASSUME NEW f \in F \ In, NEW x \in f.entries, NEW y \in EntriesOf(In)
      PROVE  x.key # y.key
  BY <1>2, <1>3, <1>4, <1>5
<1>9. ASSUME begin <= end, NEW x \in EntriesOf(In), NEW k \in Keys, ~\E g \in In : InRange(k, g),
             (x.key <= k /\ k < begin) \/ (end < k /\ k <= x.key)
      PROVE  FALSE
  <2>1. k \in Nat /\ x.key \in Nat
    BY <1>4, <1>6 DEF Keys, EntriesOf
  <2>2. k \in b..e
    BY <1>2, <1>3, <1>9, <2>1
  <2>3. ASSUME NEW f \in F, NEW p \in f.entries, NEW q \in f.entries, p.key <= k, k <= q.key
        PROVE  FALSE
    <3>1. f \in In
      BY <1>2, <1>4, <1>5, <2>2, <2>3
    <3> QED
      BY <1>9, <2>3, <3>1 DEF InRange
  <2>4. ASSUME x.key <= k, k < begin
        PROVE  FALSE
    <3>1. k + 1 \in 0..begin /\ k + 1 \in Nat
      BY <1>2, <2>1, <2>4
    <3>2. ASSUME NEW z \in EntriesOf(Met(F, k + 1, e))
          PROVE  k + 1 <= z.key /\ z.key <= e
      <4>1. PICK f \in F : Overlaps(f, k + 1, e) /\ z \in f.entries
        BY DEF EntriesOf, Met
      <4>2. (\E p \in f.entries : k + 1 <= p.key) /\ (\E p \in f.entries : p.key <= e)
        BY <1>2, <1>4, <3>1, <4>1, OverlapFacts
      <4>3. f \in In
        BY <1>2, <1>4, <1>5, <2>2, <4>2
      <4>4. z.key <= e /\ z.key \in Nat
        BY <1>3, <1>4, <4>1, <4>3 DEF EntriesOf
      <4>5. ~(z.key <= k)
        BY <1>4, <2>1, <2>3, <4>1, <4>2
      <4> QED
        BY <2>1, <4>4, <4>5
    <3>3. Closed(F, k + 1, e)
      BY <1>2, <3>1, <3>2, ClosedFacts
    <3> QED
      BY <1>1, <1>2, <2>2, <3>1, <3>3
  <2>5. ASSUME end < k, k <= x.key
        PROVE  FALSE
    <3>1. k - 1 \in end..(NumKeys + 1) /\ k - 1 \in Nat
      BY <1>2, <2>1, <2>5 DEF Keys
    <3>2. ASSUME NEW z \in EntriesOf(Met(F, b, k - 1))
          PROVE  b <= z.key /\ z.key <= k - 1
      <4>1. PICK f \in F : Overlaps(f, b, k - 1) /\ z \in f.entries
        BY DEF EntriesOf, Met
      <4>2. (\E p \in f.entries : b <= p.key) /\ (\E p \in f.entries : p.key <= k - 1)
        BY <1>2, <1>4, <3>1, <4>1, OverlapFacts
      <4>3. f \in In
        BY <1>2, <1>4, <1>5, <2>2, <4>2
      <4>4. b <= z.key /\ z.key \in Nat
        BY <1>3, <1>4, <4>1, <4>3 DEF EntriesOf
      <4>5. ~(k <= z.key)
        BY <1>4, <2>1, <2>3, <4>1, <4>2
      <4> QED
        BY <2>1, <4>4, <4>5
    <3>3. Closed(F, b, k - 1)
      BY <1>2, <3>1, <3>2, ClosedFacts
    <3> QED
      BY <1>1, <1>2, <2>2, <3>1, <3>3
  <2> QED
    BY <1>9, <2>4, <2>5
<1> QED
  BY <1>6, <1>7, <1>8, <1>9 DEF F

\* The files that GetOverlappingInputs returns: all that meet the range; on level 0 no
\* other file has a key of theirs; and what lies between them and the range is covered.
LEMMA OverlappingInputs ==
    ASSUME Types, NEW l \in Levels, NEW begin \in Keys, NEW end \in Keys,
           NEW In, In = GetOverlappingInputs(l, begin, end)
    PROVE  /\ In \subseteq version[l]
           /\ \A f \in version[l] : Overlaps(f, begin, end) => f \in In
           /\ l # 0 => \A f \in In : Overlaps(f, begin, end)
           /\ l = 0 => \A f \in version[l] \ In : \A x \in f.entries, y \in EntriesOf(In) : x.key # y.key
           /\ begin <= end => \A x \in EntriesOf(In), k \in Keys :
                 (x.key <= k /\ k < begin) \/ (end < k /\ k <= x.key) => \E g \in In : InRange(k, g)
<1>1. CASE l = 0
  BY <1>1, OverlappingAbove
<1>2. CASE l # 0
  <2>1. In = {f \in version[l] : Overlaps(f, begin, end)}
    BY <1>2 DEF GetOverlappingInputs
  <2>2. ASSUME NEW x \in EntriesOf(In), NEW k \in Keys,
               (x.key <= k /\ k < begin) \/ (end < k /\ k <= x.key)
        PROVE  \E g \in In : InRange(k, g)
    <3>1. PICK g \in In : x \in g.entries
      BY DEF EntriesOf
    <3>2. g \in Files /\ g.entries # {} /\ g.entries \subseteq Entries
      BY <2>1, VersionFacts, EntryFacts DEF GoodFiles
    <3>3. begin \in Nat /\ end \in Nat /\ k \in Nat
      BY EntryFacts DEF Keys
    <3>4. (\E p \in g.entries : begin <= p.key) /\ (\E p \in g.entries : p.key <= end)
      BY <2>1, <3>2, <3>3, OverlapFacts
    <3>5. \A p \in g.entries : p.key \in Nat
      BY <3>2, EntryFacts
    <3>6. InRange(k, g)
      BY <2>2, <3>1, <3>3, <3>4, <3>5 DEF InRange
    <3> QED
      BY <3>6
  <2> QED
    BY <1>2, <2>1, <2>2
<1> QED
  BY <1>1, <1>2

-----------------------------------------------------------------------------
\* The inputs of a compaction.

\* Files without a gap, and those that a range within theirs meets, have no gap either.
LEMMA GrowsWithoutGap ==
    ASSUME Types, NEW l \in Levels, NEW begin \in Keys, NEW end \in Keys, begin <= end,
           NEW F, GoodFiles(F), NoGap(F),
           NEW p \in EntriesOf(F), p.key <= begin, NEW q \in EntriesOf(F), end <= q.key
    PROVE  NoGap(F \cup GetOverlappingInputs(l, begin, end))
<1> DEFINE In == GetOverlappingInputs(l, begin, end)
<1>1. /\ In \subseteq version[l]
      /\ \A x \in EntriesOf(In), k \in Keys :
            (x.key <= k /\ k < begin) \/ (end < k /\ k <= x.key) => \E g \in In : InRange(k, g)
  BY OverlappingInputs
<1>2. GoodFiles(In)
  BY <1>1, VersionFacts DEF GoodFiles
<1> HIDE DEF In
<1>3. \A x : x \in EntriesOf(F \cup In) <=> x \in EntriesOf(F) \/ x \in EntriesOf(In)
  BY DEF EntriesOf
<1>4. \A x \in EntriesOf(F \cup In) : x.key \in Nat
  BY <1>2, EntryFacts DEF GoodFiles, EntriesOf
<1> SUFFICES ASSUME NEW x \in EntriesOf(F \cup In), NEW y \in EntriesOf(F \cup In), NEW k \in Keys,
                    x.key <= k, k <= y.key
             PROVE  \E g \in F \cup In : InRange(k, g)
  BY DEF NoGap, In
<1>5. /\ k \in Nat /\ begin \in Nat /\ end \in Nat
      /\ p.key \in Nat /\ q.key \in Nat /\ x.key \in Nat /\ y.key \in Nat
  <2>1. p \in EntriesOf(F \cup In) /\ q \in EntriesOf(F \cup In)
    BY <1>3
  <2>2. p.key \in Nat /\ q.key \in Nat /\ x.key \in Nat /\ y.key \in Nat
    BY <1>4, <2>1
  <2> QED
    BY <2>2, EntryFacts DEF Keys
<1>6. CASE \A z \in EntriesOf(F) : ~(z.key <= k)
  <2>1. x \in EntriesOf(In)
    BY <1>3, <1>6
  <2>2. k < begin
    BY <1>5, <1>6
  <2> QED
    BY <1>1, <2>1, <2>2
<1>7. CASE \A z \in EntriesOf(F) : ~(k <= z.key)
  <2>1. y \in EntriesOf(In)
    BY <1>3, <1>7
  <2>2. end < k
    BY <1>5, <1>7
  <2> QED
    BY <1>1, <2>1, <2>2
<1>8. CASE (\E z \in EntriesOf(F) : z.key <= k) /\ (\E z \in EntriesOf(F) : k <= z.key)
  <2>1. \E g \in F : InRange(k, g)
    BY <1>8 DEF NoGap
  <2> QED
    BY <2>1
<1> QED
  BY <1>6, <1>7, <1>8

\* A file alone has no gap.
LEMMA FileWithoutGap ==
    ASSUME NEW f
    PROVE  NoGap({f})
BY DEF NoGap, EntriesOf, InRange

\* The files of the level below that the inputs do not meet lie outside of them.
LEMMA BelowApart ==
    ASSUME Types, DisjointInv, NEW l \in 0..(NumLevels - 2),
           NEW in0 \in SUBSET version[l], in0 # {},
           NEW in1, in1 = GetOverlappingInputs(l + 1, RangeStart(in0), RangeLimit(in0)),
           NEW f \in version[l + 1] \ in1
    PROVE  Apart(f.entries, EntriesOf(in0 \cup in1))
<1>1. l \in Levels /\ l + 1 \in Levels /\ l + 1 # 0
  BY CompactionAssumption DEF Levels
<1>2. GoodFiles(version[l]) /\ GoodFiles(version[l + 1]) /\ GoodFiles(in0)
  BY <1>1, VersionFacts DEF GoodFiles
<1> DEFINE b == RangeStart(in0)
           e == RangeLimit(in0)
<1>3. b \in Keys /\ e \in Keys /\ \A x \in EntriesOf(in0) : b <= x.key /\ x.key <= e
  BY <1>2, RangeBounds
<1> HIDE DEF b, e
<1>4. b \in Nat /\ e \in Nat
  BY <1>3 DEF Keys
<1>5. /\ in1 \subseteq version[l + 1]
      /\ \A g \in version[l + 1] : Overlaps(g, b, e) => g \in in1
      /\ \A g \in in1 : Overlaps(g, b, e)
  BY <1>1, <1>3, OverlappingInputs DEF b, e
<1>6. /\ f \in Files /\ f.entries # {} /\ f \in version[l + 1] /\ ~Overlaps(f, b, e)
  BY <1>2, <1>5 DEF GoodFiles
<1>7. /\ \A x \in f.entries : x.key \in Nat
      /\ \A x \in EntriesOf(in0) : x.key \in Nat
      /\ \A x \in EntriesOf(in1) : x.key \in Nat
  BY <1>2, <1>5, EntryFacts DEF GoodFiles, EntriesOf
<1>8. (\A x \in f.entries : x.key < b) \/ (\A x \in f.entries : e < x.key)
  BY <1>4, <1>6, <1>7, OverlapFacts
<1>9. ASSUME NEW g \in in1
      PROVE  /\ (\E x \in g.entries : b <= x.key) /\ (\E x \in g.entries : x.key <= e)
             /\ Apart(f.entries, g.entries) /\ \A x \in g.entries : x.key \in Nat
  <2>1. g \in Files /\ g.entries # {} /\ g \in version[l + 1]
    BY <1>2, <1>5 DEF GoodFiles
  <2>2. (\E x \in g.entries : b <= x.key) /\ (\E x \in g.entries : x.key <= e)
    BY <1>4, <1>5, <2>1, OverlapFacts
  <2>3. Apart(f.entries, g.entries)
    BY <1>1, <1>6, <2>1 DEF DisjointInv
  <2> QED
    BY <1>7, <2>2, <2>3 DEF EntriesOf
<1>10. \A x : x \in EntriesOf(in0 \cup in1) <=> x \in EntriesOf(in0) \/ \E g \in in1 : x \in g.entries
  BY DEF EntriesOf
<1>11. PICK w \in f.entries : TRUE
  BY <1>6
<1>12. CASE \A x \in f.entries : x.key < b
  <2>1. ASSUME NEW g \in in1, NEW x \in f.entries, NEW y \in g.entries
        PROVE  x.key < y.key
    BY <1>4, <1>7, <1>9, <1>12, <2>1 DEF Apart
  <2>2. ASSUME NEW x \in f.entries, NEW y \in EntriesOf(in0)
        PROVE  x.key < y.key
    BY <1>3, <1>4, <1>7, <1>12
  <2> QED
    BY <1>10, <2>1, <2>2 DEF Apart
<1>13. CASE \A x \in f.entries : e < x.key
  <2>1. ASSUME NEW g \in in1, NEW x \in f.entries, NEW y \in g.entries
        PROVE  y.key < x.key
    BY <1>4, <1>7, <1>9, <1>13, <2>1 DEF Apart
  <2>2. ASSUME NEW x \in f.entries, NEW y \in EntriesOf(in0)
        PROVE  y.key < x.key
    BY <1>3, <1>4, <1>7, <1>13
  <2> QED
    BY <1>10, <2>1, <2>2 DEF Apart
<1> QED
  BY <1>8, <1>12, <1>13

\* Inputs of level l that leave no file of level 0 with a key of theirs: the others of
\* the level are newer.
LEMMA AboveNewer ==
    ASSUME Types, DisjointInv, NEW l \in 0..(NumLevels - 2), NEW in0 \in SUBSET version[l],
           l = 0 => \A f \in version[0] \ in0 : \A x \in f.entries, y \in EntriesOf(in0) : x.key # y.key,
           NEW f \in version[l] \ in0
    PROVE  Newer(f.entries, EntriesOf(in0))
<1>1. l \in Levels
  BY CompactionAssumption DEF Levels
<1>2. CASE l = 0
  BY <1>2 DEF Newer
<1>3. CASE l # 0
  <2>1. ASSUME NEW x \in f.entries, NEW y \in EntriesOf(in0)
        PROVE  x.key # y.key
    <3>1. PICK g \in in0 : y \in g.entries
      BY DEF EntriesOf
    <3>2. Apart(f.entries, g.entries)
      BY <1>1, <1>3, <3>1 DEF DisjointInv
    <3>3. x.key \in Nat /\ y.key \in Nat
      BY <1>1, <3>1, VersionFacts, EntryFacts DEF GoodFiles
    <3> QED
      BY <3>1, <3>2, <3>3 DEF Apart
  <2> QED
    BY <2>1 DEF Newer
<1> QED
  BY <1>2, <1>3

\* A file overlaps a range that holds its keys, and a range wider than one it overlaps.
LEMMA WiderRange ==
    ASSUME NEW f \in Files, f.entries # {}, NEW b \in Nat, NEW e \in Nat
    PROVE  /\ (\A x \in f.entries : b <= x.key /\ x.key <= e) => Overlaps(f, b, e)
           /\ \A c, d \in Nat : b <= c /\ d <= e /\ Overlaps(f, c, d) => Overlaps(f, b, e)
<1>1. \A x \in f.entries : x.key \in Nat
  BY EntryFacts
<1>2. \A c, d \in Nat :
         Overlaps(f, c, d) <=> (\E x \in f.entries : c <= x.key) /\ (\E x \in f.entries : x.key <= d)
  BY OverlapFacts
<1>3. ASSUME \A x \in f.entries : b <= x.key /\ x.key <= e
      PROVE  Overlaps(f, b, e)
  BY <1>2, <1>3
<1>4. ASSUME NEW c \in Nat, NEW d \in Nat, b <= c, d <= e, Overlaps(f, c, d)
      PROVE  Overlaps(f, b, e)
  <2>1. (\E x \in f.entries : c <= x.key) /\ (\E x \in f.entries : x.key <= d)
    BY <1>2, <1>4
  <2>2. (\E x \in f.entries : b <= x.key) /\ (\E x \in f.entries : x.key <= e)
    BY <1>1, <1>4, <2>1
  <2> QED
    BY <1>2, <2>2
<1> QED
  BY <1>3, <1>4

\* Files and those they meet on the level below make inputs.
LEMMA InputsOf ==
    ASSUME Types, DisjointInv, NEW l \in 0..(NumLevels - 2),
           NEW in0 \in SUBSET version[l], in0 # {},
           l = 0 => \A f \in version[0] \ in0 : \A x \in f.entries, y \in EntriesOf(in0) : x.key # y.key,
           NEW in1, in1 = GetOverlappingInputs(l + 1, RangeStart(in0), RangeLimit(in0))
    PROVE  InputsInv(l, in0, in1)
<1>1. l \in Levels /\ l + 1 \in Levels
  BY CompactionAssumption DEF Levels
<1>2. GoodFiles(in0)
  BY <1>1, VersionFacts DEF GoodFiles
<1>3. in1 \subseteq version[l + 1]
  <2>1. RangeStart(in0) \in Keys /\ RangeLimit(in0) \in Keys
    BY <1>2, RangeBounds
  <2> QED
    BY <1>1, <2>1, OverlappingInputs
<1>4. \A f \in version[l] \ in0 : Newer(f.entries, EntriesOf(in0))
  BY AboveNewer
<1>5. \A f \in version[l + 1] \ in1 : Apart(f.entries, EntriesOf(in0 \cup in1))
  BY BelowApart
<1> QED
  BY <1>3, <1>4, <1>5 DEF InputsInv

\* What SetupOtherInputs makes of some files.
LEMMA SetupInputs ==
    ASSUME Types, DisjointInv, NEW l \in 0..(NumLevels - 2),
           NEW chosen \in SUBSET version[l], chosen # {},
           l = 0 => \A f \in version[0] \ chosen : \A x \in f.entries, y \in EntriesOf(chosen) : x.key # y.key,
           NEW inputs \in SetupOtherInputs(l, chosen)
    PROVE  /\ InputsInv(l, inputs[1], inputs[2])
           /\ NoGap(chosen) => NoGap(inputs[1] \cup inputs[2])
<1> DEFINE b == RangeStart(chosen)
           e == RangeLimit(chosen)
           below == GetOverlappingInputs(l + 1, b, e)
           all == chosen \cup below
           ab == RangeStart(all)
           ae == RangeLimit(all)
           expanded0 == GetOverlappingInputs(l, ab, ae)
           xb == RangeStart(expanded0)
           xe == RangeLimit(expanded0)
           expanded1 == GetOverlappingInputs(l + 1, xb, xe)
<1>1. inputs = <<chosen, below>> \/ inputs = <<expanded0, expanded1>>
  BY DEF SetupOtherInputs
<1>2. l \in Levels /\ l + 1 \in Levels /\ l + 1 # 0
  BY CompactionAssumption DEF Levels
<1>3. GoodFiles(version[l]) /\ GoodFiles(version[l + 1]) /\ GoodFiles(chosen)
  BY <1>2, VersionFacts DEF GoodFiles
<1>4. /\ b \in Keys /\ e \in Keys
      /\ \E x \in EntriesOf(chosen) : x.key = b
      /\ \E x \in EntriesOf(chosen) : x.key = e
      /\ \A x \in EntriesOf(chosen) : b <= x.key /\ x.key <= e
  BY <1>3, RangeBounds
<1>5. InputsInv(l, chosen, below)
  BY InputsOf
<1> HIDE DEF b, e
<1>6. b \in Nat /\ e \in Nat /\ b <= e
  BY <1>4 DEF Keys
<1>7. ASSUME NoGap(chosen)
      PROVE  NoGap(all)
  <2>1. PICK p \in EntriesOf(chosen) : p.key = b
    BY <1>4
  <2>2. PICK q \in EntriesOf(chosen) : q.key = e
    BY <1>4
  <2>3. p.key <= b /\ e <= q.key
    BY <1>6, <2>1, <2>2
  <2> QED
    BY <1>2, <1>3, <1>4, <1>6, <1>7, <2>3, GrowsWithoutGap
<1>8. /\ below \subseteq version[l + 1] /\ \A g \in below : Overlaps(g, b, e)
      /\ \A g \in version[l + 1] : Overlaps(g, b, e) => g \in below
  BY <1>2, <1>4, OverlappingInputs
<1> HIDE DEF below
<1>9. GoodFiles(all) /\ all # {} /\ chosen \subseteq all
  BY <1>3, <1>8 DEF GoodFiles
<1> HIDE DEF all
<1>10. /\ ab \in Keys /\ ae \in Keys
       /\ \E x \in EntriesOf(all) : x.key = ab
       /\ \E x \in EntriesOf(all) : x.key = ae
       /\ \A x \in EntriesOf(all) : ab <= x.key /\ x.key <= ae
  BY <1>9, RangeBounds
<1> HIDE DEF ab, ae
<1>11. ab \in Nat /\ ae \in Nat /\ ab <= ae
  BY <1>10 DEF Keys
<1>12. /\ expanded0 \subseteq version[l] /\ \A f \in version[l] : Overlaps(f, ab, ae) => f \in expanded0
       /\ l = 0 => \A f \in version[0] \ expanded0 : \A x \in f.entries, y \in EntriesOf(expanded0) : x.key # y.key
  BY <1>2, <1>10, OverlappingInputs
<1>13. NoGap(all) => NoGap(all \cup expanded0)
  <2>1. PICK p \in EntriesOf(all) : p.key = ab
    BY <1>10
  <2>2. PICK q \in EntriesOf(all) : q.key = ae
    BY <1>10
  <2>3. p.key <= ab /\ ae <= q.key
    BY <1>11, <2>1, <2>2
  <2> QED
    BY <1>2, <1>9, <1>10, <1>11, <2>3, GrowsWithoutGap
<1> HIDE DEF expanded0
<1>14. chosen \subseteq expanded0
  <2> SUFFICES ASSUME NEW f \in chosen
               PROVE  f \in expanded0
    OBVIOUS
  <2>1. f \in Files /\ f.entries # {} /\ f \in version[l]
    BY <1>3 DEF GoodFiles
  <2>2. \A x \in f.entries : x \in EntriesOf(all)
    BY <1>9 DEF EntriesOf
  <2>3. Overlaps(f, ab, ae)
    BY <1>10, <1>11, <2>1, <2>2, WiderRange
  <2> QED
    BY <1>12, <2>1, <2>3
<1>15. GoodFiles(expanded0) /\ expanded0 # {}
  BY <1>3, <1>12, <1>14 DEF GoodFiles
<1>16. /\ xb \in Keys /\ xe \in Keys
       /\ \E x \in EntriesOf(expanded0) : x.key = xb
       /\ \E x \in EntriesOf(expanded0) : x.key = xe
       /\ \A x \in EntriesOf(expanded0) : xb <= x.key /\ x.key <= xe
  BY <1>15, RangeBounds
<1>17. InputsInv(l, expanded0, expanded1)
  BY <1>12, <1>15, InputsOf
<1> HIDE DEF xb, xe
<1>18. xb \in Nat /\ xe \in Nat /\ xb <= xe
  BY <1>16 DEF Keys
<1>19. \A g \in version[l + 1] : Overlaps(g, xb, xe) => g \in expanded1
  BY <1>2, <1>16, OverlappingInputs
<1>20. GoodFiles(all \cup expanded0)
  BY <1>9, <1>15 DEF GoodFiles
<1>21. NoGap(all \cup expanded0) => NoGap((all \cup expanded0) \cup expanded1)
  <2>1. PICK p \in EntriesOf(all \cup expanded0) : p.key = xb
    BY <1>16 DEF EntriesOf
  <2>2. PICK q \in EntriesOf(all \cup expanded0) : q.key = xe
    BY <1>16 DEF EntriesOf
  <2>3. p.key <= xb /\ xe <= q.key
    BY <1>18, <2>1, <2>2
  <2> QED
    BY <1>2, <1>16, <1>18, <1>20, <2>3, GrowsWithoutGap
<1> HIDE DEF expanded1
<1>22. below \subseteq expanded1
  <2> SUFFICES ASSUME NEW g \in below
               PROVE  g \in expanded1
    OBVIOUS
  <2>1. g \in Files /\ g.entries # {} /\ g \in version[l + 1] /\ Overlaps(g, b, e)
    BY <1>3, <1>8 DEF GoodFiles
  <2>2. \A x \in EntriesOf(chosen) : x \in EntriesOf(expanded0)
    BY <1>14 DEF EntriesOf
  <2>3. xb <= b /\ e <= xe
    BY <1>4, <1>16, <2>2
  <2>4. Overlaps(g, xb, xe)
    BY <1>6, <1>18, <2>1, <2>3, WiderRange
  <2> QED
    BY <1>19, <2>1, <2>4
<1>23. (all \cup expanded0) \cup expanded1 = expanded0 \cup expanded1
  BY <1>14, <1>22 DEF all
<1>24. NoGap(chosen) => NoGap(expanded0 \cup expanded1)
  BY <1>7, <1>13, <1>21, <1>23
<1>25. NoGap(chosen) => NoGap(chosen \cup below)
  BY <1>7 DEF all
<1>26. CASE inputs = <<chosen, below>>
  <2>1. inputs[1] = chosen /\ inputs[2] = below
    BY <1>26
  <2> QED
    BY <1>5, <1>25, <2>1
<1>27. CASE inputs = <<expanded0, expanded1>>
  <2>1. inputs[1] = expanded0 /\ inputs[2] = expanded1
    BY <1>27
  <2> QED
    BY <1>17, <1>24, <2>1
<1> QED
  BY <1>1, <1>26, <1>27

\* What PickCompaction takes: the file, and on level 0 no other file has a key of it.
LEMMA PickedFiles ==
    ASSUME Types, NEW l \in 0..(NumLevels - 2), NEW f \in version[l],
           NEW chosen, chosen = Picked(l, f)
    PROVE  /\ chosen \subseteq version[l] /\ f \in chosen /\ NoGap(chosen)
           /\ l = 0 => \A g \in version[0] \ chosen : \A x \in g.entries, y \in EntriesOf(chosen) : x.key # y.key
<1>1. l \in Levels
  BY CompactionAssumption DEF Levels
<1>2. f \in Files /\ f.entries # {} /\ GoodFiles({f})
  BY <1>1, VersionFacts DEF GoodFiles
<1>3. CASE l # 0
  BY <1>3, FileWithoutGap DEF Picked
<1>4. CASE l = 0
  <2>1. chosen = GetOverlappingInputs(0, Smallest(f), Largest(f))
    BY <1>4 DEF Picked
  <2> DEFINE b == Smallest(f)
             e == Largest(f)
  <2>2. /\ b \in Keys /\ e \in Keys
        /\ \E x \in f.entries : x.key = b
        /\ \E x \in f.entries : x.key = e
        /\ \A x \in f.entries : b <= x.key /\ x.key <= e
    BY <1>2, FileBounds
  <2>3. chosen = GetOverlappingInputs(0, b, e)
    BY <2>1
  <2> HIDE DEF b, e
  <2>4. b \in Nat /\ e \in Nat /\ b <= e
    BY <2>2 DEF Keys
  <2>5. Overlaps(f, b, e)
    BY <1>2, <2>2, <2>4, WiderRange
  <2>6. /\ chosen \subseteq version[0] /\ f \in chosen
        /\ \A g \in version[0] \ chosen : \A x \in g.entries, y \in EntriesOf(chosen) : x.key # y.key
    BY <1>1, <1>4, <2>2, <2>3, <2>5, OverlappingInputs
  <2>7. NoGap({f} \cup chosen)
    <3>1. PICK p \in f.entries : p.key = b
      BY <2>2
    <3>2. PICK q \in f.entries : q.key = e
      BY <2>2
    <3>3. p \in EntriesOf({f}) /\ q \in EntriesOf({f}) /\ p.key <= b /\ e <= q.key
      BY <2>4, <3>1, <3>2 DEF EntriesOf
    <3> QED
      BY <1>1, <1>2, <1>4, <2>2, <2>3, <2>4, <3>3, FileWithoutGap, GrowsWithoutGap
  <2>8. {f} \cup chosen = chosen
    BY <2>6
  <2> QED
    BY <1>4, <2>6, <2>7, <2>8
<1> QED
  BY <1>3, <1>4

\* What a manual compaction takes.
LEMMA ManualFiles ==
    ASSUME Types, NEW l \in 0..(NumLevels - 2), NEW begin \in Keys, NEW end \in Keys,
           NEW chosen \in ManualInputs(l, begin, end)
    PROVE  /\ chosen \subseteq version[l] /\ chosen # {}
           /\ l = 0 => \A g \in version[0] \ chosen : \A x \in g.entries, y \in EntriesOf(chosen) : x.key # y.key
<1> DEFINE In == GetOverlappingInputs(l, begin, end)
<1>1. l \in Levels
  BY CompactionAssumption DEF Levels
<1>2. /\ In \subseteq version[l]
      /\ l = 0 => \A g \in version[0] \ In : \A x \in g.entries, y \in EntriesOf(In) : x.key # y.key
  BY <1>1, OverlappingInputs
<1>3. chosen \in (IF l = 0 THEN {In} \ {{}} ELSE {{f \in In : Smallest(f) <= Smallest(g)} : g \in In})
  BY DEF ManualInputs
<1> HIDE DEF In
<1>4. CASE l = 0
  BY <1>2, <1>3, <1>4
<1>5. CASE l # 0
  <2>1. PICK g \in In : chosen = {f \in In : Smallest(f) <= Smallest(g)}
    BY <1>3, <1>5
  <2>2. Smallest(g) \in Nat
    BY <1>1, <1>2, VersionFacts, FileBounds DEF GoodFiles, Keys
  <2> QED
    BY <1>2, <1>5, <2>1, <2>2
<1> QED
  BY <1>4, <1>5

-----------------------------------------------------------------------------
\* What the actions do.

\* The entries of the state.
LEMMA StoredFacts ==
    ASSUME Types
    PROVE  /\ \A x : x \in StoredEntries <=> \E l \in Levels : \E f \in version[l] : x \in f.entries
           /\ AllEntries \subseteq Entries
           /\ LastSequence \in Nat /\ LastSequence <= MaxWrites
<1>1. \A x : x \in StoredEntries <=> \E l \in Levels : \E f \in version[l] : x \in f.entries
  BY DEF StoredEntries
<1>2. \A l \in Levels : \A f \in version[l] : f.entries \subseteq Entries
  BY VersionFacts, EntryFacts DEF GoodFiles
<1>3. mem \subseteq Entries
  BY DEF Types, TypeOK
<1>4. LastSequence \in Nat
  BY LenProperties DEF LastSequence, Types, TypeOK
<1> QED
  BY <1>1, <1>2, <1>3, <1>4 DEF AllEntries, Types

\* The entries of inputs are stored.
LEMMA InputFacts ==
    ASSUME Types, NEW l \in 0..(NumLevels - 2), NEW in0, NEW in1, InputsInv(l, in0, in1)
    PROVE  /\ l \in Levels /\ l + 1 \in Levels /\ l \in Nat
           /\ in0 \subseteq version[l] /\ in1 \subseteq version[l + 1]
           /\ in0 \subseteq Files /\ in1 \subseteq Files
           /\ EntriesOf(in0 \cup in1) \subseteq StoredEntries
<1>1. l \in Levels /\ l + 1 \in Levels /\ l \in Nat
  BY CompactionAssumption DEF Levels
<1>2. in0 \subseteq version[l] /\ in1 \subseteq version[l + 1]
  BY DEF InputsInv
<1>3. in0 \subseteq Files /\ in1 \subseteq Files
  BY <1>1, <1>2, VersionFacts DEF GoodFiles
<1>4. EntriesOf(in0 \cup in1) \subseteq StoredEntries
  BY <1>1, <1>2, StoredFacts DEF EntriesOf
<1> QED
  BY <1>1, <1>2, <1>3, <1>4

\* A step that only changes the compaction.
LEMMA OnlyCompaction ==
    ASSUME IInv, UNCHANGED <<wrote, mem, version, snapshots>>,
           compaction' \in [level : Int, in0 : SUBSET Files, in1 : SUBSET Files, base : SUBSET Files,
                            smallest : Nat, manual : BOOLEAN],
           compaction' # NoCompaction => CompactionInv'
    PROVE  IInv'
<1>1. Types'
  BY DEF IInv, Types, TypeOK, FilesInv, LastSequence
<1>2. TruthInv' /\ AgeInv'
  BY DEF IInv, TruthInv, AgeInv, AllEntries, StoredEntries, LastSequence
<1>3. DisjointInv' /\ EntriesNeverHop'
  BY DEF IInv, DisjointInv, EntriesNeverHop
<1>4. KeptInv'
  BY DEF IInv, KeptInv, AllEntries, StoredEntries, LastSequence, IsLast
<1> QED
  BY <1>1, <1>2, <1>3, <1>4 DEF IInv

\* The smallest sequence number that a reader may use.
LEMMA SmallestFacts ==
    ASSUME Types
    PROVE  /\ SmallestSnapshot \in Nat
           /\ \A s \in snapshots \cup {LastSequence} : SmallestSnapshot <= s
           /\ snapshots = {} => SmallestSnapshot = LastSequence
<1>1. snapshots \in SUBSET Nat /\ LastSequence \in Nat /\ \A s \in snapshots : s <= LastSequence
  BY StoredFacts DEF Types
<1>2. CASE snapshots = {}
  BY <1>1, <1>2 DEF SmallestSnapshot
<1>3. CASE snapshots # {}
  <2>1. Min(snapshots) \in snapshots /\ \A s \in snapshots : Min(snapshots) <= s
    BY <1>1, <1>3, LeastOf
  <2> QED
    BY <1>1, <1>3, <2>1 DEF SmallestSnapshot
<1> QED
  BY <1>2, <1>3

\* A compaction begins.
LEMMA StartKeeps ==
    ASSUME IInv, NEW l \in 0..(NumLevels - 2), NEW inputs, InputsInv(l, inputs[1], inputs[2]),
           NEW manual \in BOOLEAN, ~manual => NoGap(inputs[1] \cup inputs[2]),
           Start(l, inputs, manual)
    PROVE  IInv'
<1> DEFINE base == UNION {version[m] : m \in (l + 2)..(NumLevels - 1)}
           in0 == inputs[1]
           in1 == inputs[2]
           small == SmallestSnapshot
<1>1. /\ compaction' = [level |-> l, in0 |-> in0, in1 |-> in1, base |-> base,
                        smallest |-> small, manual |-> manual]
      /\ UNCHANGED <<wrote, mem, version, snapshots>>
  BY DEF Start
<1>2. Types /\ TruthInv
  BY DEF IInv
<1>3. /\ l \in Levels /\ l + 1 \in Levels /\ l \in Nat
      /\ in0 \subseteq version[l] /\ in1 \subseteq version[l + 1]
      /\ in0 \subseteq Files /\ in1 \subseteq Files
      /\ EntriesOf(in0 \cup in1) \subseteq StoredEntries
  BY <1>2, InputFacts
<1>4. \A m \in (l + 2)..(NumLevels - 1) : m \in Levels /\ version[m] \subseteq base /\ version[m] \subseteq Files
  BY <1>2, <1>3, CompactionAssumption, VersionFacts DEF Levels, GoodFiles
<1>5. base \subseteq Files
  BY <1>4
<1>6. /\ small \in Nat
      /\ \A s \in snapshots \cup {LastSequence} : small <= s
      /\ snapshots = {} => small = LastSequence
  BY <1>2, SmallestFacts
<1> HIDE DEF base, in0, in1, small
<1>7. /\ compaction'.level = l /\ compaction'.in0 = in0 /\ compaction'.in1 = in1
      /\ compaction'.base = base /\ compaction'.smallest = small /\ compaction'.manual = manual
  BY <1>1
<1>8. compaction' \in [level : Int, in0 : SUBSET Files, in1 : SUBSET Files, base : SUBSET Files,
                       smallest : Nat, manual : BOOLEAN]
  BY <1>1, <1>3, <1>5, <1>6
<1>9. InputEntries' = EntriesOf(in0 \cup in1)
  BY <1>7 DEF InputEntries, EntriesOf
<1>10. InputsInv(l, in0, in1)'
  <2>1. InputsInv(l, in0, in1)
    BY DEF in0, in1
  <2> QED
    BY <1>1, <2>1 DEF InputsInv, in0, in1
<1>11. ~manual => NoGap(in0 \cup in1)
  BY DEF in0, in1
<1>12. \A m \in (l + 2)..(NumLevels - 1) : \A f \in version'[m] : f \in base
  BY <1>1, <1>4
<1>13. \A s \in snapshots' \cup {LastSequence'} : small <= s
  BY <1>1, <1>6 DEF LastSequence
<1>14. MaxSnapshots = 0 => \A e \in InputEntries' : e.seq <= small
  <2> SUFFICES ASSUME MaxSnapshots = 0, NEW e \in InputEntries'
               PROVE  e.seq <= small
    OBVIOUS
  <2>1. snapshots = {}
    BY <1>2 DEF Types
  <2>2. e \in AllEntries
    BY <1>3, <1>9 DEF AllEntries
  <2>3. e.seq \in 1..LastSequence
    BY <1>2, <2>2 DEF TruthInv
  <2> QED
    BY <1>6, <2>1, <2>3
<1>15. CompactionInv'
  BY <1>7, <1>10, <1>11, <1>12, <1>13, <1>14 DEF CompactionInv, NoGap, in0, in1
<1> QED
  BY <1>1, <1>8, <1>15, OnlyCompaction

\* A compaction that the background thread picks: its inputs have no gap.
LEMMA PickCompactionKeeps ==
    ASSUME IInv, PickCompaction
    PROVE  IInv'
<1>1. PICK l \in 0..(NumLevels - 2) : \E f \in version[l] :
         \E inputs \in SetupOtherInputs(l, Picked(l, f)) : Start(l, inputs, FALSE)
  BY DEF PickCompaction
<1> PICK f \in version[l] : \E inputs \in SetupOtherInputs(l, Picked(l, f)) : Start(l, inputs, FALSE)
  BY <1>1
<1>2. PICK inputs \in SetupOtherInputs(l, Picked(l, f)) : Start(l, inputs, FALSE)
  OBVIOUS
<1>3. Types /\ DisjointInv
  BY DEF IInv
<1> DEFINE chosen == Picked(l, f)
<1>4. /\ chosen \in SUBSET version[l] /\ chosen # {} /\ NoGap(chosen)
      /\ l = 0 => \A g \in version[0] \ chosen : \A x \in g.entries, y \in EntriesOf(chosen) : x.key # y.key
  BY <1>3, PickedFiles
<1> HIDE DEF chosen
<1>5. InputsInv(l, inputs[1], inputs[2]) /\ NoGap(inputs[1] \cup inputs[2])
  BY <1>2, <1>3, <1>4, SetupInputs DEF chosen
<1> QED
  BY <1>2, <1>5, StartKeeps

\* A manual compaction: its inputs may have gaps, and no memtable is flushed meanwhile.
LEMMA CompactRangeKeeps ==
    ASSUME IInv, CompactRange
    PROVE  IInv'
<1>1. PICK l \in 0..(NumLevels - 2), begin \in Keys, end \in Keys :
         \E chosen \in ManualInputs(l, begin, end) :
             \E inputs \in SetupOtherInputs(l, chosen) : Start(l, inputs, TRUE)
  BY DEF CompactRange
<1>2. PICK chosen \in ManualInputs(l, begin, end) :
         \E inputs \in SetupOtherInputs(l, chosen) : Start(l, inputs, TRUE)
  BY <1>1
<1>3. PICK inputs \in SetupOtherInputs(l, chosen) : Start(l, inputs, TRUE)
  BY <1>2
<1>4. Types /\ DisjointInv
  BY DEF IInv
<1>5. /\ chosen \in SUBSET version[l] /\ chosen # {}
      /\ l = 0 => \A g \in version[0] \ chosen : \A x \in g.entries, y \in EntriesOf(chosen) : x.key # y.key
  BY <1>2, <1>4, ManualFiles
<1>6. InputsInv(l, inputs[1], inputs[2])
  BY <1>3, <1>4, <1>5, SetupInputs
<1> QED
  BY <1>3, <1>6, StartKeeps

\* A compaction that failed leaves its inputs where they were.
LEMMA CleanupCompactionKeeps ==
    ASSUME IInv, CleanupCompaction
    PROVE  IInv'
<1>1. compaction' = NoCompaction /\ UNCHANGED <<wrote, mem, version, snapshots>>
  BY DEF CleanupCompaction
<1>2. compaction' \in [level : Int, in0 : SUBSET Files, in1 : SUBSET Files, base : SUBSET Files,
                       smallest : Nat, manual : BOOLEAN]
  BY <1>1 DEF NoCompaction
<1> QED
  BY <1>1, <1>2, OnlyCompaction

\* A step that changes the snapshots, or nothing: the compaction and the entries stay.
LEMMA OnlySnapshots ==
    ASSUME IInv, UNCHANGED <<wrote, mem, version, compaction>>,
           snapshots' \subseteq snapshots \cup {LastSequence}, MaxSnapshots = 0 => snapshots' = {}
    PROVE  IInv'
<1>1. Types /\ TruthInv /\ AgeInv /\ DisjointInv /\ EntriesNeverHop /\ KeptInv
  BY DEF IInv
<1>2. LastSequence \in Nat /\ LastSequence <= MaxWrites /\ MaxWrites \in Nat
  BY <1>1, StoredFacts, EntryFacts
<1>3. Types'
  <2>1. snapshots' \subseteq 0..LastSequence /\ snapshots' \subseteq 0..MaxWrites
    BY <1>1, <1>2 DEF Types
  <2> QED
    BY <1>1, <2>1 DEF Types, TypeOK, FilesInv, LastSequence
<1>4. TruthInv' /\ AgeInv'
  BY <1>1 DEF TruthInv, AgeInv, AllEntries, StoredEntries, LastSequence
<1>5. DisjointInv' /\ EntriesNeverHop'
  BY <1>1 DEF DisjointInv, EntriesNeverHop
<1>6. KeptInv'
  <2>1. LastSequence' = LastSequence /\ AllEntries' = AllEntries
    BY DEF LastSequence, AllEntries, StoredEntries
  <2>2. \A s \in snapshots' \cup {LastSequence} : s \in snapshots \cup {LastSequence}
    OBVIOUS
  <2> QED
    BY <1>1, <2>1, <2>2 DEF KeptInv, IsLast
<1>7. ASSUME compaction # NoCompaction
      PROVE  CompactionInv'
  <2>1. CompactionInv
    BY <1>7 DEF IInv
  <2>2. \A s \in snapshots' \cup {LastSequence} : compaction.smallest <= s
    BY <2>1 DEF CompactionInv
  <2> QED
    BY <2>1, <2>2 DEF CompactionInv, InputsInv, NoGap, InputEntries, LastSequence
<1> QED
  BY <1>3, <1>4, <1>5, <1>6, <1>7 DEF IInv

\* A new snapshot reads at the last sequence number, for which the invariant holds already.
LEMMA SnapshotsKeep ==
    ASSUME IInv, GetSnapshot \/ ReleaseSnapshot \/ UNCHANGED vars
    PROVE  IInv'
<1>1. CASE GetSnapshot
  <2>1. /\ UNCHANGED <<wrote, mem, version, compaction>>
        /\ snapshots' = snapshots \cup {LastSequence} /\ Cardinality(snapshots) < MaxSnapshots
    BY <1>1 DEF GetSnapshot
  <2>2. Cardinality(snapshots) \in Nat
    <3>1. snapshots \subseteq 0..MaxWrites /\ MaxWrites \in Nat
      BY EntryFacts DEF IInv, Types, TypeOK
    <3>2. IsFiniteSet(0..MaxWrites)
      BY <3>1, FS_Interval
    <3> QED
      BY <3>1, <3>2, FS_Subset, FS_CardinalityType
  <2>3. MaxSnapshots # 0
    BY <2>1, <2>2
  <2> QED
    BY <2>1, <2>3, OnlySnapshots
<1>2. CASE ReleaseSnapshot
  <2>1. UNCHANGED <<wrote, mem, version, compaction>> /\ snapshots' \subseteq snapshots
    BY <1>2 DEF ReleaseSnapshot
  <2>2. MaxSnapshots = 0 => snapshots' = {}
    BY <2>1 DEF IInv, Types
  <2> QED
    BY <2>1, <2>2, OnlySnapshots
<1>3. CASE UNCHANGED vars
  <2>1. UNCHANGED <<wrote, mem, version, compaction>> /\ snapshots' = snapshots
    BY <1>3 DEF vars
  <2>2. MaxSnapshots = 0 => snapshots' = {}
    BY <2>1 DEF IInv, Types
  <2> QED
    BY <2>1, <2>2, OnlySnapshots
<1> QED
  BY <1>1, <1>2, <1>3

\* A write is newer than everything, and no present reader sees it.
LEMMA WriteKeeps ==
    ASSUME IInv, NEW key \in Keys, NEW del \in BOOLEAN, Write(key, del)
    PROVE  IInv'
<1> DEFINE made == [key |-> key, del |-> del]
           last == LastSequence
           new == [key |-> key, seq |-> last + 1, del |-> del]
<1>1. Types /\ TruthInv /\ AgeInv /\ DisjointInv /\ EntriesNeverHop /\ KeptInv
  BY DEF IInv
<1>2. /\ last < MaxWrites /\ wrote' = Append(wrote, made) /\ mem' = mem \cup {new}
      /\ UNCHANGED <<version, snapshots, compaction>>
  BY DEF Write
<1>3. last \in Nat /\ MaxWrites \in Nat /\ AllEntries \subseteq Entries
  BY <1>1, StoredFacts, EntryFacts
<1>4. /\ wrote' \in Seq([key : Keys, del : BOOLEAN]) /\ LastSequence' = last + 1
      /\ wrote'[last + 1] = made /\ \A i \in 1..last : wrote'[i] = wrote[i]
  <2>1. wrote \in Seq([key : Keys, del : BOOLEAN]) /\ made \in [key : Keys, del : BOOLEAN]
    BY <1>1 DEF Types, TypeOK
  <2> QED
    BY <1>2, <2>1, AppendProperties DEF LastSequence
<1>5. new \in Entries /\ new.key = key /\ new.seq = last + 1 /\ new.del = del
  BY <1>2, <1>3 DEF Entries
<1> HIDE DEF last, new
<1>6. StoredEntries' = StoredEntries /\ AllEntries' = AllEntries \cup {new}
  BY <1>2 DEF StoredEntries, AllEntries
<1>7. \A s \in snapshots : s \in Nat /\ s <= last
  BY <1>1, <1>3 DEF Types, last
<1>8. Types'
  <2>1. mem' \subseteq Entries /\ snapshots' \subseteq 0..(last + 1) /\ last + 1 <= MaxWrites
    BY <1>1, <1>2, <1>3, <1>5, <1>7 DEF Types, TypeOK
  <2> QED
    BY <1>1, <1>2, <1>4, <2>1 DEF Types, TypeOK, FilesInv
<1>9. TruthInv'
  <2>1. ASSUME NEW e \in AllEntries
        PROVE  e.seq \in 1..(last + 1) /\ wrote'[e.seq] = [key |-> e.key, del |-> e.del]
    BY <1>1, <1>3, <1>4 DEF TruthInv, last
  <2>2. new.seq \in 1..(last + 1) /\ wrote'[new.seq] = [key |-> new.key, del |-> new.del]
    BY <1>3, <1>4, <1>5
  <2> QED
    BY <1>4, <1>6, <2>1, <2>2 DEF TruthInv
<1>10. \A e \in AllEntries : e.seq \in 1..last
  BY <1>1 DEF TruthInv, last
<1>11. AgeInv'
  <2>1. \A h \in StoredEntries : h.seq < new.seq
    BY <1>3, <1>5, <1>10 DEF AllEntries
  <2>2. \A f \in version[0] : f.number \in Nat /\ f.number <= last /\ f.number <= last + 1 /\ f.number < new.seq
    <3>1. \A f \in version[0] : f.number \in Nat
      BY <1>1, VersionFacts, EntryFacts, CompactionAssumption DEF GoodFiles, Levels
    <3> QED
      BY <1>1, <1>3, <1>5, <3>1 DEF AgeInv, last
  <2> QED
    BY <1>1, <1>2, <1>4, <1>6, <2>1, <2>2 DEF AgeInv
<1>12. DisjointInv' /\ EntriesNeverHop'
  BY <1>1, <1>2 DEF DisjointInv, EntriesNeverHop
<1>13. KeptInv'
  <2> SUFFICES ASSUME NEW s \in snapshots \cup {last + 1}, NEW i \in 1..s, IsLast(i, s)'
               PROVE  \/ \E e \in AllEntries' : e.seq = i
                      \/ wrote'[i].del /\ \A e \in AllEntries' : e.key = wrote'[i].key => e.seq > s
    BY <1>2, <1>4 DEF KeptInv
  <2>1. \A j \in 1..s : wrote'[j].key = wrote'[i].key => j <= i
    BY DEF IsLast
  <2>2. CASE i = last + 1
    BY <1>5, <1>6, <2>2
  <2>3. CASE i # last + 1
    <3> DEFINE t == IF s = last + 1 THEN last ELSE s
    <3>1. /\ t \in snapshots \cup {last} /\ t \in Nat /\ t <= last /\ t <= s /\ i \in 1..t /\ s \in Nat
          /\ s # t => s = last + 1 /\ t = last
      BY <1>3, <1>7, <2>3
    <3> HIDE DEF t
    <3>2. wrote'[i] = wrote[i] /\ \A j \in 1..t : wrote'[j] = wrote[j] /\ j \in 1..s
      BY <1>3, <1>4, <3>1
    <3>3. IsLast(i, t)
      BY <2>1, <3>2 DEF IsLast
    <3>4. \/ \E e \in AllEntries : e.seq = i
          \/ wrote[i].del /\ \A e \in AllEntries : e.key = wrote[i].key => e.seq > t
      BY <1>1, <3>1, <3>3 DEF KeptInv, last
    <3>5. CASE \E e \in AllEntries : e.seq = i
      BY <1>6, <3>5
    <3>6. CASE wrote[i].del /\ \A e \in AllEntries : e.key = wrote[i].key => e.seq > t
      <4>1. ASSUME NEW e \in AllEntries, e.key = wrote[i].key
            PROVE  e.seq > s
        BY <1>3, <1>10, <3>1, <3>6, <4>1
      <4>2. ASSUME new.key = wrote[i].key
            PROVE  new.seq > s
        <5>1. wrote'[last + 1].key = wrote'[i].key
          BY <1>4, <1>5, <3>2, <4>2
        <5>2. ~(last + 1 \in 1..s)
          BY <1>3, <2>1, <2>3, <3>1, <5>1
        <5> QED
          BY <1>3, <1>5, <3>1, <5>2
      <4> QED
        BY <1>6, <3>2, <3>6, <4>1, <4>2
    <3> QED
      BY <3>4, <3>5, <3>6
  <2> QED
    BY <2>2, <2>3
<1>14. ASSUME compaction # NoCompaction
       PROVE  CompactionInv'
  <2>1. CompactionInv
    BY <1>14 DEF IInv
  <2>2. compaction.smallest \in Nat
    BY <1>1 DEF Types
  <2>3. \A s \in snapshots \cup {last + 1} : compaction.smallest <= s
    BY <1>3, <2>1, <2>2 DEF CompactionInv, last
  <2> QED
    BY <1>2, <1>4, <2>1, <2>3 DEF CompactionInv, InputsInv, NoGap, InputEntries
<1> QED
  BY <1>2, <1>8, <1>9, <1>11, <1>12, <1>13, <1>14 DEF IInv

\* A range that overlaps no file of the level lies before or behind each.
LEMMA NoOverlap ==
    ASSUME Types, NEW S \in SUBSET Entries, S # {}, NEW m \in Levels,
           ~OverlapInLevel(m, Min(UserKeys(S)), Max(UserKeys(S))), NEW f \in version[m]
    PROVE  Apart(S, f.entries)
<1> DEFINE b == Min(UserKeys(S))
           e == Max(UserKeys(S))
<1>1. b \in Keys /\ e \in Keys /\ \A x \in S : b <= x.key /\ x.key <= e
  BY KeyBounds
<1>2. ~Overlaps(f, b, e)
  BY DEF OverlapInLevel
<1> HIDE DEF b, e
<1>3. b \in Nat /\ e \in Nat
  BY <1>1 DEF Keys
<1>4. f \in Files /\ f.entries # {} /\ \A x \in f.entries : x.key \in Nat
  BY VersionFacts, EntryFacts DEF GoodFiles
<1>5. ~(\E x \in f.entries : b <= x.key) \/ ~(\E x \in f.entries : x.key <= e)
  BY <1>2, <1>3, <1>4, OverlapFacts
<1>6. \A x \in S : x.key \in Nat
  BY EntryFacts
<1> QED
  BY <1>1, <1>3, <1>4, <1>5, <1>6 DEF Apart

\* Files without a gap, none of which overlaps a range: they lie on one side of it.
LEMMA OneSide ==
    ASSUME Types, NEW S \in SUBSET Entries, S # {}, NEW F, GoodFiles(F), NoGap(F),
           \A f \in F : Apart(S, f.entries)
    PROVE  Apart(S, EntriesOf(F))
<1>1. PICK w \in S : TRUE
  OBVIOUS
<1>2. /\ \A x \in S : x.key \in Nat /\ x.key \in Keys
      /\ \A y \in EntriesOf(F) : y.key \in Nat
  BY EntryFacts DEF GoodFiles, EntriesOf
<1>3. \A y \in EntriesOf(F) : (\A x \in S : x.key < y.key) \/ (\A x \in S : y.key < x.key)
  BY DEF Apart, EntriesOf
<1> SUFFICES ASSUME NEW y \in EntriesOf(F), NEW z \in EntriesOf(F),
                    \A x \in S : y.key < x.key, \A x \in S : x.key < z.key
             PROVE  FALSE
  BY <1>3 DEF Apart
<1>4. y.key <= w.key /\ w.key <= z.key
  BY <1>1, <1>2
<1>5. PICK g \in F : InRange(w.key, g)
  BY <1>1, <1>2, <1>4 DEF NoGap
<1>6. PICK p \in g.entries, q \in g.entries : p.key <= w.key /\ w.key <= q.key
  BY <1>5 DEF InRange
<1>7. p.key \in Nat /\ q.key \in Nat
  BY <1>2, <1>5, <1>6 DEF EntriesOf
<1> QED
  BY <1>1, <1>2, <1>6, <1>7 DEF Apart

\* A flush, also during a compaction: the file is newer than what is stored, and where it
\* is put nothing overlaps it, the compaction's inputs included.
LEMMA CompactMemTableKeeps ==
    ASSUME Sane, IInv, CompactMemTable
    PROVE  IInv'
<1> DEFINE new == [number |-> LastSequence, entries |-> mem]
<1>1. Types /\ TruthInv /\ AgeInv /\ DisjointInv /\ EntriesNeverHop /\ KeptInv
  BY DEF IInv
<1>2. /\ mem # {} /\ mem' = {} /\ UNCHANGED <<wrote, snapshots, compaction>> /\ ~compaction.manual
  BY DEF CompactMemTable, Sane
<1>3. PICK l \in MemTableLevels(Min(UserKeys(mem)), Max(UserKeys(mem))) :
         version' = [version EXCEPT ![l] = @ \cup {new}]
  BY DEF CompactMemTable
<1>4. /\ LastSequence \in Nat /\ LastSequence <= MaxWrites /\ MaxWrites \in Nat
      /\ mem \in SUBSET Entries /\ AllEntries \subseteq Entries
  BY <1>1, StoredFacts, EntryFacts DEF Types, TypeOK
<1>5. /\ l \in Levels /\ l \in Nat /\ 0 \in Levels
      /\ l # 0 => \A m \in 0..l : m \in Levels /\ ~OverlapInLevel(m, Min(UserKeys(mem)), Max(UserKeys(mem)))
  BY CompactionAssumption DEF MemTableLevels, Levels
<1>6. ASSUME l # 0, NEW m \in Levels, m <= l, NEW f \in version[m]
      PROVE  Apart(mem, f.entries)
  <2>1. m \in 0..l
    BY <1>5, <1>6 DEF Levels
  <2> QED
    BY <1>1, <1>2, <1>4, <1>5, <1>6, <2>1, NoOverlap
<1>7. new \in Files /\ new.entries = mem /\ new.number = LastSequence
  BY <1>4 DEF Files
<1> HIDE DEF new
<1>8. /\ version' \in [Levels -> SUBSET Files]
      /\ version'[l] = version[l] \cup {new} /\ \A m \in Levels : m # l => version'[m] = version[m]
  <2>1. version \in [Levels -> SUBSET Files]
    BY <1>1 DEF Types, TypeOK
  <2> QED
    BY <1>3, <1>5, <1>7, <2>1
<1>9. \A m \in Levels : \A f \in version'[m] : f \in version[m] \/ (m = l /\ f = new)
  BY <1>8
<1>10. \A m \in Levels : \A f \in version[m] : f \in version'[m]
  BY <1>8
<1>11. \A m \in Levels : \A f \in version[m] : \A x \in f.entries : x \in StoredEntries
  BY <1>1, StoredFacts
<1>12. \A x \in mem, y \in StoredEntries : y.seq < x.seq
  BY <1>1 DEF AgeInv
<1>13. \A x \in AllEntries : x.seq \in Nat /\ x.key \in Nat /\ x.seq <= LastSequence
  <2>1. \A x \in AllEntries : x.seq \in 1..LastSequence
    BY <1>1 DEF TruthInv
  <2>2. \A x \in AllEntries : x.key \in Nat
    BY <1>4, EntryFacts
  <2> QED
    BY <1>4, <2>1, <2>2
<1>14. mem \subseteq AllEntries /\ StoredEntries \subseteq AllEntries
  BY DEF AllEntries
<1>15. LastSequence' = LastSequence
  BY <1>2 DEF LastSequence
<1>16. Types'
  <2>1. \A m \in Levels : \A f \in version'[m] : f.entries # {}
    BY <1>1, <1>2, <1>7, <1>9 DEF Types, FilesInv
  <2> QED
    BY <1>1, <1>2, <1>8, <1>15, <2>1 DEF Types, TypeOK, FilesInv
<1>17. AllEntries' = AllEntries
  <2>1. \A x : x \in StoredEntries' <=> \E m \in Levels : \E f \in version'[m] : x \in f.entries
    BY DEF StoredEntries
  <2>2. \A x : x \in StoredEntries <=> \E m \in Levels : \E f \in version[m] : x \in f.entries
    BY DEF StoredEntries
  <2>3. ASSUME NEW x \in StoredEntries'
        PROVE  x \in StoredEntries \cup mem
    BY <1>7, <1>9, <2>1, <2>2
  <2>4. ASSUME NEW x \in StoredEntries
        PROVE  x \in StoredEntries'
    BY <1>10, <2>1, <2>2
  <2>5. new \in version'[l]
    BY <1>8
  <2>6. ASSUME NEW x \in mem
        PROVE  x \in StoredEntries'
    BY <1>5, <1>7, <2>1, <2>5
  <2> QED
    BY <1>2, <2>3, <2>4, <2>6 DEF AllEntries
<1>18. TruthInv' /\ KeptInv'
  BY <1>1, <1>2, <1>15, <1>17 DEF TruthInv, KeptInv, IsLast
<1>19. AgeInv'
  <2>1. \A f \in version[0] : f.number \in Nat /\ f.number < LastSequence
    <3>1. PICK w \in mem : TRUE
      BY <1>2
    <3>2. \A f \in version[0] : f.number \in Nat
      BY <1>1, <1>5, VersionFacts, EntryFacts DEF GoodFiles
    <3>3. \A f \in version[0] : f.number < w.seq
      BY <1>1, <3>1 DEF AgeInv
    <3> QED
      BY <1>4, <1>13, <1>14, <3>1, <3>2, <3>3
  <2>2. \A f \in version'[0] : f.number <= LastSequence /\ \A x \in f.entries : x.seq <= f.number
    <3>1. ASSUME NEW f \in version[0]
          PROVE  f.number <= LastSequence /\ \A x \in f.entries : x.seq <= f.number
      BY <1>1 DEF AgeInv
    <3>2. new.number <= LastSequence /\ \A x \in new.entries : x.seq <= new.number
      BY <1>4, <1>7, <1>13, <1>14
    <3> QED
      BY <1>5, <1>9, <3>1, <3>2
  <2>3. ASSUME NEW f \in version'[0], NEW g \in version'[0]
        PROVE  /\ f.number < g.number => \A h \in g.entries : f.number < h.seq
               /\ f.number = g.number => f = g
    <3>1. CASE f \in version[0] /\ g \in version[0]
      BY <1>1, <3>1 DEF AgeInv
    <3>2. CASE f \in version[0] /\ g = new
      BY <1>1, <1>4, <1>7, <2>1, <3>2 DEF AgeInv
    <3>3. CASE f = new /\ g \in version[0]
      BY <1>4, <1>7, <2>1, <3>3
    <3>4. CASE f = new /\ g = new
      BY <1>4, <1>7, <3>4
    <3> QED
      BY <1>5, <1>9, <3>1, <3>2, <3>3, <3>4
  <2> QED
    BY <1>2, <1>15, <2>2, <2>3 DEF AgeInv
<1>20. DisjointInv'
  <2> SUFFICES ASSUME NEW m \in Levels \ {0}, NEW f \in version'[m], NEW g \in version'[m], f # g
               PROVE  Apart(f.entries, g.entries)
    BY DEF DisjointInv
  <2>1. CASE f \in version[m] /\ g \in version[m]
    BY <1>1, <2>1 DEF DisjointInv
  <2>2. CASE m = l /\ f = new /\ g \in version[m]
    BY <1>5, <1>6, <1>7, <2>2
  <2>3. CASE m = l /\ f \in version[m] /\ g = new
    <3>1. Apart(mem, f.entries)
      BY <1>5, <1>6, <2>3
    <3> QED
      BY <1>7, <2>3, <3>1 DEF Apart
  <2> QED
    BY <1>9, <2>1, <2>2, <2>3
<1>21. EntriesNeverHop'
  <2> SUFFICES ASSUME NEW m \in Levels, NEW n \in Levels, m < n,
                      NEW f \in version'[m], NEW g \in version'[n],
                      NEW x \in f.entries, NEW y \in g.entries, x.key = y.key
               PROVE  x.seq > y.seq
    BY DEF EntriesNeverHop
  <2>1. m \in Nat /\ n \in Nat
    BY DEF Levels
  <2>2. CASE f \in version[m] /\ g \in version[n]
    BY <1>1, <2>2 DEF EntriesNeverHop
  <2>3. CASE m = l /\ f = new /\ g \in version[n]
    BY <1>7, <1>11, <1>12, <1>13, <1>14, <2>3
  <2>4. CASE f \in version[m] /\ n = l /\ g = new
    <3>1. Apart(mem, f.entries)
      BY <1>5, <1>6, <2>1, <2>4
    <3>2. x \in AllEntries /\ y \in AllEntries /\ y \in mem
      BY <1>7, <1>11, <1>14, <2>4
    <3> QED
      BY <1>13, <3>1, <3>2 DEF Apart
  <2> QED
    BY <1>9, <2>1, <2>2, <2>3, <2>4
<1>22. ASSUME compaction # NoCompaction
       PROVE  CompactionInv'
  <2> DEFINE c == compaction.level
             in0 == compaction.in0
             in1 == compaction.in1
  <2>1. /\ c \in 0..(NumLevels - 2) /\ InputsInv(c, in0, in1) /\ NoGap(in0 \cup in1)
        /\ \A m \in (c + 2)..(NumLevels - 1) : \A f \in version[m] :
              f \in compaction.base \/ Newer(f.entries, InputEntries)
        /\ \A s \in snapshots \cup {LastSequence} : compaction.smallest <= s
        /\ MaxSnapshots = 0 => \A x \in InputEntries : x.seq <= compaction.smallest
    BY <1>2, <1>22 DEF IInv, CompactionInv
  <2>2. InputEntries = EntriesOf(in0 \cup in1) /\ InputEntries' = InputEntries
    BY <1>2 DEF InputEntries, EntriesOf
  <2> HIDE DEF c, in0, in1
  <2>3. /\ c \in Levels /\ c + 1 \in Levels /\ c \in Nat
        /\ in0 \subseteq version[c] /\ in1 \subseteq version[c + 1]
        /\ in0 \subseteq Files /\ in1 \subseteq Files
        /\ EntriesOf(in0 \cup in1) \subseteq StoredEntries
    BY <1>1, <2>1, InputFacts
  <2>4. Newer(mem, EntriesOf(in0 \cup in1)) /\ Newer(mem, EntriesOf(in0))
    <3>1. EntriesOf(in0) \subseteq EntriesOf(in0 \cup in1)
      BY DEF EntriesOf
    <3> QED
      BY <1>12, <1>13, <1>14, <2>3, <3>1 DEF Newer
  <2>5. InputsInv(c, in0, in1)'
    <3>1. ASSUME NEW f \in version'[c] \ in0
          PROVE  Newer(f.entries, EntriesOf(in0))
      <4>1. CASE f \in version[c]
        BY <2>1, <4>1 DEF InputsInv
      <4>2. CASE f = new
        BY <1>7, <2>4, <4>2
      <4> QED
        BY <1>9, <2>3, <4>1, <4>2
    <3>2. ASSUME NEW f \in version'[c + 1] \ in1
          PROVE  Apart(f.entries, EntriesOf(in0 \cup in1))
      <4>1. CASE f \in version[c + 1]
        BY <2>1, <4>1 DEF InputsInv
      <4>2. CASE f = new /\ c + 1 = l
        <5>1. \A g \in in0 \cup in1 : Apart(mem, g.entries)
          BY <1>6, <2>3, <4>2
        <5>2. GoodFiles(in0 \cup in1)
          BY <1>1, <2>3, VersionFacts DEF GoodFiles
        <5> QED
          BY <1>1, <1>2, <1>4, <1>7, <2>1, <4>2, <5>1, <5>2, OneSide
      <4> QED
        BY <1>9, <2>3, <4>1, <4>2
    <3>3. in0 \subseteq version'[c] /\ in1 \subseteq version'[c + 1] /\ in0 # {}
      BY <1>10, <2>1, <2>3 DEF InputsInv
    <3> QED
      BY <1>2, <3>1, <3>2, <3>3 DEF InputsInv, c, in0, in1
  <2>6. ASSUME NEW m \in (c + 2)..(NumLevels - 1), NEW f \in version'[m]
        PROVE  f \in compaction.base \/ Newer(f.entries, InputEntries)
    <3>1. m \in Levels
      BY <2>3, CompactionAssumption DEF Levels
    <3>2. CASE f \in version[m]
      BY <2>1, <3>2
    <3>3. CASE f = new
      BY <1>7, <2>2, <2>4, <3>3
    <3> QED
      BY <1>9, <3>1, <3>2, <3>3
  <2>7. c' = c /\ in0' = in0 /\ in1' = in1
    BY <1>2 DEF c, in0, in1
  <2> QED
    BY <1>2, <1>15, <2>1, <2>2, <2>5, <2>6 DEF CompactionInv, NoGap, c, in0, in1
<1> QED
  BY <1>2, <1>16, <1>18, <1>19, <1>20, <1>21, <1>22 DEF IInv

\* The files of each level with inputs replaced by outputs.
Replaced(l, in0, in1, out) == [version EXCEPT ![l] = @ \ in0, ![l + 1] = (@ \ in1) \cup out]

\* Outputs for inputs: files that share no key, with no new entry.
OutputsFor(in0, in1, out) ==
    /\ GoodFiles(out) /\ EntriesOf(out) \subseteq EntriesOf(in0 \cup in1)
    /\ \A f, g \in out : f = g \/ Apart(f.entries, g.entries)

\* Inputs are replaced by outputs.
LEMMA ReplacesFiles ==
    ASSUME IInv, NEW l \in 0..(NumLevels - 2), NEW in0, NEW in1, InputsInv(l, in0, in1),
           NEW out, OutputsFor(in0, in1, out), version' = Replaced(l, in0, in1, out),
           UNCHANGED <<wrote, mem, snapshots>>, compaction' = NoCompaction
    PROVE  /\ AllEntries' \subseteq AllEntries
           /\ \A x \in AllEntries : x \in AllEntries' \/ (x \in EntriesOf(in0 \cup in1) /\ x \notin EntriesOf(out))
           /\ \A x \in EntriesOf(out) : x \in AllEntries'
           /\ \A m \in Levels : \A f \in version'[m] :
                 \/ f \in version[m] /\ (m = l => f \notin in0) /\ (m = l + 1 => f \notin in1)
                 \/ m = l + 1 /\ f \in out
           /\ KeptInv' => IInv'
<1> GoodFiles(out) /\ EntriesOf(out) \subseteq EntriesOf(in0 \cup in1)
  BY DEF OutputsFor
<1> \A f, g \in out : f = g \/ Apart(f.entries, g.entries)
  BY DEF OutputsFor
<1>1. Types /\ TruthInv /\ AgeInv /\ DisjointInv /\ EntriesNeverHop
  BY DEF IInv
<1>2. /\ l \in Levels /\ l + 1 \in Levels /\ l \in Nat /\ 0 \in Levels
      /\ in0 \subseteq version[l] /\ in1 \subseteq version[l + 1]
      /\ EntriesOf(in0 \cup in1) \subseteq StoredEntries
  <2>1. 0 \in Levels
    BY CompactionAssumption DEF Levels
  <2> QED
    BY <1>1, <2>1, InputFacts
<1>3. /\ version' \in [Levels -> SUBSET Files]
      /\ version'[l] = version[l] \ in0 /\ version'[l + 1] = (version[l + 1] \ in1) \cup out
      /\ \A m \in Levels : m # l /\ m # l + 1 => version'[m] = version[m]
  <2>1. version \in [Levels -> SUBSET Files] /\ out \in SUBSET Files
    BY <1>1 DEF Types, TypeOK, GoodFiles
  <2>2. l # l + 1
    BY <1>2
  <2> QED
    BY <1>2, <2>1, <2>2 DEF Replaced
<1>4. \A m \in Levels : \A f \in version'[m] :
         \/ f \in version[m] /\ (m = l => f \notin in0) /\ (m = l + 1 => f \notin in1)
         \/ m = l + 1 /\ f \in out
  <2>1. l # l + 1
    BY <1>2
  <2> QED
    BY <1>3, <2>1
<1>5. /\ \A x : x \in StoredEntries <=> \E m \in Levels : \E f \in version[m] : x \in f.entries
      /\ \A x : x \in StoredEntries' <=> \E m \in Levels : \E f \in version'[m] : x \in f.entries
  BY DEF StoredEntries
<1>6. StoredEntries' \subseteq StoredEntries
  <2> SUFFICES ASSUME NEW x \in StoredEntries'
               PROVE  x \in StoredEntries
    OBVIOUS
  <2>1. PICK m \in Levels : \E f \in version'[m] : x \in f.entries
    BY <1>5
  <2>2. PICK f \in version'[m] : x \in f.entries
    BY <2>1
  <2>3. CASE f \in version[m]
    BY <1>5, <2>2, <2>3
  <2>4. CASE f \in out
    <3>1. x \in EntriesOf(out)
      BY <2>2, <2>4 DEF EntriesOf
    <3> QED
      BY <1>2, <3>1
  <2> QED
    BY <1>4, <2>3, <2>4
<1>7. \A x \in EntriesOf(out) : x \in StoredEntries'
  <2>1. out \subseteq version'[l + 1]
    BY <1>3
  <2> QED
    BY <1>2, <1>5, <2>1 DEF EntriesOf
<1>8. ASSUME NEW x \in StoredEntries, x \notin StoredEntries'
      PROVE  x \in EntriesOf(in0 \cup in1) /\ x \notin EntriesOf(out)
  <2>1. PICK m \in Levels : \E f \in version[m] : x \in f.entries
    BY <1>5
  <2>2. PICK f \in version[m] : x \in f.entries
    BY <2>1
  <2>3. f \notin version'[m]
    BY <1>5, <1>8, <2>2
  <2>4. f \in in0 \cup in1
    BY <1>2, <1>3, <2>3
  <2> QED
    BY <1>7, <1>8, <2>2, <2>4 DEF EntriesOf
<1>9. AllEntries' \subseteq AllEntries
  BY <1>6 DEF AllEntries
<1>10. Types'
  <2>1. \A m \in Levels : \A f \in version'[m] : f.entries # {}
    BY <1>1, <1>4 DEF Types, FilesInv, GoodFiles
  <2>2. NoCompaction \in [level : Int, in0 : SUBSET Files, in1 : SUBSET Files, base : SUBSET Files,
                          smallest : Nat, manual : BOOLEAN]
    BY DEF NoCompaction
  <2> QED
    BY <1>1, <1>3, <2>1, <2>2 DEF Types, TypeOK, FilesInv, LastSequence
<1>11. TruthInv'
  BY <1>1, <1>9 DEF TruthInv, LastSequence
<1>12. AgeInv'
  <2>1. version'[0] \subseteq version[0]
    <3>1. l + 1 # 0
      BY <1>2
    <3> QED
      BY <1>2, <1>4, <3>1
  <2>2. LastSequence' = LastSequence
    BY DEF LastSequence
  <2> QED
    BY <1>1, <1>6, <2>1, <2>2 DEF AgeInv
<1>13. DisjointInv'
  <2> SUFFICES ASSUME NEW m \in Levels \ {0}, NEW f \in version'[m], NEW g \in version'[m], f # g
               PROVE  Apart(f.entries, g.entries)
    BY DEF DisjointInv
  <2>1. ASSUME NEW h \in version[l + 1] \ in1, NEW o \in out
        PROVE  Apart(h.entries, o.entries) /\ Apart(o.entries, h.entries)
    <3>1. Apart(h.entries, EntriesOf(in0 \cup in1))
      BY DEF InputsInv
    <3>2. \A x \in o.entries : x \in EntriesOf(in0 \cup in1)
      BY DEF EntriesOf
    <3> QED
      BY <3>1, <3>2 DEF Apart
  <2>2. CASE f \in version[m] /\ g \in version[m]
    BY <1>1, <2>2 DEF DisjointInv
  <2>3. CASE m = l + 1 /\ f \in out /\ g \in out
    BY <2>3
  <2>4. CASE m = l + 1 /\ f \in out /\ g \in version[l + 1] \ in1
    BY <2>1, <2>4
  <2>5. CASE m = l + 1 /\ f \in version[l + 1] \ in1 /\ g \in out
    BY <2>1, <2>5
  <2> QED
    BY <1>4, <2>2, <2>3, <2>4, <2>5
<1>14. EntriesNeverHop'
  <2> SUFFICES ASSUME NEW m \in Levels, NEW n \in Levels, m < n,
                      NEW f \in version'[m], NEW g \in version'[n],
                      NEW x \in f.entries, NEW y \in g.entries, x.key = y.key
               PROVE  x.seq > y.seq
    BY DEF EntriesNeverHop
  <2>1. m \in Nat /\ n \in Nat
    BY DEF Levels
  <2>2. CASE f \in version[m] /\ g \in version[n]
    BY <1>1, <2>2 DEF EntriesNeverHop
  <2>3. CASE m = l + 1 /\ f \in out /\ g \in version[n]
    <3>1. x \in EntriesOf(in0 \cup in1)
      BY <2>3 DEF EntriesOf
    <3>2. PICK h \in in0 \cup in1 : x \in h.entries
      BY <3>1 DEF EntriesOf
    <3>3. h \in version[l] \/ h \in version[l + 1]
      BY <1>2, <3>2
    <3>4. l < n /\ l + 1 < n
      BY <1>2, <2>1, <2>3
    <3> QED
      BY <1>1, <1>2, <2>3, <3>2, <3>3, <3>4 DEF EntriesNeverHop
  <2>4. CASE f \in version[m] /\ (m = l => f \notin in0) /\ n = l + 1 /\ g \in out
    <3>1. y \in EntriesOf(in0 \cup in1)
      BY <2>4 DEF EntriesOf
    <3>2. PICK h \in in0 \cup in1 : y \in h.entries
      BY <3>1 DEF EntriesOf
    <3>3. CASE h \in in1
      BY <1>1, <1>2, <2>4, <3>2, <3>3 DEF EntriesNeverHop
    <3>4. CASE h \in in0 /\ m = l
      <4>1. Newer(f.entries, EntriesOf(in0))
        BY <2>4, <3>4 DEF InputsInv
      <4>2. y \in EntriesOf(in0)
        BY <3>2, <3>4 DEF EntriesOf
      <4> QED
        BY <4>1, <4>2 DEF Newer
    <3>5. CASE h \in in0 /\ m # l
      <4>1. m < l
        BY <1>2, <2>1, <2>4, <3>5
      <4> QED
        BY <1>1, <1>2, <2>4, <3>2, <3>5, <4>1 DEF EntriesNeverHop
    <3> QED
      BY <3>2, <3>3, <3>4, <3>5
  <2>5. ~(m = l + 1 /\ n = l + 1)
    BY <2>1
  <2> QED
    BY <1>4, <2>2, <2>3, <2>4, <2>5
<1> QED
  <2>1. \A x \in AllEntries : x \in AllEntries' \/ (x \in EntriesOf(in0 \cup in1) /\ x \notin EntriesOf(out))
    BY <1>8 DEF AllEntries
  <2>2. \A x \in EntriesOf(out) : x \in AllEntries'
    BY <1>7 DEF AllEntries
  <2> QED
    BY <1>4, <1>9, <1>10, <1>11, <1>12, <1>13, <1>14, <2>1, <2>2 DEF IInv

\* A file is moved: a compaction with one input that is its own output.
LEMMA TrivialMoveKeeps ==
    ASSUME IInv, TrivialMove
    PROVE  IInv'
<1>1. PICK l \in 0..(NumLevels - 2) : \E f \in version[l] :
         /\ IsTrivialMove(l, f)
         /\ version' = [version EXCEPT ![l] = @ \ {f}, ![l + 1] = @ \cup {f}]
  BY DEF TrivialMove
<1>2. PICK f \in version[l] :
         /\ IsTrivialMove(l, f)
         /\ version' = [version EXCEPT ![l] = @ \ {f}, ![l + 1] = @ \cup {f}]
  BY <1>1
<1>3. Types /\ DisjointInv /\ KeptInv
  BY DEF IInv
<1> DEFINE chosen == Picked(l, f)
           inputs == <<{f}, {}>>
<1>4. /\ chosen \in SUBSET version[l] /\ chosen # {}
      /\ l = 0 => \A g \in version[0] \ chosen : \A x \in g.entries, y \in EntriesOf(chosen) : x.key # y.key
  BY <1>3, PickedFiles
<1>5. inputs \in SetupOtherInputs(l, chosen)
  BY <1>2 DEF IsTrivialMove
<1> HIDE DEF chosen
<1>6. InputsInv(l, {f}, {})
  <2>1. InputsInv(l, inputs[1], inputs[2])
    <3> HIDE DEF inputs
    <3> QED
      BY <1>3, <1>4, <1>5, SetupInputs
  <2> QED
    BY <2>1
<1>7. l \in Levels /\ GoodFiles({f})
  <2>1. l \in Levels
    BY CompactionAssumption DEF Levels
  <2> QED
    BY <1>3, <2>1, VersionFacts DEF GoodFiles
<1>8. version' = [version EXCEPT ![l] = @ \ {f}, ![l + 1] = (@ \ {}) \cup {f}]
  <2>1. \A S : S \ {} = S
    OBVIOUS
  <2> QED
    BY <1>2, <2>1
<1>9. UNCHANGED <<wrote, mem, snapshots>> /\ compaction' = NoCompaction
  BY DEF TrivialMove
<1>10. EntriesOf({f}) \subseteq EntriesOf({f} \cup {}) /\ EntriesOf({f} \cup {}) = EntriesOf({f})
  BY DEF EntriesOf
<1>11. /\ AllEntries' \subseteq AllEntries
       /\ \A x \in AllEntries : x \in AllEntries' \/ (x \in EntriesOf({f} \cup {}) /\ x \notin EntriesOf({f}))
       /\ KeptInv' => IInv'
  <2>1. \A g, h \in {f} : g = h \/ Apart(g.entries, h.entries)
    OBVIOUS
  <2> DEFINE in0 == {f}
             in1 == {}
  <2>2. InputsInv(l, in0, in1) /\ OutputsFor(in0, in1, in0) /\ version' = Replaced(l, in0, in1, in0)
    BY <1>6, <1>7, <1>8, <1>10, <2>1, Zenon DEF Replaced, OutputsFor
  <2>3. /\ AllEntries' \subseteq AllEntries
        /\ \A x \in AllEntries : x \in AllEntries' \/ (x \in EntriesOf(in0 \cup in1) /\ x \notin EntriesOf(in0))
        /\ KeptInv' => IInv'
    <3> HIDE DEF in0, in1
    <3> QED
      BY <1>9, <2>2, ReplacesFiles
  <2> QED
    BY <2>3, Zenon
<1>12. AllEntries' = AllEntries
  BY <1>10, <1>11
<1>13. KeptInv'
  BY <1>3, <1>9, <1>12 DEF KeptInv, LastSequence, IsLast
<1> QED
  BY <1>11, <1>13

\* Entries are told apart by their sequence numbers, and so ordered.
LEMMA EntriesOrdered ==
    ASSUME Types, TruthInv, NEW x \in AllEntries, NEW y \in AllEntries
    PROVE  /\ x.key \in Nat /\ y.key \in Nat /\ x.seq \in Nat /\ y.seq \in Nat
           /\ x.seq = y.seq => x = y
           /\ x = y \/ Before(x, y) \/ Before(y, x)
<1>1. x \in Entries /\ y \in Entries
  BY StoredFacts
<1>2. x.key \in Nat /\ y.key \in Nat /\ x.seq \in Nat /\ y.seq \in Nat
  BY <1>1, EntryFacts
<1>3. ASSUME x.seq = y.seq
      PROVE  x = y
  <2>1. wrote[x.seq] = [key |-> x.key, del |-> x.del] /\ wrote[y.seq] = [key |-> y.key, del |-> y.del]
    BY DEF TruthInv
  <2>2. wrote[x.seq] = wrote[y.seq]
    BY <1>3
  <2>3. x.key = y.key /\ x.del = y.del
    BY <2>1, <2>2
  <2> QED
    BY <1>1, <1>3, <2>3 DEF Entries
<1> QED
  BY <1>2, <1>3 DEF Before

\* The entries of one output: the same cuts come before them.
LEMMA SameCuts ==
    ASSUME Types, TruthInv, NEW kept \in SUBSET AllEntries, NEW cuts \in SUBSET kept,
           NEW e \in kept, NEW g \in kept
    PROVE  g \in SameOutput(kept, cuts, e) <=> \A c \in cuts : Before(c, g) <=> Before(c, e)
<1>1. ASSUME NEW c \in cuts, NEW x \in kept
      PROVE  (x = c \/ Before(x, c)) <=> ~Before(c, x)
  <2>1. c \in AllEntries /\ x \in AllEntries
    OBVIOUS
  <2>2. /\ x.key \in Nat /\ c.key \in Nat /\ x.seq \in Nat /\ c.seq \in Nat
        /\ x = c \/ Before(x, c) \/ Before(c, x)
    BY <2>1, EntriesOrdered
  <2> QED
    BY <2>2 DEF Before
<1>2. g \in SameOutput(kept, cuts, e) <=>
         ~\E c \in cuts : \/ (g = c \/ Before(g, c)) /\ Before(c, e)
                          \/ (e = c \/ Before(e, c)) /\ Before(c, g)
  BY DEF SameOutput
<1> QED
  BY <1>1, <1>2

\* Two outputs of a compaction share no key, if no cut parts the entries of a key.
LEMMA OutputsApart ==
    ASSUME Types, TruthInv, NEW kept \in SUBSET AllEntries, NEW cuts \in SUBSET kept,
           \A c \in cuts, g \in kept : c.key = g.key => ~Before(c, g),
           NEW d \in kept, NEW e \in kept
    PROVE  \/ SameOutput(kept, cuts, d) = SameOutput(kept, cuts, e)
           \/ Apart(SameOutput(kept, cuts, d), SameOutput(kept, cuts, e))
<1>1. /\ SameOutput(kept, cuts, d) \subseteq kept /\ SameOutput(kept, cuts, e) \subseteq kept
      /\ \A g \in kept : g \in SameOutput(kept, cuts, d) <=> \A c \in cuts : Before(c, g) <=> Before(c, d)
      /\ \A g \in kept : g \in SameOutput(kept, cuts, e) <=> \A c \in cuts : Before(c, g) <=> Before(c, e)
  <2>1. SameOutput(kept, cuts, d) \subseteq kept /\ SameOutput(kept, cuts, e) \subseteq kept
    BY DEF SameOutput
  <2> QED
    BY <2>1, SameCuts
<1>2. ASSUME NEW c \in cuts, NEW x \in kept, NEW y \in kept, ~Before(c, x), Before(c, y)
      PROVE  x.key < y.key
  <2>1. c \in AllEntries /\ x \in AllEntries /\ y \in AllEntries
    OBVIOUS
  <2>2. /\ x.key \in Nat /\ c.key \in Nat /\ x.seq \in Nat /\ c.seq \in Nat
        /\ x = c \/ Before(x, c)
    BY <1>2, <2>1, EntriesOrdered
  <2>3. y.key \in Nat /\ y.seq \in Nat
    BY <2>1, EntriesOrdered
  <2>4. c.key # y.key
    BY <1>2
  <2> QED
    BY <1>2, <2>2, <2>3, <2>4 DEF Before
<1>3. CASE \A c \in cuts : Before(c, d) <=> Before(c, e)
  BY <1>1, <1>3
<1>4. ASSUME NEW c \in cuts, ~Before(c, d), Before(c, e)
      PROVE  Apart(SameOutput(kept, cuts, d), SameOutput(kept, cuts, e))
  <2>1. ASSUME NEW x \in SameOutput(kept, cuts, d), NEW y \in SameOutput(kept, cuts, e)
        PROVE  x.key < y.key
    <3>1. x \in kept /\ y \in kept /\ ~Before(c, x) /\ Before(c, y)
      BY <1>1, <1>4
    <3> QED
      BY <1>2, <3>1
  <2> QED
    BY <2>1 DEF Apart
<1>5. ASSUME NEW c \in cuts, Before(c, d), ~Before(c, e)
      PROVE  Apart(SameOutput(kept, cuts, d), SameOutput(kept, cuts, e))
  <2>1. ASSUME NEW x \in SameOutput(kept, cuts, d), NEW y \in SameOutput(kept, cuts, e)
        PROVE  y.key < x.key
    <3>1. x \in kept /\ y \in kept /\ Before(c, x) /\ ~Before(c, y)
      BY <1>1, <1>5
    <3> QED
      BY <1>2, <3>1
  <2> QED
    BY <2>1 DEF Apart
<1> QED
  BY <1>3, <1>4, <1>5

\* The outputs of a compaction: what was kept, in files that share no key.
LEMMA OutputFiles ==
    ASSUME Types, TruthInv, NEW kept \in SUBSET AllEntries, NEW cuts \in SUBSET kept,
           \A c \in cuts, g \in kept : c.key = g.key => ~Before(c, g),
           NEW out, out = Outputs(kept, cuts)
    PROVE  /\ GoodFiles(out) /\ EntriesOf(out) = kept
           /\ \A f, g \in out : f = g \/ Apart(f.entries, g.entries)
<1>1. \A f \in out : \E e \in kept : f = [number |-> 0, entries |-> SameOutput(kept, cuts, e)]
  BY DEF Outputs
<1>2. \A e \in kept : [number |-> 0, entries |-> SameOutput(kept, cuts, e)] \in out
  BY DEF Outputs
<1>3. \A e \in kept : e \in SameOutput(kept, cuts, e) /\ SameOutput(kept, cuts, e) \subseteq kept
  <2>1. \A e \in kept : SameOutput(kept, cuts, e) \subseteq kept
    BY DEF SameOutput
  <2>2. \A e \in kept : e \in SameOutput(kept, cuts, e)
    BY SameCuts
  <2> QED
    BY <2>1, <2>2
<1>4. kept \subseteq Entries
  BY StoredFacts
<1>5. ASSUME NEW f \in out
      PROVE  f \in Files /\ f.entries # {} /\ f.entries \subseteq kept
  <2>1. PICK e \in kept : f = [number |-> 0, entries |-> SameOutput(kept, cuts, e)]
    BY <1>1
  <2>2. f.entries = SameOutput(kept, cuts, e)
    BY <2>1
  <2>3. f.entries # {} /\ f.entries \subseteq kept
    BY <1>3, <2>2
  <2>4. 0 \in 0..MaxWrites
    BY EntryFacts
  <2>5. SameOutput(kept, cuts, e) \in SUBSET Entries
    BY <1>3, <1>4
  <2> QED
    BY <2>1, <2>3, <2>4, <2>5 DEF Files
<1>6. kept \subseteq EntriesOf(out)
  <2> SUFFICES ASSUME NEW e \in kept
               PROVE  e \in EntriesOf(out)
    OBVIOUS
  <2> DEFINE f == [number |-> 0, entries |-> SameOutput(kept, cuts, e)]
  <2>1. f \in out /\ e \in f.entries
    BY <1>2, <1>3
  <2> HIDE DEF f
  <2> QED
    BY <2>1 DEF EntriesOf
<1>7. EntriesOf(out) = kept
  BY <1>5, <1>6 DEF EntriesOf
<1>8. ASSUME NEW f \in out, NEW g \in out
      PROVE  f = g \/ Apart(f.entries, g.entries)
  <2>1. PICK d \in kept : f = [number |-> 0, entries |-> SameOutput(kept, cuts, d)]
    BY <1>1
  <2>2. PICK e \in kept : g = [number |-> 0, entries |-> SameOutput(kept, cuts, e)]
    BY <1>1
  <2>3. f.entries = SameOutput(kept, cuts, d) /\ g.entries = SameOutput(kept, cuts, e)
    BY <2>1, <2>2
  <2>4. SameOutput(kept, cuts, d) = SameOutput(kept, cuts, e) \/ Apart(f.entries, g.entries)
    BY <2>3, OutputsApart
  <2> QED
    BY <2>1, <2>2, <2>4
<1> QED
  BY <1>5, <1>7, <1>8 DEF GoodFiles

\* What a compaction drops, no reader misses: a newer entry hides it from every reader, or
\* it is a deletion marker and nothing is left that it would hide.
LEMMA DropsKeep ==
    ASSUME IInv, compaction # NoCompaction, UNCHANGED <<wrote, snapshots>>,
           NEW in0, in0 = compaction.in0, NEW in1, in1 = compaction.in1, NEW l, l = compaction.level,
           NEW kept, kept = {e \in InputEntries : ~Drops(e, InputEntries)},
           NEW out, EntriesOf(out) = kept, mem' = mem,
           AllEntries' \subseteq AllEntries,
           \A x \in AllEntries : x \in AllEntries' \/ (x \in EntriesOf(in0 \cup in1) /\ x \notin EntriesOf(out)),
           \A m \in Levels : \A f \in version'[m] :
              \/ f \in version[m] /\ (m = l => f \notin in0) /\ (m = l + 1 => f \notin in1)
              \/ m = l + 1 /\ f \in out
    PROVE  KeptInv'
<1>1. Types /\ TruthInv /\ AgeInv /\ EntriesNeverHop /\ KeptInv /\ CompactionInv
  BY DEF IInv
<1>2. InputEntries = EntriesOf(in0 \cup in1)
  BY DEF InputEntries, EntriesOf
<1>3. l \in 0..(NumLevels - 2) /\ InputsInv(l, in0, in1)
  BY <1>1 DEF CompactionInv
<1>4. /\ l \in Levels /\ l + 1 \in Levels /\ l \in Nat
      /\ in0 \subseteq version[l] /\ in1 \subseteq version[l + 1]
      /\ InputEntries \subseteq StoredEntries /\ InputEntries \subseteq AllEntries
  BY <1>1, <1>2, <1>3, InputFacts DEF AllEntries
<1>5. \A x \in AllEntries, y \in AllEntries :
         x.key \in Nat /\ x.seq \in Nat /\ (x.seq = y.seq => x = y)
  BY <1>1, EntriesOrdered
<1>6. LastSequence' = LastSequence /\ LastSequence \in Nat /\ \A s \in snapshots \cup {LastSequence} : s \in Nat
  BY <1>1, StoredFacts DEF LastSequence, Types
<1> SUFFICES ASSUME NEW s \in snapshots \cup {LastSequence}, NEW i \in 1..s, IsLast(i, s)
             PROVE  \/ \E e \in AllEntries' : e.seq = i
                    \/ wrote[i].del /\ \A e \in AllEntries' : e.key = wrote[i].key => e.seq > s
  BY <1>6 DEF KeptInv, IsLast
<1>7. s \in Nat /\ i \in Nat /\ i <= s /\ compaction.smallest <= s /\ compaction.smallest \in Nat
  BY <1>1, <1>6 DEF CompactionInv, Types
<1>8. \A x \in AllEntries : x.seq \in 1..LastSequence /\ wrote[x.seq] = [key |-> x.key, del |-> x.del]
  BY <1>1 DEF TruthInv
<1>9. ASSUME NEW x \in AllEntries
      PROVE  wrote[x.seq].key = x.key /\ wrote[x.seq].del = x.del
  <2>1. wrote[x.seq] = [key |-> x.key, del |-> x.del]
    BY <1>8
  <2>2. x.del \in BOOLEAN
    BY <1>1, StoredFacts, EntryFacts
  <2> QED
    BY <2>1, <2>2
<1>10. ASSUME NEW x \in AllEntries, x.key = wrote[i].key, x.seq <= s
       PROVE  x.seq <= i
  <2>1. x.seq \in 1..s
    <3>1. x.seq \in 1..LastSequence
      BY <1>8
    <3> QED
      BY <1>6, <1>7, <1>10, <3>1
  <2> QED
    BY <1>9, <1>10, <2>1 DEF IsLast
<1>11. \/ \E e \in AllEntries : e.seq = i
       \/ wrote[i].del /\ \A e \in AllEntries : e.key = wrote[i].key => e.seq > s
  BY <1>1 DEF KeptInv
<1>12. CASE wrote[i].del /\ \A e \in AllEntries : e.key = wrote[i].key => e.seq > s
  BY <1>12
<1>13. ASSUME NEW e \in AllEntries, e.seq = i, e \notin AllEntries'
       PROVE  wrote[i].del /\ \A h \in AllEntries' : h.key = wrote[i].key => h.seq > s
  <2>1. e \in InputEntries /\ e \notin kept
    BY <1>2, <1>13
  <2>2. Drops(e, InputEntries)
    BY <2>1
  <2>3. wrote[i].key = e.key /\ wrote[i].del = e.del
    BY <1>9, <1>13
  <2>4. ~\E g \in InputEntries : g.key = e.key /\ g.seq > e.seq /\ g.seq <= compaction.smallest
    <3> SUFFICES ASSUME NEW g \in InputEntries, g.key = e.key, g.seq > e.seq, g.seq <= compaction.smallest
                 PROVE  FALSE
      OBVIOUS
    <3>1. g \in AllEntries /\ g.seq \in Nat
      BY <1>4, <1>5
    <3>2. g.seq <= s
      BY <1>7, <3>1
    <3>3. g.seq <= i
      BY <1>10, <2>3, <3>1, <3>2
    <3> QED
      BY <1>7, <1>13, <3>1, <3>3
  <2>5. e.del /\ e.seq <= compaction.smallest /\ IsBaseLevelForKey(e.key)
    BY <2>2, <2>4 DEF Drops
  <2>6. ASSUME NEW h \in AllEntries', h.key = e.key, ~(h.seq > s)
        PROVE  FALSE
    <3>1. h \in AllEntries /\ h.seq \in Nat /\ h.key \in Nat /\ e.seq \in Nat /\ h # e
      BY <1>5, <1>13
    <3>2. h.seq < e.seq
      <4>1. h.seq <= i
        BY <1>7, <1>10, <2>3, <2>6, <3>1
      <4>2. h.seq # e.seq
        BY <1>5, <3>1
      <4> QED
        BY <1>7, <1>13, <3>1, <4>1, <4>2
    <3>3. PICK p \in in0 \cup in1 : e \in p.entries
      BY <1>2, <2>1 DEF EntriesOf
    <3>4. (p \in in0 /\ p \in version[l]) \/ (p \in in1 /\ p \in version[l + 1])
      BY <1>4, <3>3
    <3>5. h \notin mem
      <4>1. e \in StoredEntries
        BY <1>4, <2>1
      <4>2. h \in mem => e.seq < h.seq
        BY <1>1, <4>1 DEF AgeInv
      <4> QED
        BY <3>1, <3>2, <4>2
    <3>6. PICK m \in Levels : \E f \in version'[m] : h \in f.entries
      <4>1. h \in StoredEntries'
        BY <3>5 DEF AllEntries
      <4> QED
        BY <4>1 DEF StoredEntries
    <3>7. PICK f \in version'[m] : h \in f.entries
      BY <3>6
    <3>8. m \in Nat /\ NumLevels \in Nat /\ m <= NumLevels - 1
      BY CompactionAssumption DEF Levels
    <3>9. CASE f \in version[m] /\ (m < l \/ (m = l /\ f \notin in0))
      <4>1. CASE p \in in1 \/ m < l
        <5>1. PICK n \in Levels : p \in version[n] /\ m < n
          BY <1>4, <3>4, <3>8, <3>9, <4>1
        <5>2. h.seq > e.seq
          BY <1>1, <2>6, <3>3, <3>7, <3>9, <5>1 DEF EntriesNeverHop
        <5> QED
          BY <3>1, <3>2, <5>2
      <4>2. CASE p \in in0 /\ m = l
        <5>1. f \in version[l] \ in0 /\ e \in EntriesOf(in0)
          <6>1. f \in version[l] /\ f \notin in0
            BY <1>4, <3>9, <4>2
          <6> QED
            BY <3>3, <4>2, <6>1 DEF EntriesOf
        <5>3. Newer(f.entries, EntriesOf(in0))
          BY <1>3, <5>1 DEF InputsInv
        <5>2. h.seq > e.seq
          BY <2>6, <3>7, <5>1, <5>3 DEF Newer
        <5> QED
          BY <3>1, <3>2, <5>2
      <4> QED
        BY <3>4, <3>9, <4>1, <4>2
    <3>10. CASE f \in version[m] /\ m = l + 1 /\ f \notin in1
      <4>1. Apart(f.entries, EntriesOf(in0 \cup in1)) /\ e \in EntriesOf(in0 \cup in1)
        BY <1>2, <1>3, <2>1, <3>10 DEF InputsInv
      <4>2. h.key < e.key \/ e.key < h.key
        BY <3>7, <4>1 DEF Apart
      <4> QED
        BY <2>6, <3>1, <4>2
    <3>11. CASE f \in out
      <4>1. h \in kept
        BY <3>7, <3>11 DEF EntriesOf
      <4>2. h \in InputEntries /\ ~Drops(h, InputEntries)
        BY <4>1
      <4>3. e.key = h.key /\ e.seq > h.seq /\ e.seq <= compaction.smallest
        BY <2>5, <2>6, <3>1, <3>2
      <4> QED
        BY <2>1, <4>2, <4>3 DEF Drops
    <3>12. CASE f \in version[m] /\ m > l + 1
      <4>1. m \in (l + 2)..(NumLevels - 1)
        BY <1>4, <3>8, <3>12
      <4>2. f \in compaction.base \/ Newer(f.entries, InputEntries)
        BY <1>1, <3>12, <4>1 DEF CompactionInv
      <4>3. CASE Newer(f.entries, InputEntries)
        <5>1. h.seq > e.seq
          BY <2>1, <2>6, <3>7, <4>3 DEF Newer
        <5> QED
          BY <3>1, <3>2, <5>1
      <4>4. CASE f \in compaction.base
        <5>1. ~Overlaps(f, e.key, e.key)
          BY <2>5, <4>4 DEF IsBaseLevelForKey
        <5>2. f \in Files /\ f.entries # {}
          BY <1>1, <3>12, VersionFacts DEF GoodFiles
        <5>3. e.key \in Nat /\ e.key <= h.key /\ h.key <= e.key
          BY <2>6, <3>1
        <5> QED
          BY <3>7, <5>1, <5>2, <5>3, OverlapFacts
      <4> QED
        BY <4>2, <4>3, <4>4
    <3>13. m < l \/ m = l \/ m = l + 1 \/ m > l + 1
      BY <1>4, <3>8
    <3> QED
      BY <3>7, <3>9, <3>10, <3>11, <3>12, <3>13
  <2> QED
    BY <2>3, <2>5, <2>6
<1> QED
  BY <1>11, <1>12, <1>13

\* The end of a compaction, whatever was written, flushed or released since it began.
LEMMA FinishCompactionKeeps ==
    ASSUME Sane, IInv, FinishCompaction
    PROVE  IInv'
<1>1. Types /\ TruthInv /\ AgeInv /\ EntriesNeverHop /\ KeptInv /\ CompactionInv /\ compaction # NoCompaction
  BY DEF IInv, FinishCompaction
<1>2. UNCHANGED <<wrote, mem, snapshots>> /\ compaction' = NoCompaction
  BY DEF FinishCompaction
<1>3. PICK l, in0, in1, kept :
         /\ l = compaction.level /\ in0 = compaction.in0 /\ in1 = compaction.in1
         /\ kept = {e \in InputEntries : ~Drops(e, InputEntries)}
  OBVIOUS
<1>4. PICK cuts \in Cuts(kept) : InstallCompactionResults(Outputs(kept, cuts))
  BY <1>3 DEF FinishCompaction
<1>5. PICK out : out = Outputs(kept, cuts)
  OBVIOUS
<1>6. version' = Replaced(l, in0, in1, out)
  BY <1>3, <1>4, <1>5 DEF InstallCompactionResults, Replaced
<1>7. InputEntries = EntriesOf(in0 \cup in1)
  BY <1>3 DEF InputEntries, EntriesOf
<1>8. l \in 0..(NumLevels - 2) /\ InputsInv(l, in0, in1)
  BY <1>1, <1>3 DEF CompactionInv
<1>9. InputEntries \subseteq AllEntries
  BY <1>1, <1>7, <1>8, InputFacts DEF AllEntries
<1>10. kept \in SUBSET AllEntries /\ cuts \in SUBSET kept
  BY <1>3, <1>9 DEF Cuts
<1>11. \A c \in cuts, g \in kept : c.key = g.key => ~Before(c, g)
  <2> SUFFICES ASSUME NEW c \in cuts, NEW g \in kept, c.key = g.key, Before(c, g)
               PROVE  FALSE
    OBVIOUS
  <2>1. CASE ~SplitsKeys
    <3>1. \A e \in cuts : ~\E h \in kept : h.key = e.key /\ Before(e, h)
      BY <2>1 DEF Cuts
    <3> QED
      BY <3>1
  <2>2. CASE MaxSnapshots = 0
    <3>1. c \in InputEntries /\ g \in InputEntries /\ ~Drops(g, InputEntries)
      BY <1>3, <1>10
    <3>2. c.key \in Nat /\ g.key \in Nat /\ c.seq \in Nat /\ g.seq \in Nat
      <4>1. c \in AllEntries /\ g \in AllEntries
        BY <1>9, <3>1
      <4> QED
        BY <1>1, <4>1, EntriesOrdered
    <3>3. c.seq > g.seq
      BY <3>2 DEF Before
    <3>4. c.seq <= compaction.smallest
      BY <1>1, <2>2, <3>1 DEF CompactionInv
    <3> QED
      BY <3>1, <3>3, <3>4 DEF Drops
  <2> QED
    BY <2>1, <2>2 DEF Sane
<1>12. /\ GoodFiles(out) /\ EntriesOf(out) = kept
       /\ \A f, g \in out : f = g \/ Apart(f.entries, g.entries)
  BY <1>1, <1>5, <1>10, <1>11, OutputFiles
<1>13. EntriesOf(out) \subseteq EntriesOf(in0 \cup in1)
  BY <1>3, <1>7, <1>12
<1>14. /\ AllEntries' \subseteq AllEntries
       /\ \A x \in AllEntries : x \in AllEntries' \/ (x \in EntriesOf(in0 \cup in1) /\ x \notin EntriesOf(out))
       /\ \A m \in Levels : \A f \in version'[m] :
             \/ f \in version[m] /\ (m = l => f \notin in0) /\ (m = l + 1 => f \notin in1)
             \/ m = l + 1 /\ f \in out
       /\ KeptInv' => IInv'
  <2>1. OutputsFor(in0, in1, out)
    BY <1>12, <1>13 DEF OutputsFor
  <2> QED
    BY <1>2, <1>6, <1>8, <2>1, ReplacesFiles
<1>15. KeptInv'
  BY <1>1, <1>2, <1>3, <1>12, <1>14, DropsKeep
<1> QED
  BY <1>14, <1>15

\* The empty database.
LEMMA InitIInv == Init => IInv
<1> SUFFICES ASSUME Init
             PROVE  IInv
  OBVIOUS
<1>1. /\ wrote = <<>> /\ mem = {} /\ version = [l \in Levels |-> {}] /\ snapshots = {}
      /\ compaction = NoCompaction
  BY DEF Init
<1>2. LastSequence = 0 /\ \A l \in Levels : version[l] = {}
  BY <1>1 DEF LastSequence
<1>3. StoredEntries = {} /\ AllEntries = {}
  BY <1>1, <1>2 DEF StoredEntries, AllEntries
<1>4. Types
  <2>1. wrote \in Seq([key : Keys, del : BOOLEAN]) /\ version \in [Levels -> SUBSET Files]
    BY <1>1, EmptySeq
  <2>2. NoCompaction \in [level : Int, in0 : SUBSET Files, in1 : SUBSET Files, base : SUBSET Files,
                          smallest : Nat, manual : BOOLEAN]
    BY DEF NoCompaction
  <2> QED
    BY <1>1, <1>2, <2>1, <2>2, EntryFacts DEF Types, TypeOK, FilesInv
<1>5. 0 \in Levels
  BY CompactionAssumption DEF Levels
<1>6. TruthInv /\ AgeInv /\ DisjointInv /\ EntriesNeverHop
  BY <1>1, <1>2, <1>3, <1>5 DEF TruthInv, AgeInv, DisjointInv, EntriesNeverHop
<1>7. KeptInv
  BY <1>1, <1>2 DEF KeptInv
<1> QED
  BY <1>1, <1>4, <1>6, <1>7 DEF IInv

\* Every step.
LEMMA NextIInv == Sane /\ IInv /\ [Next]_vars => IInv'
BY WriteKeeps, SnapshotsKeep, CompactMemTableKeeps, PickCompactionKeeps, CompactRangeKeeps, TrivialMoveKeeps,
   FinishCompactionKeeps, CleanupCompactionKeeps DEF Next

\* The inductive invariant holds.
THEOREM InvariantHolds == Sane => (Spec => []IInv)
<1> SUFFICES ASSUME Sane
             PROVE  Spec => []IInv
  OBVIOUS
<1>1. Init => IInv
  BY InitIInv
<1>2. IInv /\ [Next]_vars => IInv'
  BY NextIInv
<1> QED
  BY <1>1, <1>2, PTL DEF Spec

\* The files of a level other than 0 do not overlap (LevelsDisjoint), although a flush may
\* put a file on the level that a compaction is about to write to.
THEOREM LevelsStayDisjoint == Sane => (Spec => []LevelsDisjoint)
<1>1. IInv => LevelsDisjoint
  BY DEF IInv, DisjointInv, Apart, LevelsDisjoint, Before
<1> QED
  BY <1>1, InvariantHolds, PTL

\* Entries never hop across levels (EntriesNeverHop): of two entries of a key the one
\* further down is the older, so that Version::Get may stop at the first level that has one.
THEOREM NoEntryHops == Sane => (Spec => []EntriesNeverHop)
<1>1. IInv => EntriesNeverHop
  BY DEF IInv
<1> QED
  BY <1>1, InvariantHolds, PTL

-----------------------------------------------------------------------------
\* Reading.

\* A reader sees something if there is anything to see.
LEMMA VisibleFacts ==
    ASSUME NEW S \in SUBSET Entries, NEW key, NEW s
    PROVE  Visible(S, key, s) = {} <=> ~\E e \in S : e.key = key /\ e.seq <= s
<1> DEFINE seen == {e \in S : e.key = key /\ e.seq <= s}
           numbers == {e.seq : e \in seen}
<1>1. Visible(S, key, s) = {e \in seen : \A g \in seen : g.seq <= e.seq}
  BY DEF Visible
<1>2. CASE seen = {}
  BY <1>1, <1>2
<1>3. CASE seen # {}
  <2>1. seen \subseteq Entries
    OBVIOUS
  <2> HIDE DEF seen
  <2>2. numbers \in SUBSET Nat /\ numbers # {} /\ MaxWrites \in Nat /\ \A n \in numbers : n <= MaxWrites
    BY <1>3, <2>1, EntryFacts
  <2>3. Max(numbers) \in numbers /\ \A n \in numbers : n <= Max(numbers)
    <3> HIDE DEF numbers
    <3> QED
      BY <2>2, GreatestOf
  <2>4. PICK e \in seen : e.seq = Max(numbers)
    BY <2>3
  <2>5. \A g \in seen : g.seq \in numbers
    OBVIOUS
  <2>6. \A g \in seen : g.seq <= e.seq
    <3> HIDE DEF numbers
    <3> QED
      BY <2>3, <2>4, <2>5
  <2>7. Visible(S, key, s) # {}
    BY <1>1, <2>4, <2>6
  <2> QED
    BY <1>3, <2>7 DEF seen
<1> QED
  BY <1>2, <1>3

\* A scan shows what the last write left.
LEMMA ScanIs ==
    ASSUME IInv, NEW key \in Keys, NEW s \in snapshots \cup {LastSequence}
    PROVE  Scan(key, s) = Expected(key, s)
<1>1. Types /\ TruthInv /\ KeptInv
  BY DEF IInv
<1>2. LastSequence \in Nat /\ s \in Nat /\ s <= LastSequence
  BY <1>1, StoredFacts DEF Types
<1>3. ASSUME NEW x \in AllEntries
      PROVE  /\ x.seq \in 1..LastSequence /\ wrote[x.seq].key = x.key /\ wrote[x.seq].del = x.del
             /\ x.seq \in Nat /\ x.del \in BOOLEAN
  <2>1. x.seq \in 1..LastSequence /\ wrote[x.seq] = [key |-> x.key, del |-> x.del]
    BY <1>1 DEF TruthInv
  <2>2. x.del \in BOOLEAN /\ x.seq \in Nat
    BY <1>1, StoredFacts, EntryFacts
  <2> QED
    BY <2>1, <2>2
<1> DEFINE seen == {x \in AllEntries : x.key = key /\ x.seq <= s}
           made == {i \in 1..s : wrote[i].key = key}
<1>4. Scan(key, s) = {x.seq : x \in {y \in {z \in seen : \A g \in seen : g.seq <= z.seq} : ~y.del}}
  BY DEF Scan, Visible, AllEntries
<1>5. Expected(key, s) = {i \in {j \in made : \A k \in made : k <= j} : ~wrote[i].del}
  BY DEF Expected
<1>6. \A x \in AllEntries : x \in seen <=> x.seq \in made
  BY <1>2, <1>3
<1>7. ASSUME NEW i \in made, \A k \in made : k <= i
      PROVE  \/ \E x \in seen : x.seq = i
             \/ wrote[i].del /\ seen = {}
  <2>1. i \in 1..s /\ IsLast(i, s) /\ wrote[i].key = key
    BY <1>7 DEF IsLast
  <2>2. CASE \E x \in AllEntries : x.seq = i
    BY <1>6, <1>7, <2>2
  <2>3. CASE wrote[i].del /\ \A x \in AllEntries : x.key = wrote[i].key => x.seq > s
    <3>1. \A x \in AllEntries : x.key = key => ~(x.seq <= s)
      BY <1>2, <1>3, <2>1, <2>3
    <3> QED
      BY <2>3, <3>1
  <2> QED
    BY <1>1, <2>1, <2>2, <2>3 DEF KeptInv
<1>8. made # {} => \E i \in made : \A k \in made : k <= i
  <2>1. made \in SUBSET Nat /\ \A k \in made : k <= s
    BY <1>2
  <2> HIDE DEF made
  <2> QED
    BY <1>2, <2>1, GreatestOf
<1> HIDE DEF made
<1>9. ASSUME NEW n \in Expected(key, s)
      PROVE  n \in Scan(key, s)
  <2>1. n \in made /\ (\A k \in made : k <= n) /\ ~wrote[n].del
    BY <1>5
  <2>2. PICK x \in seen : x.seq = n
    BY <1>7, <2>1
  <2>3. \A g \in seen : g.seq <= x.seq
    BY <1>6, <2>1, <2>2
  <2>4. ~x.del
    BY <1>3, <2>1, <2>2
  <2> HIDE DEF seen
  <2> QED
    BY <1>4, <2>2, <2>3, <2>4
<1>10. ASSUME NEW n \in Scan(key, s)
       PROVE  n \in Expected(key, s)
  <2>1. PICK x \in seen : (\A g \in seen : g.seq <= x.seq) /\ ~x.del /\ n = x.seq
    <3> HIDE DEF seen
    <3> QED
      BY <1>4
  <2>2. x \in AllEntries /\ n \in made
    BY <1>6, <2>1
  <2>3. PICK i \in made : \A k \in made : k <= i
    BY <1>8, <2>2
  <2>4. \E y \in seen : y.seq = i
    BY <1>7, <2>1, <2>3
  <2>5. PICK y \in seen : y.seq = i
    BY <2>4
  <2>6. i <= n /\ n <= i
    BY <2>1, <2>2, <2>3, <2>5
  <2>7. i \in Nat /\ n \in Nat
    BY <1>3, <2>1, <2>2, <2>5
  <2>8. i = n
    BY <2>6, <2>7
  <2>9. ~wrote[n].del
    BY <1>3, <2>1, <2>2
  <2> QED
    BY <1>5, <2>2, <2>3, <2>8, <2>9
<1> QED
  BY <1>9, <1>10

\* An iterator over the whole database shows what the last write left, at every snapshot
\* held and at present (ScansLatest): no compaction drops what a reader still needs.
THEOREM ScansFindTheLatest == Sane => (Spec => []ScansLatest)
<1>1. IInv => ScansLatest
  BY ScanIs DEF ScansLatest
<1> QED
  BY <1>1, InvariantHolds, PTL

\* The last entry of a file.
LEMMA LastOfFile ==
    ASSUME Types, TruthInv, NEW l \in Levels, NEW f \in version[l]
    PROVE  /\ LargestEntry(f) \in f.entries
           /\ \A g \in f.entries : g = LargestEntry(f) \/ Before(g, LargestEntry(f))
<1>1. f \in Files /\ f.entries # {} /\ f.entries \subseteq Entries /\ f.entries \subseteq AllEntries
  <2>1. f.entries \subseteq StoredEntries
    BY StoredFacts
  <2> QED
    BY <2>1, VersionFacts, EntryFacts DEF GoodFiles, AllEntries
<1>2. PICK p \in f.entries : p.key = Largest(f)
  BY <1>1, FileBounds
<1>3. \A g \in f.entries : g.key <= p.key /\ g.key \in Nat /\ g.seq \in Nat
  BY <1>1, <1>2, FileBounds, EntryFacts
<1> DEFINE last == {g \in f.entries : g.key = p.key}
           numbers == {g.seq : g \in last}
<1>4. numbers \in SUBSET Nat /\ numbers # {} /\ \A g \in last : g.seq \in numbers
  BY <1>2, <1>3
<1>5. Min(numbers) \in numbers /\ \A n \in numbers : Min(numbers) <= n
  <2> HIDE DEF numbers
  <2> QED
    BY <1>4, LeastOf
<1>6. PICK e \in last : e.seq = Min(numbers)
  BY <1>5
<1>7. \A g \in last : e.seq <= g.seq
  <2> HIDE DEF numbers
  <2> QED
    BY <1>4, <1>5, <1>6
<1>8. e \in f.entries /\ e.key = p.key
  BY <1>6
<1>9. ASSUME NEW g \in f.entries
      PROVE  g = e \/ Before(g, e)
  <2>1. g = e \/ Before(g, e) \/ Before(e, g)
    BY <1>1, <1>8, EntriesOrdered
  <2>2. ~Before(e, g)
    <3>1. CASE g.key = p.key
      BY <1>3, <1>7, <1>8, <3>1 DEF Before
    <3>2. CASE g.key # p.key
      BY <1>3, <1>8, <3>2 DEF Before
    <3> QED
      BY <3>1, <3>2
  <2> QED
    BY <2>1, <2>2
<1>10. \E x \in f.entries : \A g \in f.entries : g = x \/ Before(g, x)
  BY <1>8, <1>9
<1> QED
  BY <1>10, Zenon DEF LargestEntry

\* FindFile finds the file of a level that has something to see.
LEMMA FindsFile ==
    ASSUME IInv, NEW l \in Levels \ {0}, NEW key \in Keys, NEW s \in Nat,
           NEW f \in version[l], NEW x \in f.entries, x.key = key, x.seq <= s
    PROVE  f \in FindFile(l, key, s)
<1>1. Types /\ TruthInv /\ DisjointInv
  BY DEF IInv
<1> DEFINE target == [key |-> key, seq |-> s]
<1>2. target.key = key /\ target.seq = s
  OBVIOUS
<1> HIDE DEF target
<1>3. \A h \in version[l] : h \in Files /\ h.entries # {} /\ \A e \in h.entries : e.key \in Nat /\ e.seq \in Nat
  BY <1>1, VersionFacts, EntryFacts DEF GoodFiles
<1>4. key \in Nat
  BY DEF Keys
<1>5. \A h \in version[l] :
         /\ LargestEntry(h) \in h.entries
         /\ \A g \in h.entries : g = LargestEntry(h) \/ Before(g, LargestEntry(h))
  BY <1>1, LastOfFile
<1>6. ~Before(LargestEntry(f), target)
  <2>1. x = LargestEntry(f) \/ Before(x, LargestEntry(f))
    BY <1>5
  <2>2. LargestEntry(f).key \in Nat /\ LargestEntry(f).seq \in Nat /\ x.seq \in Nat
    BY <1>3, <1>5
  <2> QED
    BY <1>2, <1>4, <2>1, <2>2 DEF Before
<1>7. Smallest(f) <= key /\ Smallest(f) \in Nat
  BY <1>3, FileBounds DEF Keys
<1>8. ASSUME NEW g \in version[l], ~Before(LargestEntry(g), target)
      PROVE  Smallest(f) <= Smallest(g)
  <2>1. CASE f = g
    BY <1>7, <2>1
  <2>2. CASE f # g
    <3>1. Apart(f.entries, g.entries)
      BY <1>1, <2>2 DEF DisjointInv
    <3>2. LargestEntry(g) \in g.entries /\ LargestEntry(g).key \in Nat
      BY <1>3, <1>5
    <3>3. ~(LargestEntry(g).key < x.key)
      BY <1>2, <1>8 DEF Before
    <3>4. \A e \in f.entries, h \in g.entries : e.key < h.key
      BY <3>1, <3>2, <3>3 DEF Apart
    <3>5. PICK h \in g.entries : h.key = Smallest(g)
      BY <1>3, FileBounds
    <3>6. PICK e \in f.entries : e.key = Smallest(f)
      BY <1>3, FileBounds
    <3>7. e.key < h.key /\ e.key \in Nat /\ h.key \in Nat
      BY <1>3, <3>4
    <3> QED
      BY <3>5, <3>6, <3>7
  <2> QED
    BY <2>1, <2>2
<1> QED
  BY <1>6, <1>7, <1>8 DEF FindFile, target

\* What one level has is what there is to see in its files.
LEMMA InLevelIs ==
    ASSUME IInv, NEW l \in Levels, NEW key \in Keys, NEW s \in Nat
    PROVE  InLevel(l, key, s) = Visible(EntriesOf(version[l]), key, s)
<1> DEFINE files == IF l = 0 THEN version[0] ELSE FindFile(l, key, s)
           found == {f \in files : Visible(f.entries, key, s) # {}}
           first == {f \in found : \A g \in found : g.number <= f.number}
           E == EntriesOf(version[l])
<1>1. Types /\ TruthInv /\ AgeInv /\ DisjointInv
  BY DEF IInv
<1>2. \A f \in version[l] : f \in Files /\ f.entries \subseteq Entries /\ f.number \in Nat
  BY <1>1, VersionFacts, EntryFacts DEF GoodFiles
<1>3. E \subseteq Entries /\ \A e \in E : e.key \in Nat /\ e.seq \in Nat
  BY <1>2, EntryFacts DEF EntriesOf
<1>4. \A e : e \in E <=> \E f \in version[l] : e \in f.entries
  BY DEF EntriesOf
<1>5. InLevel(l, key, s) = UNION {Visible(f.entries, key, s) : f \in first}
  BY DEF InLevel
<1>6. files \subseteq version[l]
  BY DEF FindFile
<1>7. ASSUME NEW f \in version[l]
      PROVE  f \in found <=> \E e \in f.entries : e.key = key /\ e.seq <= s
  <2>1. Visible(f.entries, key, s) = {} <=> ~\E e \in f.entries : e.key = key /\ e.seq <= s
    BY <1>2, VisibleFacts
  <2>2. ASSUME NEW e \in f.entries, e.key = key, e.seq <= s
        PROVE  f \in files
    <3>1. CASE l = 0
      BY <3>1
    <3>2. CASE l # 0
      BY <2>2, <3>2, FindsFile
    <3> QED
      BY <3>1, <3>2
  <2> HIDE DEF files
  <2> QED
    BY <2>1, <2>2
<1>8. found \subseteq version[l]
  BY <1>6
<1> HIDE DEF files, found
<1>9. ASSUME NEW f \in found, NEW g \in found, f # g
      PROVE  l = 0
  <2> SUFFICES ASSUME l # 0
               PROVE  FALSE
    OBVIOUS
  <2>1. Apart(f.entries, g.entries)
    BY <1>1, <1>8, <1>9 DEF DisjointInv
  <2>2. PICK e \in f.entries : e.key = key
    BY <1>7, <1>8
  <2>3. PICK h \in g.entries : h.key = key
    BY <1>7, <1>8
  <2>4. key \in Nat
    BY DEF Keys
  <2> QED
    BY <2>1, <2>2, <2>3, <2>4 DEF Apart
<1>10. ASSUME NEW f \in first, NEW g \in found, NEW e \in f.entries, NEW h \in g.entries, f # g
       PROVE  h.seq < e.seq
  <2>1. l = 0 /\ f \in version[0] /\ g \in version[0] /\ g.number <= f.number
    BY <1>8, <1>9, <1>10
  <2>2. f.number \in Nat /\ g.number \in Nat /\ e.seq \in Nat /\ h.seq \in Nat
    BY <1>2, <2>1, EntryFacts
  <2>3. g.number # f.number
    BY <1>1, <1>10, <2>1 DEF AgeInv
  <2>4. g.number < f.number
    BY <2>1, <2>2, <2>3
  <2>5. h.seq <= g.number /\ g.number < e.seq
    BY <1>1, <2>1, <2>4 DEF AgeInv
  <2> QED
    BY <2>2, <2>5
<1>11. ASSUME NEW f \in first
       PROVE  Visible(f.entries, key, s) = Visible(E, key, s)
  <2>1. f \in version[l] /\ f \in found
    BY <1>8
  <2>2. PICK w \in f.entries : w.key = key /\ w.seq <= s
    BY <1>7, <2>1
  <2>3. ASSUME NEW e \in E, e.key = key, e.seq <= s, e \notin f.entries
        PROVE  \A h \in f.entries : e.seq < h.seq
    <3>1. PICK g \in version[l] : e \in g.entries
      BY <1>4
    <3>2. g \in found /\ g # f
      BY <1>7, <2>3, <3>1
    <3> QED
      BY <1>10, <3>1, <3>2
  <2>4. \A e \in f.entries : e \in E
    BY <1>4, <2>1
  <2>5. ASSUME NEW e \in Visible(f.entries, key, s)
        PROVE  e \in Visible(E, key, s)
    <3>1. e \in f.entries /\ e.key = key /\ e.seq <= s
      BY DEF Visible
    <3>2. ASSUME NEW g \in E, g.key = key, g.seq <= s
          PROVE  g.seq <= e.seq
      <4>1. CASE g \in f.entries
        BY <3>2, <4>1 DEF Visible
      <4>2. CASE g \notin f.entries
        BY <1>3, <2>3, <2>4, <3>1, <3>2, <4>2
      <4> QED
        BY <4>1, <4>2
    <3> QED
      BY <2>4, <3>1, <3>2 DEF Visible
  <2>6. ASSUME NEW e \in Visible(E, key, s)
        PROVE  e \in Visible(f.entries, key, s)
    <3>1. e \in E /\ e.key = key /\ e.seq <= s /\ w.seq <= e.seq
      BY <2>2, <2>4 DEF Visible
    <3>2. e \in f.entries
      BY <1>3, <2>2, <2>3, <2>4, <3>1
    <3> QED
      BY <2>4, <3>1, <3>2 DEF Visible
  <2> QED
    BY <2>5, <2>6
<1>12. CASE found = {}
  <2>1. ~\E e \in E : e.key = key /\ e.seq <= s
    BY <1>4, <1>7, <1>12
  <2>2. Visible(E, key, s) = {}
    BY <1>3, <2>1, VisibleFacts
  <2> QED
    BY <1>5, <1>12, <2>2
<1>13. CASE found # {}
  <2>1. first # {}
    <3> DEFINE numbers == {f.number : f \in found}
    <3>1. LastSequence \in Nat
      BY <1>1, StoredFacts
    <3>2. CASE l = 0
      <4>1. numbers \in SUBSET Nat /\ numbers # {} /\ \A n \in numbers : n <= LastSequence
        BY <1>1, <1>2, <1>8, <1>13, <3>2 DEF AgeInv
      <4>2. Max(numbers) \in numbers /\ \A n \in numbers : n <= Max(numbers)
        <5> HIDE DEF numbers
        <5> QED
          BY <3>1, <4>1, GreatestOf
      <4>3. PICK f \in found : f.number = Max(numbers)
        BY <4>2
      <4>4. \A g \in found : g.number \in numbers
        OBVIOUS
      <4>5. \A g \in found : g.number <= f.number
        <5> HIDE DEF numbers
        <5> QED
          BY <4>2, <4>3, <4>4
      <4> QED
        BY <4>3, <4>5
    <3>3. CASE l # 0
      <4>1. PICK f \in found : TRUE
        BY <1>13
      <4>2. \A g \in found : g = f
        BY <1>9, <3>3
      <4>3. f.number <= f.number
        BY <1>2, <1>8
      <4> QED
        BY <4>1, <4>2, <4>3
    <3> QED
      BY <3>2, <3>3
  <2>2. PICK f \in first : TRUE
    BY <2>1
  <2> HIDE DEF first, E
  <2>3. \A v : v \in UNION {Visible(g.entries, key, s) : g \in first} <=> v \in Visible(E, key, s)
    BY <1>11, <2>2
  <2> QED
    BY <1>5, <2>3 DEF E
<1> QED
  BY <1>12, <1>13

\* For a reader of key at s, the entries in B are older than those in A.
Hides(A, B, key, s) ==
    \A e \in A, h \in B : e.key = key /\ h.key = key /\ e.seq <= s /\ h.seq <= s => h.seq < e.seq

\* The newest in A hides what is older in B.
LEMMA VisibleAbove ==
    ASSUME NEW A \in SUBSET Entries, NEW B \in SUBSET Entries, NEW key, NEW s,
           Hides(A, B, key, s), Visible(A, key, s) # {}
    PROVE  Visible(A \cup B, key, s) = Visible(A, key, s)
<1> USE DEF Hides
<1>1. PICK w \in A : w.key = key /\ w.seq <= s
  BY VisibleFacts
<1>2. \A e \in A \cup B : e.seq \in Nat
  BY EntryFacts
<1>3. ASSUME NEW e \in Visible(A, key, s)
      PROVE  e \in Visible(A \cup B, key, s)
  <2>1. e \in A /\ e.key = key /\ e.seq <= s
    BY DEF Visible
  <2>2. ASSUME NEW g \in A \cup B, g.key = key, g.seq <= s
        PROVE  g.seq <= e.seq
    <3>1. CASE g \in A
      BY <2>2, <3>1 DEF Visible
    <3>2. CASE g \in B
      <4>1. g.seq < e.seq /\ g.seq \in Nat /\ e.seq \in Nat
        BY <1>2, <2>1, <2>2, <3>2
      <4> QED
        BY <4>1
    <3> QED
      BY <3>1, <3>2
  <2> QED
    BY <2>1, <2>2 DEF Visible
<1>4. ASSUME NEW e \in Visible(A \cup B, key, s)
      PROVE  e \in Visible(A, key, s)
  <2>1. e \in A \cup B /\ e.key = key /\ e.seq <= s /\ w.seq <= e.seq
    BY <1>1 DEF Visible
  <2>2. e \notin B
    <3>1. e \in B => e.seq < w.seq
      BY <1>1, <2>1
    <3>2. e.seq \in Nat /\ w.seq \in Nat
      BY <1>1, <1>2, <2>1
    <3> QED
      BY <2>1, <3>1, <3>2
  <2> QED
    BY <2>1, <2>2 DEF Visible
<1> QED
  BY <1>3, <1>4

\* Where there is nothing to see, nothing is hidden.
LEMMA VisibleBeyond ==
    ASSUME NEW A \in SUBSET Entries, NEW B, NEW key, NEW s, Visible(A, key, s) = {}
    PROVE  Visible(A \cup B, key, s) = Visible(B, key, s)
<1>1. \A e \in A : ~(e.key = key /\ e.seq <= s)
  BY VisibleFacts
<1> QED
  BY <1>1 DEF Visible

\* The first level that has anything has what there is to see in all.
LEMMA VersionGetIs ==
    ASSUME IInv, NEW key \in Keys, NEW s \in Nat
    PROVE  VersionGet(key, s) = Visible(StoredEntries, key, s)
<1>1. Types /\ EntriesNeverHop
  BY DEF IInv
<1> DEFINE holding == {l \in Levels : InLevel(l, key, s) # {}}
<1>2. VersionGet(key, s) = IF holding = {} THEN {} ELSE InLevel(Min(holding), key, s)
  BY DEF VersionGet
<1>3. \A l \in Levels : EntriesOf(version[l]) \in SUBSET Entries
  BY <1>1, VersionFacts, EntryFacts DEF GoodFiles, EntriesOf
<1>4. \A l \in Levels : l \in holding <=> \E e \in EntriesOf(version[l]) : e.key = key /\ e.seq <= s
  <2> SUFFICES ASSUME NEW l \in Levels
               PROVE  l \in holding <=> \E e \in EntriesOf(version[l]) : e.key = key /\ e.seq <= s
    OBVIOUS
  <2>1. InLevel(l, key, s) = Visible(EntriesOf(version[l]), key, s)
    BY InLevelIs
  <2>2. Visible(EntriesOf(version[l]), key, s) = {} <=>
           ~\E e \in EntriesOf(version[l]) : e.key = key /\ e.seq <= s
    BY <1>3, VisibleFacts
  <2> QED
    BY <2>1, <2>2
<1>5. StoredEntries \in SUBSET Entries /\ \A x : x \in StoredEntries <=> \E l \in Levels : x \in EntriesOf(version[l])
  <2>1. \A x : x \in StoredEntries <=> \E l \in Levels : x \in EntriesOf(version[l])
    BY <1>1, StoredFacts DEF EntriesOf
  <2> QED
    BY <1>3, <2>1
<1>6. holding \in SUBSET Levels /\ holding \in SUBSET Nat
  BY DEF Levels
<1> HIDE DEF holding
<1>7. CASE holding = {}
  <2>1. ~\E e \in StoredEntries : e.key = key /\ e.seq <= s
    BY <1>4, <1>5, <1>7
  <2>2. Visible(StoredEntries, key, s) = {}
    BY <1>5, <2>1, VisibleFacts
  <2> QED
    BY <1>2, <1>7, <2>2
<1>8. CASE holding # {}
  <2>1. PICK m : m = Min(holding)
    OBVIOUS
  <2>2. m \in holding /\ \A l \in holding : m <= l
    BY <1>6, <1>8, <2>1, LeastOf
  <2> DEFINE A == EntriesOf(version[m])
  <2>3. A \in SUBSET Entries /\ m \in Levels
    BY <1>3, <1>6, <2>2
  <2>4. Visible(A, key, s) # {} /\ VersionGet(key, s) = Visible(A, key, s)
    <3>1. \E e \in A : e.key = key /\ e.seq <= s
      BY <1>4, <2>2, <2>3
    <3>2. Visible(A, key, s) # {}
      <4> HIDE DEF A
      <4> QED
        BY <2>3, <3>1, VisibleFacts
    <3>3. InLevel(m, key, s) = Visible(A, key, s)
      BY <2>3, InLevelIs
    <3> QED
      BY <1>2, <1>8, <2>1, <3>2, <3>3
  <2> DEFINE B == StoredEntries \ A
  <2>5. ASSUME NEW e \in A, NEW h \in B, e.key = key, h.key = key, e.seq <= s, h.seq <= s
        PROVE  h.seq < e.seq
    <3>1. PICK l \in Levels : h \in EntriesOf(version[l])
      BY <1>5
    <3>2. l \in holding /\ l # m
      BY <1>4, <2>5, <3>1
    <3>3. m < l
      BY <1>6, <2>2, <3>2
    <3>4. PICK f \in version[m] : e \in f.entries
      BY DEF EntriesOf
    <3>5. PICK g \in version[l] : h \in g.entries
      BY <3>1 DEF EntriesOf
    <3>6. e.seq > h.seq
      BY <1>1, <2>3, <2>5, <3>3, <3>4, <3>5 DEF EntriesNeverHop
    <3>7. e.seq \in Nat /\ h.seq \in Nat
      BY <1>5, <2>3, EntryFacts
    <3> QED
      BY <3>6, <3>7
  <2>6. B \in SUBSET Entries /\ A \cup B = StoredEntries
    BY <1>5, <2>3
  <2>7. Hides(A, B, key, s)
    BY <2>5 DEF Hides
  <2> HIDE DEF A, B
  <2>8. Visible(A \cup B, key, s) = Visible(A, key, s)
    BY <2>3, <2>4, <2>6, <2>7, VisibleAbove
  <2> QED
    BY <2>4, <2>6, <2>8
<1> QED
  BY <1>7, <1>8

\* Get answers as a scan does.
LEMMA GetIs ==
    ASSUME IInv, NEW key \in Keys, NEW s \in Nat
    PROVE  Get(key, s) = Scan(key, s)
<1>1. Types /\ AgeInv
  BY DEF IInv
<1>2. mem \in SUBSET Entries /\ StoredEntries \in SUBSET Entries
  BY <1>1, StoredFacts DEF AllEntries
<1> DEFINE found == IF Visible(mem, key, s) # {} THEN Visible(mem, key, s) ELSE VersionGet(key, s)
<1>3. found = Visible(mem \cup StoredEntries, key, s)
  <2>1. CASE Visible(mem, key, s) # {}
    <3>1. Hides(mem, StoredEntries, key, s)
      BY <1>1 DEF AgeInv, Hides
    <3>2. Visible(mem \cup StoredEntries, key, s) = Visible(mem, key, s)
      BY <1>2, <2>1, <3>1, VisibleAbove
    <3> QED
      BY <2>1, <3>2
  <2>2. CASE Visible(mem, key, s) = {}
    <3>1. Visible(mem \cup StoredEntries, key, s) = Visible(StoredEntries, key, s)
      BY <1>2, <2>2, VisibleBeyond
    <3> QED
      BY <2>2, <3>1, VersionGetIs
  <2> QED
    BY <2>1, <2>2
<1>4. Get(key, s) = {e.seq : e \in {x \in found : ~x.del}}
  BY DEF Get
<1> HIDE DEF found
<1> QED
  BY <1>3, <1>4 DEF Scan

\* Get finds what the last write left, at every snapshot held and at present
\* (ReadsLatest), wherever flushes and compactions have put it: in the memtable, in one of
\* the files of level 0 that overlap, or in the one file of a level that FindFile looks at.
THEOREM ReadsFindTheLatest == Sane => (Spec => []ReadsLatest)
<1>1. IInv => ReadsLatest
  <2> SUFFICES ASSUME IInv, NEW key \in Keys, NEW s \in snapshots \cup {LastSequence}
               PROVE  Get(key, s) = Expected(key, s)
    BY DEF ReadsLatest
  <2>1. Types
    BY DEF IInv
  <2>2. s \in Nat
    BY <2>1, StoredFacts DEF Types
  <2> QED
    BY <2>2, GetIs, ScanIs
<1> QED
  BY <1>1, InvariantHolds, PTL

=============================================================================
