----------------------------- MODULE Iterators -----------------------------
(***************************************************************************)
(* LevelDB's iterators: DBIter, which shows one value for each user key as *)
(* of a snapshot, on a MergingIterator, on children that are two-level     *)
(* iterators over blocks (or over the files of a level).  A child with one *)
(* block stands for a memtable or a table of level 0.                      *)
(*                                                                         *)
(* An entry is the number of a user key, a sequence number and a type; the *)
(* numbers follow InternalKeyComparator.  Keys are 1..NumKeys, 0 stands    *)
(* for no key, no child, no block and no position.                         *)
(***************************************************************************)
EXTENDS Integers, Sequences, FiniteSets, FiniteSetsExt, SequencesExt

CONSTANTS
    NumKeys,    \* number of user keys
    MaxSequence,\* number of writes in the database
    NumChildren \* number of children of the merging iterator

VARIABLES
    wrote,     \* the writes: key and type, by sequence number
    blocks,    \* the blocks of each child, each a sequence of entries
    snapshot,  \* sequence_ of the DBIter
    it,        \* the state of all the iterators
    want       \* the key at which the DBIter should be, 0 if it should not be valid

vars == <<wrote, blocks, snapshot, it, want>>

Children == 1..NumChildren
Sequences == 1..MaxSequence

Entry(k, s) == (k - 1) * (MaxSequence + 1) + (MaxSequence - s) + 1
UserKey(e) == ((e - 1) \div (MaxSequence + 1)) + 1
SequenceOf(e) == MaxSequence - ((e - 1) % (MaxSequence + 1))
IsDeletion(e) == wrote[SequenceOf(e)].del

\* Every database of that many writes, spread over the children in any way.
Init ==
    /\ wrote \in [Sequences -> [key : 1..NumKeys, del : BOOLEAN]]
    /\ snapshot \in 0..MaxSequence
    /\ \E child \in [Sequences -> Children], ends \in SUBSET Sequences :
           LET In(c) == {s \in Sequences : child[s] = c}
               Sorted(c) == SetToSortSeq({Entry(wrote[s].key, s) : s \in In(c)}, <)
               \* only the last child has several blocks; a block ends after an entry of ends
               Block(q, i) == Cardinality({j \in 1..(i - 1) : SequenceOf(q[j]) \in ends})
               Cut(q) == [b \in 1..(Block(q, Len(q)) + 1) |-> SelectSeq(q, LAMBDA e :
                             \E i \in 1..Len(q) : q[i] = e /\ Block(q, i) = b - 1)]
           IN  /\ ends \subseteq In(NumChildren)
               /\ blocks = [c \in Children |-> IF In(c) = {} THEN <<>> ELSE Cut(Sorted(c))]
    /\ it = [kids |-> [c \in Children |-> [index |-> Len(blocks[c]) + 1, block |-> 0, pos |-> 0]],
             current |-> 0, ahead |-> TRUE, forward |-> TRUE, valid |-> FALSE, savedKey |-> 0, savedValue |-> 0]
    /\ want = 0

-----------------------------------------------------------------------------
\* TwoLevelIterator; k is its state, bs the blocks.

IndexValid(bs, k) == k.index \in 1..Len(bs)
DataValid(k) == k.block # 0 /\ k.pos # 0

\* The first position at or after t; past the end there is none.
SeekIn(q, t) == LET at == {i \in 1..Len(q) : q[i] >= t} IN IF at = {} THEN 0 ELSE Min(at)

\* The index iterator: FindFile, or the seek in an index block.
IndexSeek(bs, t) ==
    LET at == {i \in 1..Len(bs) : Last(bs[i]) >= t} IN IF at = {} THEN Len(bs) + 1 ELSE Min(at)
IndexPrev(bs, k) == IF k.index = 1 THEN Len(bs) + 1 ELSE k.index - 1

\* A block that is already there is kept, with its position.
InitDataBlock(bs, k) ==
    IF ~IndexValid(bs, k) THEN [k EXCEPT !.block = 0, !.pos = 0]
    ELSE IF k.block = k.index THEN k ELSE [k EXCEPT !.block = k.index, !.pos = 0]

DataFirst(bs, k) == IF k.block = 0 THEN k ELSE [k EXCEPT !.pos = 1]
DataLast(bs, k) == IF k.block = 0 THEN k ELSE [k EXCEPT !.pos = Len(bs[k.block])]

RECURSIVE SkipForward(_, _)
SkipForward(bs, k) ==
    IF DataValid(k) THEN k
    ELSE IF ~IndexValid(bs, k) THEN [k EXCEPT !.block = 0, !.pos = 0]
    ELSE SkipForward(bs, DataFirst(bs, InitDataBlock(bs, [k EXCEPT !.index = @ + 1])))

RECURSIVE SkipBackward(_, _)
SkipBackward(bs, k) ==
    IF DataValid(k) THEN k
    ELSE IF ~IndexValid(bs, k) THEN [k EXCEPT !.block = 0, !.pos = 0]
    ELSE SkipBackward(bs, DataLast(bs, InitDataBlock(bs, [k EXCEPT !.index = IndexPrev(bs, k)])))

KidSeek(bs, k, t) ==
    LET d == InitDataBlock(bs, [k EXCEPT !.index = IndexSeek(bs, t)])
    IN  SkipForward(bs, IF d.block = 0 THEN d ELSE [d EXCEPT !.pos = SeekIn(bs[d.block], t)])
KidFirst(bs, k) == SkipForward(bs, DataFirst(bs, InitDataBlock(bs, [k EXCEPT !.index = 1])))
KidLast(bs, k) ==
    SkipBackward(bs, DataLast(bs, InitDataBlock(bs, [k EXCEPT !.index = IF bs = <<>> THEN 1 ELSE Len(bs)])))
KidNext(bs, k) == SkipForward(bs, [k EXCEPT !.pos = IF @ = Len(bs[k.block]) THEN 0 ELSE @ + 1])
KidPrev(bs, k) == SkipBackward(bs, [k EXCEPT !.pos = @ - 1])
KidKey(bs, k) == bs[k.block][k.pos]

-----------------------------------------------------------------------------
\* MergingIterator.

Key(m) == KidKey(blocks[m.current], m.kids[m.current])
ValidKids(m) == {c \in Children : DataValid(m.kids[c])}

FindSmallest(m) ==
    [m EXCEPT !.current = IF ValidKids(m) = {} THEN 0
        ELSE CHOOSE c \in ValidKids(m) : \A d \in ValidKids(m) : KidKey(blocks[c], m.kids[c]) <= KidKey(blocks[d], m.kids[d])]
FindLargest(m) ==
    [m EXCEPT !.current = IF ValidKids(m) = {} THEN 0
        ELSE CHOOSE c \in ValidKids(m) : \A d \in ValidKids(m) : KidKey(blocks[c], m.kids[c]) >= KidKey(blocks[d], m.kids[d])]

MFirst(m) == [FindSmallest([m EXCEPT !.kids = [c \in Children |-> KidFirst(blocks[c], m.kids[c])]]) EXCEPT !.ahead = TRUE]
MLast(m) == [FindLargest([m EXCEPT !.kids = [c \in Children |-> KidLast(blocks[c], m.kids[c])]]) EXCEPT !.ahead = FALSE]
MSeek(m, t) == [FindSmallest([m EXCEPT !.kids = [c \in Children |-> KidSeek(blocks[c], m.kids[c], t)]]) EXCEPT !.ahead = TRUE]

\* A change of direction first puts the other children behind the current key ...
AllAfter(m) ==
    [m EXCEPT !.kids = [c \in Children |-> IF c = m.current THEN @[c] ELSE
        LET k == KidSeek(blocks[c], @[c], Key(m))
        IN  IF DataValid(k) /\ KidKey(blocks[c], k) = Key(m) THEN KidNext(blocks[c], k) ELSE k]]

\* Mutant: a child without an entry behind the current key is left invalid.
AllBeforeNoLast(m) ==
    [m EXCEPT !.kids = [c \in Children |-> IF c = m.current THEN @[c] ELSE
        LET k == KidSeek(blocks[c], @[c], Key(m)) IN IF DataValid(k) THEN KidPrev(blocks[c], k) ELSE k]]

\* ... or before it.
AllBefore(m) ==
    [m EXCEPT !.kids = [c \in Children |-> IF c = m.current THEN @[c] ELSE
        LET k == KidSeek(blocks[c], @[c], Key(m))
        IN  IF DataValid(k) THEN KidPrev(blocks[c], k) ELSE KidLast(blocks[c], k)]]

MNext(m) ==
    LET a == IF m.ahead THEN m ELSE [AllAfter(m) EXCEPT !.ahead = TRUE]
    IN  FindSmallest([a EXCEPT !.kids[a.current] = KidNext(blocks[a.current], @)])
MPrev(m) ==
    LET b == IF m.ahead THEN [AllBefore(m) EXCEPT !.ahead = FALSE] ELSE m
    IN  FindLargest([b EXCEPT !.kids[b.current] = KidPrev(blocks[b.current], @)])

-----------------------------------------------------------------------------
\* DBIter.

\* FindNextUserEntry: the first value of a key after skip; skip is savedKey.
RECURSIVE FindNextUserEntry(_, _)
FindNextUserEntry(d, skipping) ==
    LET e == Key(d)
        seen == SequenceOf(e) <= snapshot
        hidden == skipping /\ UserKey(e) <= d.savedKey
        marked == IF seen /\ IsDeletion(e) THEN [d EXCEPT !.savedKey = UserKey(e)] ELSE d
        next == MNext(marked)
    IN  IF seen /\ ~IsDeletion(e) /\ ~hidden THEN [d EXCEPT !.valid = TRUE, !.savedKey = 0]
        ELSE IF next.current = 0 THEN [next EXCEPT !.valid = FALSE, !.savedKey = 0]
        ELSE FindNextUserEntry(next, skipping \/ (seen /\ IsDeletion(e)))

\* FindPrevUserEntry: deleted tells that no value was found yet (value_type).
RECURSIVE FindPrevUserEntry(_, _)
FindPrevUserEntry(d, deleted) ==
    LET e == Key(d)
        seen == SequenceOf(e) <= snapshot
        saved == IF ~seen THEN d
                 ELSE IF IsDeletion(e) THEN [d EXCEPT !.savedKey = 0, !.savedValue = 0]
                 ELSE [d EXCEPT !.savedKey = UserKey(e), !.savedValue = e]
    IN  IF d.current = 0 \/ (seen /\ ~deleted /\ UserKey(e) < d.savedKey)
          THEN IF deleted THEN [d EXCEPT !.valid = FALSE, !.savedKey = 0, !.savedValue = 0, !.forward = TRUE]
                          ELSE [d EXCEPT !.valid = TRUE]
          ELSE FindPrevUserEntry(MPrev(saved), IF seen THEN IsDeletion(e) ELSE deleted)

\* Prev's scan back over the entries of the current key.
RECURSIVE BeforeKey(_)
BeforeKey(d) ==
    LET p == MPrev(d) IN IF p.current = 0 \/ UserKey(Key(p)) < p.savedKey THEN p ELSE BeforeKey(p)

DBKey(d) == IF d.forward THEN UserKey(Key(d)) ELSE d.savedKey
DBValue(d) == IF d.forward THEN Key(d) ELSE d.savedValue

\* What a reader at the snapshot should see.
Newest(k) == {s \in 1..snapshot : wrote[s].key = k /\ \A r \in (s + 1)..snapshot : wrote[r].key # k}
Shown == {k \in 1..NumKeys : \E s \in Newest(k) : ~wrote[s].del}
First(S) == IF S = {} THEN 0 ELSE Min(S)
Final(S) == IF S = {} THEN 0 ELSE Max(S)

Seek(k) ==
    /\ LET d == MSeek([it EXCEPT !.forward = TRUE, !.savedValue = 0, !.savedKey = 0], Entry(k, snapshot))
       IN  it' = IF d.current = 0 THEN [d EXCEPT !.valid = FALSE] ELSE FindNextUserEntry(d, FALSE)
    /\ want' = First({x \in Shown : x >= k})
    /\ UNCHANGED <<wrote, blocks, snapshot>>

SeekToFirst ==
    /\ LET d == MFirst([it EXCEPT !.forward = TRUE, !.savedValue = 0])
       IN  it' = IF d.current = 0 THEN [d EXCEPT !.valid = FALSE] ELSE FindNextUserEntry(d, FALSE)
    /\ want' = First(Shown)
    /\ UNCHANGED <<wrote, blocks, snapshot>>

SeekToLast ==
    /\ it' = FindPrevUserEntry(MLast([it EXCEPT !.forward = FALSE, !.savedValue = 0]), TRUE)
    /\ want' = Final(Shown)
    /\ UNCHANGED <<wrote, blocks, snapshot>>

\* Coming from the other direction, the internal iterator is before the entries of the
\* current key.
Next ==
    /\ it.valid
    /\ LET d == IF it.forward THEN [it EXCEPT !.savedKey = UserKey(Key(it))]
                ELSE [(IF it.current = 0 THEN MFirst(it) ELSE MNext(it)) EXCEPT !.forward = TRUE]
       IN  it' = IF d.current = 0 THEN [d EXCEPT !.valid = FALSE, !.savedKey = 0] ELSE FindNextUserEntry(d, TRUE)
    /\ want' = First({k \in Shown : k > want})
    /\ UNCHANGED <<wrote, blocks, snapshot>>

Prev ==
    /\ it.valid
    /\ LET d == IF it.forward THEN BeforeKey([it EXCEPT !.savedKey = UserKey(Key(it))]) ELSE it
       IN  it' = IF it.forward /\ d.current = 0 THEN [d EXCEPT !.valid = FALSE, !.savedKey = 0, !.savedValue = 0]
                 ELSE FindPrevUserEntry([d EXCEPT !.forward = FALSE], TRUE)
    /\ want' = Final({k \in Shown : k < want})
    /\ UNCHANGED <<wrote, blocks, snapshot>>

Step == (\E k \in 1..NumKeys : Seek(k)) \/ SeekToFirst \/ SeekToLast \/ Next \/ Prev

Spec == Init /\ [][Step]_vars

-----------------------------------------------------------------------------
\* Properties.

\* After any calls in any order the iterator is at the key it should be at, with the
\* newest value that the snapshot shows: no change of direction, deletion, overwritten
\* value or border of a block makes it skip, repeat or resurrect a key.
IteratorInPlace ==
    /\ it.valid <=> want # 0
    /\ it.valid => DBKey(it) = want /\ SequenceOf(DBValue(it)) \in Newest(want)

=============================================================================
