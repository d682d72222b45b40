---------------------------- MODULE SortedTable ----------------------------
(***************************************************************************)
(* A table file of LevelDB: how the builder cuts sorted entries into       *)
(* blocks with shared prefixes, restart points, short index keys and bloom *)
(* filters, and how a reader finds its way back through all of these.      *)
(*                                                                         *)
(* A byte is a number up to Top, which plays 0xff.  An internal key is the *)
(* bytes of the user key and one more symbol, the tag, for the eight bytes *)
(* of sequence number and type.  Offsets within a block count entries;     *)
(* offsets in the file have a unit of their own, and a block has any of    *)
(* BlockSizes, so that it may end anywhere with regard to FilterBase.      *)
(***************************************************************************)
EXTENDS Integers, Sequences, FiniteSets, FiniteSetsExt, SequencesExt

CONSTANTS
    Top,              \* the largest byte
    UserKeys,         \* user keys, sequences of bytes
    Tags,             \* the tags of entries, 1..n
    MaxEntries,       \* bound on the entries of a table
    RestartIntervals, \* values of block_restart_interval
    BlockSizes,       \* sizes of a written block, trailer included
    FilterBase        \* kFilterBase

VARIABLES
    rep,   \* TableBuilder::Rep
    file   \* what has been written

vars == <<rep, file>>

Word == 16          \* hashes are numbers below it, for uint32_t
FilterBits == 8     \* bits of a filter
Probes == 2         \* k_
MaxTag == Max(Tags) + 1    \* kMaxSequenceNumber, kValueTypeForSeek

-----------------------------------------------------------------------------
\* Keys.

User(k) == Front(k)          \* ExtractUserKey
Tag(k) == Last(k)
InternalKeys == {Append(u, t) : u \in UserKeys, t \in Tags}
Targets == {Append(u, t) : u \in UserKeys, t \in Tags \cup {MaxTag}}

\* The number of leading bytes that two keys share.
Shared(a, b) ==
    Max({n \in 0..Min({Len(a), Len(b)}) : \A i \in 1..n : a[i] = b[i]})

\* BytewiseComparatorImpl::Compare, a < b
BytesLess(a, b) ==
    LET n == Shared(a, b)
    IN  Len(b) > n /\ (Len(a) > n => a[n + 1] < b[n + 1])

\* InternalKeyComparator::Compare, a < b
Less(a, b) == BytesLess(User(a), User(b)) \/ (User(a) = User(b) /\ Tag(a) > Tag(b))

\* BytewiseComparatorImpl::FindShortestSeparator
BytesSeparator(start, limit) ==
    LET n == Shared(start, limit)
    IN  IF n = Min({Len(start), Len(limit)}) THEN start
        ELSE IF start[n + 1] < Top /\ start[n + 1] + 1 < limit[n + 1]
               THEN Append(SubSeq(start, 1, n), start[n + 1] + 1) ELSE start

\* BytewiseComparatorImpl::FindShortSuccessor
BytesSuccessor(key) ==
    LET low == {i \in 1..Len(key) : key[i] # Top}
    IN  IF low = {} THEN key ELSE Append(SubSeq(key, 1, Min(low) - 1), key[Min(low)] + 1)

\* A shorter user key that is larger gets the earliest tag there is.
Shortened(key, user) ==
    IF Len(user) < Len(User(key)) /\ BytesLess(User(key), user) THEN Append(user, MaxTag) ELSE key

\* Mutant: the separator is taken for shorter when it is not.
FindShortestSeparatorAlways(start, limit) == Append(BytesSeparator(User(start), User(limit)), MaxTag)

\* InternalKeyComparator::FindShortestSeparator and FindShortSuccessor
FindShortestSeparator(start, limit) == Shortened(start, BytesSeparator(User(start), User(limit)))
FindShortSuccessor(key) == Shortened(key, BytesSuccessor(User(key)))

-----------------------------------------------------------------------------
\* Blocks.  A value is the key itself in a data block and a handle in an index block.

EmptyBlock(interval) ==
    [entries |-> <<>>, restarts |-> <<1>>, counter |-> 0, lastKey |-> <<>>, interval |-> interval]

\* BlockBuilder::Add
BlockAdd(b, key, value) ==
    LET again == b.counter < b.interval
        shared == IF again THEN Shared(b.lastKey, key) ELSE 0
    IN  [b EXCEPT
            !.restarts = IF again THEN @ ELSE Append(@, Len(b.entries) + 1),
            !.entries = Append(@, [shared |-> shared, delta |-> SubSeq(key, shared + 1, Len(key)), value |-> value]),
            !.lastKey = key,
            !.counter = IF again THEN @ + 1 ELSE 1]

\* Block::Iter: current_ (past the entries when not valid), restart_index_, key_, and
\* where the next entry starts.
Corrupted(b) == [current |-> Len(b.entries) + 1, restart |-> Len(b.restarts) + 1, key |-> <<>>, next |-> 1]
SeekToRestartPoint(b, i) == [current |-> 0, restart |-> i, key |-> <<>>, next |-> b.restarts[i]]
Valid(b, it) == it.current \in 1..Len(b.entries)
Value(b, it) == b.entries[it.current].value

ParseNextKey(b, it) ==
    LET e == b.entries[it.next]
        passed == {i \in it.restart..Len(b.restarts) : i = it.restart \/ b.restarts[i] < it.next}
    IN  IF it.next > Len(b.entries)
          THEN [it EXCEPT !.current = Len(b.entries) + 1, !.restart = Len(b.restarts) + 1]
        ELSE IF Len(it.key) < e.shared THEN Corrupted(b)
        ELSE [current |-> it.next, restart |-> Max(passed),
              key |-> SubSeq(it.key, 1, e.shared) \o e.delta, next |-> it.next + 1]

\* The binary search over restart points, for the last one with a key before the target.
RECURSIVE RestartBefore(_, _, _, _)
RestartBefore(b, target, left, right) ==
    LET mid == (left + right + 1) \div 2
        e == b.entries[b.restarts[mid]]
    IN  IF left >= right THEN left
        ELSE IF e.shared # 0 THEN 0
        ELSE IF Less(e.delta, target) THEN RestartBefore(b, target, mid, right)
        ELSE RestartBefore(b, target, left, mid - 1)

\* On, until the key is not before the target.
RECURSIVE ScanTo(_, _, _)
ScanTo(b, it, target) ==
    LET n == ParseNextKey(b, it)
    IN  IF ~Valid(b, n) \/ ~Less(n.key, target) THEN n ELSE ScanTo(b, n, target)

\* On, until the next entry starts at limit.
RECURSIVE ScanUpTo(_, _, _)
ScanUpTo(b, it, limit) ==
    LET n == ParseNextKey(b, it)
    IN  IF ~Valid(b, n) \/ n.next >= limit THEN n ELSE ScanUpTo(b, n, limit)

BlockSeek(b, target) ==
    LET left == RestartBefore(b, target, 1, Len(b.restarts))
    IN  IF left = 0 THEN Corrupted(b) ELSE ScanTo(b, SeekToRestartPoint(b, left), target)
BlockFirst(b) == ParseNextKey(b, SeekToRestartPoint(b, 1))
BlockLast(b) == ScanUpTo(b, SeekToRestartPoint(b, Len(b.restarts)), Len(b.entries) + 1)
BlockPrev(b, it) ==
    LET before == {i \in 1..it.restart : b.restarts[i] < it.current}
    IN  IF before = {} THEN [it EXCEPT !.current = Len(b.entries) + 1, !.restart = Len(b.restarts) + 1]
        ELSE ScanUpTo(b, SeekToRestartPoint(b, Max(before)), it.current)

-----------------------------------------------------------------------------
\* Filters: a sequence of sets of bits, one for each FilterBase of the file.

\* Any function from user keys to words will do.
BloomHash(user) == (7 * Len(user) + FoldLeft(LAMBDA h, c : 3 * h + 5 * c, 1, user)) % Word

\* The positions probed: double hashing, with the word rotated as the step.
ProbesOf(user) ==
    LET h == BloomHash(user)
        delta == (h \div 4) + (h % 4) * 4
    IN  {((h + j * delta) % Word) % FilterBits : j \in 0..(Probes - 1)}

\* BloomFilterPolicy: the bits that are set, and whether all of a key's are; an empty
\* filter matches nothing.
BloomFilter(users) == UNION {ProbesOf(u) : u \in users}
BloomMatches(user, filter) == filter # {} /\ ProbesOf(user) \subseteq filter

\* InternalFilterPolicy::CreateFilter, on user keys.
CreateFilter(keys) == BloomFilter({User(k) : k \in keys})

\* GenerateFilter: for the keys since the last one; no keys give an empty filter.
GenerateFilter(f) == [filters |-> Append(f.filters, CreateFilter(f.keys)), keys |-> {}]

\* StartBlock
StartBlock(f, offset) ==
    FoldLeft(LAMBDA g, i : GenerateFilter(g), f, [i \in 1..((offset \div FilterBase) - Len(f.filters)) |-> i])

\* FilterBlockBuilder::Finish
FinishFilter(f) == IF f.keys = {} THEN f.filters ELSE GenerateFilter(f).filters

\* FilterBlockReader::KeyMayMatch
KeyMayMatch(filters, offset, key) ==
    LET i == offset \div FilterBase
    IN  i < Len(filters) => BloomMatches(User(key), filters[i + 1])

-----------------------------------------------------------------------------
\* TableBuilder.

EmptyFile == [blocks |-> <<>>, offset |-> 0, filters |-> <<>>, index |-> EmptyBlock(1), footer |-> FALSE]

Init ==
    /\ \E interval \in RestartIntervals :
           rep = [added |-> <<>>, data |-> EmptyBlock(interval), index |-> EmptyBlock(1),
                  pending |-> FALSE, handle |-> 0, filter |-> [filters |-> <<>>, keys |-> {}],
                  ok |-> TRUE, closed |-> FALSE]
    /\ file = EmptyFile

\* The index entry of the block before, now that the next key is known.
EmitIndexEntry(r, separator) ==
    IF r.pending THEN [r EXCEPT !.index = BlockAdd(@, separator, r.handle), !.pending = FALSE] ELSE r

\* WriteBlock: the block at the end of the file.
WriteBlock(f, data, size) ==
    [f EXCEPT !.blocks = Append(@, [offset |-> f.offset, block |-> data]), !.offset = @ + size]

\* Flush, with the size of the block and whether it could be written.
Flush(r, f, size, written) ==
    IF r.data.entries = <<>> \/ ~r.ok THEN <<r, f>>
    ELSE <<[r EXCEPT !.pending = written, !.ok = written, !.data = EmptyBlock(@.interval),
                     !.handle = f.offset,
                     !.filter = StartBlock(@, IF written THEN f.offset + size ELSE f.offset)],
           IF written THEN WriteBlock(f, r.data, size) ELSE f>>

\* Add: after it the block is big enough and flushed, or not.
Add(key, big, size, written) ==
    /\ ~rep.closed /\ rep.ok
    /\ Len(rep.added) < MaxEntries
    /\ rep.added # <<>> => Less(Last(rep.added), key)
    /\ LET r == IF rep.pending THEN EmitIndexEntry(rep, FindShortestSeparator(Last(rep.added), key)) ELSE rep
           a == [r EXCEPT !.filter.keys = @ \cup {key}, !.added = Append(@, key), !.data = BlockAdd(@, key, key)]
           after == IF big THEN Flush(a, file, size, written) ELSE <<a, file>>
       IN  rep' = after[1] /\ file' = after[2]

\* Finish: the last block, then filter, index and footer.
Finish(size, written) ==
    /\ ~rep.closed
    /\ LET flushed == Flush(rep, file, size, written)
           r == IF flushed[1].pending
                  THEN EmitIndexEntry(flushed[1], FindShortSuccessor(Last(rep.added))) ELSE flushed[1]
       IN  /\ rep' = [r EXCEPT !.closed = TRUE]
           /\ file' = IF ~r.ok THEN flushed[2]
                      ELSE [flushed[2] EXCEPT !.filters = FinishFilter(r.filter), !.index = r.index, !.footer = TRUE]

\* The end of the file could not be written; the caller gives the table up (Abandon).
Abandon ==
    /\ ~rep.closed
    /\ rep' = [rep EXCEPT !.ok = FALSE, !.closed = TRUE]
    /\ UNCHANGED file

Next ==
    \/ \E key \in InternalKeys, size \in BlockSizes, big, written \in BOOLEAN : Add(key, big, size, written)
    \/ \E size \in BlockSizes, written \in BOOLEAN : Finish(size, written)
    \/ Abandon

Spec == Init /\ [][Next]_vars

-----------------------------------------------------------------------------
\* Table.

\* Open, by the footer and the index block it leads to.
Opens == file.footer

\* ReadBlock, of what is stored at an offset.
ReadBlock(offset) == CHOOSE b \in ToSet(file.blocks) : b.offset = offset

\* BlockReader: from the handle in the index to the block, cached or not.
BlockAt(offset) == ReadBlock(offset).block

\* ReadMeta, ReadFilter: a table without filters, or whose filters cannot be read, is
\* read without.
MayHave(offset, key, filtered) == filtered => KeyMayMatch(file.filters, offset, key)

\* InternalGet: what the block has at or after the key, unless the filter rules it out.
InternalGet(key, filtered) ==
    LET i == BlockSeek(file.index, key)
        offset == Value(file.index, i)
        d == BlockSeek(BlockAt(offset), key)
    IN  IF ~Valid(file.index, i) \/ ~MayHave(offset, key, filtered) \/ ~Valid(BlockAt(offset), d)
          THEN {} ELSE {d.key}

\* The iterator of a table: the block by the index, and the next one if it has nothing left.
TableSeek(key) ==
    LET i == BlockSeek(file.index, key)
        d == BlockSeek(BlockAt(Value(file.index, i)), key)
        n == ParseNextKey(file.index, i)
    IN  IF ~Valid(file.index, i) THEN {}
        ELSE IF Valid(BlockAt(Value(file.index, i)), d) THEN {d.key}
        ELSE IF Valid(file.index, n) THEN {BlockFirst(BlockAt(Value(file.index, n))).key}
        ELSE {}

\* ApproximateOffsetOf; the end of the data stands for the metaindex block.
ApproximateOffsetOf(key) ==
    LET i == BlockSeek(file.index, key)
    IN  IF Valid(file.index, i) THEN Value(file.index, i) ELSE file.offset

\* The keys of a block from its first on, and from its last back.
RECURSIVE Forward(_, _)
Forward(b, it) == IF Valid(b, it) THEN <<it.key>> \o Forward(b, ParseNextKey(b, it)) ELSE <<>>
RECURSIVE Backward(_, _)
Backward(b, it) == IF Valid(b, it) THEN Backward(b, BlockPrev(b, it)) \o <<it.key>> ELSE <<>>

-----------------------------------------------------------------------------
\* Properties.

\* A table that was finished gives back what was added: a seek finds the first entry at
\* or after its target, a lookup at any sequence number the newest entry of its user key
\* (no filter hides one, no index key leads past it), and its blocks, read forwards or
\* backwards, hold the entries in order.
TableReadsBack ==
    Opens =>
        /\ \A t \in Targets :
              LET after == {i \in 1..Len(rep.added) : ~Less(rep.added[i], t)}
                  first == IF after = {} THEN {} ELSE {rep.added[Min(after)]}
              IN  /\ TableSeek(t) = first
                  /\ \A filtered \in BOOLEAN :
                        {k \in InternalGet(t, filtered) : User(k) = User(t)} = {k \in first : User(k) = User(t)}
        /\ rep.added = FlattenSeq([i \in 1..Len(file.blocks) |-> Forward(file.blocks[i].block, BlockFirst(file.blocks[i].block))])
        /\ rep.added = FlattenSeq([i \in 1..Len(file.blocks) |-> Backward(file.blocks[i].block, BlockLast(file.blocks[i].block))])
        /\ \A i, j \in 1..Len(rep.added) :
              i < j => ApproximateOffsetOf(rep.added[i]) <= ApproximateOffsetOf(rep.added[j])

=============================================================================
