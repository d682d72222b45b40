---------------------------- MODULE Compaction ----------------------------
(***************************************************************************)
(* LevelDB's levels: where a memtable is put, which files a compaction     *)
(* takes, which entries it drops, and how Get finds a value among the      *)
(* files.  A compaction runs without the mutex: writes, snapshots and the  *)
(* flush of another memtable happen while it does.                         *)
(*                                                                         *)
(* Sizes are left open: wherever the code compares bytes (the limits on    *)
(* expansion, on grandparents and on the size of an output) both outcomes  *)
(* are possible, and a compaction may take any file, as a compaction       *)
(* triggered by seeks may.                                                 *)
(***************************************************************************)
EXTENDS Integers, Sequences, FiniteSets, FiniteSetsExt

CONSTANTS
    NumKeys,            \* the user keys are 1..NumKeys
    NumLevels,          \* config::kNumLevels
    MaxMemCompactLevel, \* config::kMaxMemCompactLevel
    MaxWrites,          \* bound on the writes
    MaxSnapshots,       \* bound on the snapshots held
    SplitsKeys,         \* may two outputs of a compaction share a user key?
    FlushesInManual     \* may a memtable be flushed during a manual compaction?

ASSUME CompactionAssumption ==
    /\ {NumKeys, NumLevels, MaxMemCompactLevel, MaxWrites, MaxSnapshots} \subseteq Nat
    /\ NumLevels > 1 /\ MaxMemCompactLevel < NumLevels
    /\ SplitsKeys \in BOOLEAN /\ FlushesInManual \in BOOLEAN

VARIABLES
    wrote,      \* the writes made; the position is the sequence number
    mem,        \* the entries of the memtables
    version,    \* the files of each level, current()
    snapshots,  \* the sequence numbers of the snapshots held
    compaction  \* the compaction at work, or NoCompaction

vars == <<wrote, mem, version, snapshots, compaction>>

Keys == 1..NumKeys
Levels == 0..(NumLevels - 1)
Entries == [key : Keys, seq : 1..MaxWrites, del : BOOLEAN]
\* Only the numbers of files on level 0 are compared, and these come from memtables:
\* a number stands for the moment, the outputs of compactions have none.
Files == [number : 0..MaxWrites, entries : SUBSET Entries]

NoCompaction == [level |-> -1, in0 |-> {}, in1 |-> {}, base |-> {}, smallest |-> 0, manual |-> FALSE]

Init ==
    /\ wrote = <<>>
    /\ mem = {}
    /\ version = [l \in Levels |-> {}]
    /\ snapshots = {}
    /\ compaction = NoCompaction

LastSequence == Len(wrote)

-----------------------------------------------------------------------------
\* Keys and ranges of files.

\* InternalKeyComparator: by user key, the newest first.
Before(e, f) == e.key < f.key \/ (e.key = f.key /\ e.seq > f.seq)

UserKeys(S) == {e.key : e \in S}
Smallest(f) == Min(UserKeys(f.entries))
Largest(f) == Max(UserKeys(f.entries))
LargestEntry(f) == CHOOSE e \in f.entries : \A g \in f.entries : g = e \/ Before(g, e)

\* GetRange
RangeStart(F) == Min({Smallest(f) : f \in F})
RangeLimit(F) == Max({Largest(f) : f \in F})

Overlaps(f, begin, end) == Largest(f) >= begin /\ Smallest(f) <= end

\* OverlapInLevel, SomeFileOverlapsRange
OverlapInLevel(l, begin, end) == \E f \in version[l] : Overlaps(f, begin, end)

\* GetOverlappingInputs: on level 0, where files overlap each other, the range grows
\* until it meets no further file.
GetOverlappingInputs(l, begin, end) ==
    LET Met(b, e) == {f \in version[l] : Overlaps(f, b, e)}
        Closed(b, e) == Met(b, e) = {} \/ (b <= RangeStart(Met(b, e)) /\ RangeLimit(Met(b, e)) <= e)
        b == Max({x \in 0..begin : \E y \in end..(NumKeys + 1) : Closed(x, y)})
        e == Min({y \in end..(NumKeys + 1) : Closed(b, y)})
    IN  IF l = 0 THEN Met(b, e) ELSE Met(begin, end)

-----------------------------------------------------------------------------
\* Reading.

\* The newest entry of S that a reader of key at sequence number s sees.
Visible(S, key, s) ==
    LET seen == {e \in S : e.key = key /\ e.seq <= s}
    IN  {e \in seen : \A g \in seen : g.seq <= e.seq}

\* FindFile: the earliest file whose largest key is not before the one looked for; a
\* file before the key holds nothing for it.
FindFile(l, key, s) ==
    LET ahead == {f \in version[l] : ~Before(LargestEntry(f), [key |-> key, seq |-> s])}
    IN  {f \in ahead : Smallest(f) <= key /\ \A g \in ahead : Smallest(f) <= Smallest(g)}

\* What one level has: the newest file of level 0, the one file of another level.
InLevel(l, key, s) ==
    LET found == {f \in (IF l = 0 THEN version[0] ELSE FindFile(l, key, s)) : Visible(f.entries, key, s) # {}}
        first == {f \in found : \A g \in found : g.number <= f.number}
    IN  UNION {Visible(f.entries, key, s) : f \in first}

\* Version::Get: the first level that has anything answers.
VersionGet(key, s) ==
    LET holding == {l \in Levels : InLevel(l, key, s) # {}}
    IN  IF holding = {} THEN {} ELSE InLevel(Min(holding), key, s)

\* DBImpl::Get: the memtables first.
Get(key, s) ==
    LET found == IF Visible(mem, key, s) # {} THEN Visible(mem, key, s) ELSE VersionGet(key, s)
    IN  {e.seq : e \in {x \in found : ~x.del}}

\* AddIterators: the files of level 0 and the other levels, merged.
StoredEntries == UNION {f.entries : f \in UNION {version[l] : l \in Levels}}

\* What an iterator over everything shows: the merge of the memtables and of all the
\* files (NewInternalIterator, DBIter).
Scan(key, s) == {e.seq : e \in {x \in Visible(mem \cup StoredEntries, key, s) : ~x.del}}

-----------------------------------------------------------------------------
\* Callers.

Write(key, del) ==
    /\ LastSequence < MaxWrites
    /\ wrote' = Append(wrote, [key |-> key, del |-> del])
    /\ mem' = mem \cup {[key |-> key, seq |-> LastSequence + 1, del |-> del]}
    /\ UNCHANGED <<version, snapshots, compaction>>

GetSnapshot ==
    /\ Cardinality(snapshots) < MaxSnapshots
    /\ snapshots' = snapshots \cup {LastSequence}
    /\ UNCHANGED <<wrote, mem, version, compaction>>

ReleaseSnapshot ==
    /\ \E s \in snapshots : snapshots' = snapshots \ {s}
    /\ UNCHANGED <<wrote, mem, version, compaction>>

-----------------------------------------------------------------------------
\* The background thread.

\* Mutant: the level the table arrives on is not looked at.
MemTableLevelsOff(begin, end) ==
    {0} \cup {l \in 1..MaxMemCompactLevel : \A m \in 0..(l - 1) : ~OverlapInLevel(m, begin, end)}

\* PickLevelForMemTableOutput: down to the last level with nothing in the way, or less
\* far if there are too many bytes below.
MemTableLevels(begin, end) ==
    {0} \cup {l \in 1..MaxMemCompactLevel : \A m \in 0..l : ~OverlapInLevel(m, begin, end)}

\* CompactMemTable, also called from within DoCompactionWork.
CompactMemTable ==
    /\ mem # {}
    /\ compaction.manual => FlushesInManual
    /\ \E l \in MemTableLevels(Min(UserKeys(mem)), Max(UserKeys(mem))) :
           version' = [version EXCEPT ![l] = @ \cup {[number |-> LastSequence, entries |-> mem]}]
    /\ mem' = {}
    /\ UNCHANGED <<wrote, snapshots, compaction>>

\* SetupOtherInputs: the files below that the chosen ones overlap, and then more of the
\* level above if that takes no more from below, and is not too much.
SetupOtherInputs(l, chosen) ==
    LET below == GetOverlappingInputs(l + 1, RangeStart(chosen), RangeLimit(chosen))
        all == chosen \cup below
        expanded0 == GetOverlappingInputs(l, RangeStart(all), RangeLimit(all))
        expanded1 == GetOverlappingInputs(l + 1, RangeStart(expanded0), RangeLimit(expanded0))
    IN  {<<chosen, below>>} \cup
        (IF /\ below # {}
            /\ Cardinality(expanded0) > Cardinality(chosen)
            /\ Cardinality(expanded1) = Cardinality(below)
           THEN {<<expanded0, expanded1>>} ELSE {})

\* DoCompactionWork up to the release of the mutex.
SmallestSnapshot == IF snapshots = {} THEN LastSequence ELSE Min(snapshots)

Start(l, inputs, manual) ==
    /\ compaction' = [level |-> l, in0 |-> inputs[1], in1 |-> inputs[2],
                      base |-> UNION {version[m] : m \in (l + 2)..(NumLevels - 1)},
                      smallest |-> SmallestSnapshot, manual |-> manual]
    /\ UNCHANGED <<wrote, mem, version, snapshots>>

\* Mutant: a file of level 0 goes alone, without the ones it overlaps.
PickedAlone(l, f) == {f}

\* PickCompaction: a file, and on level 0 those it overlaps.
Picked(l, f) == IF l = 0 THEN GetOverlappingInputs(0, Smallest(f), Largest(f)) ELSE {f}

PickCompaction ==
    /\ compaction = NoCompaction
    /\ \E l \in 0..(NumLevels - 2) : \E f \in version[l] :
           \E inputs \in SetupOtherInputs(l, Picked(l, f)) : Start(l, inputs, FALSE)

\* The files a manual compaction may take at once: all that overlap the range or, below
\* level 0, the first of them.
ManualInputs(l, begin, end) ==
    LET inputs == GetOverlappingInputs(l, begin, end)
        firsts == {{f \in inputs : Smallest(f) <= Smallest(g)} : g \in inputs}
    IN  IF l = 0 THEN {inputs} \ {{}} ELSE firsts

\* CompactRange
CompactRange ==
    /\ compaction = NoCompaction
    /\ \E l \in 0..(NumLevels - 2), begin \in Keys, end \in Keys :
           \E chosen \in ManualInputs(l, begin, end) :
               \E inputs \in SetupOtherInputs(l, chosen) : Start(l, inputs, TRUE)

\* One file, nothing below it, and the grandparents (of any size) permit it.
IsTrivialMove(l, f) == <<{f}, {}>> \in SetupOtherInputs(l, Picked(l, f))

\* The move: no mutex is released before it is done.
TrivialMove ==
    /\ compaction = NoCompaction
    /\ \E l \in 0..(NumLevels - 2) : \E f \in version[l] :
           /\ IsTrivialMove(l, f)
           /\ version' = [version EXCEPT ![l] = @ \ {f}, ![l + 1] = @ \cup {f}]
    /\ UNCHANGED <<wrote, mem, snapshots, compaction>>

\* IsBaseLevelForKey, by the version the compaction began with.
IsBaseLevelForKey(key) == \A f \in compaction.base : ~Overlaps(f, key, key)

\* Mutant: every deletion marker that no snapshot needs is dropped.
DropsMarkers(e, inputs) ==
    \/ \E g \in inputs : g.key = e.key /\ g.seq > e.seq /\ g.seq <= compaction.smallest
    \/ e.del /\ e.seq <= compaction.smallest

\* The entries that are dropped: hidden by a newer one for every reader, or a deletion
\* marker with nothing left to hide.
Drops(e, inputs) ==
    \/ \E g \in inputs : g.key = e.key /\ g.seq > e.seq /\ g.seq <= compaction.smallest
    \/ e.del /\ e.seq <= compaction.smallest /\ IsBaseLevelForKey(e.key)

\* The ways to cut the kept entries into files: an output ends where it is big enough,
\* or where it overlaps too much of the grandparents.
Cuts(kept) ==
    {C \in SUBSET kept : SplitsKeys \/ \A e \in C : ~\E g \in kept : g.key = e.key /\ Before(e, g)}

\* The entries that come with e in one file: no cut lies between them.
SameOutput(kept, cuts, e) ==
    {g \in kept : ~\E c \in cuts : \/ (g = c \/ Before(g, c)) /\ Before(c, e)
                                   \/ (e = c \/ Before(e, c)) /\ Before(c, g)}

\* MakeInputIterator: what the compaction reads.
InputEntries == UNION {f.entries : f \in compaction.in0 \cup compaction.in1}

\* FinishCompactionOutputFile, for each of the outputs.
Outputs(kept, cuts) == {[number |-> 0, entries |-> SameOutput(kept, cuts, e)] : e \in kept}

\* InstallCompactionResults and AddInputDeletions.
InstallCompactionResults(outputs) ==
    version' = [version EXCEPT ![compaction.level] = @ \ compaction.in0,
                               ![compaction.level + 1] = (@ \ compaction.in1) \cup outputs]

\* The rest of DoCompactionWork.
FinishCompaction ==
    /\ compaction # NoCompaction
    /\ LET kept == {e \in InputEntries : ~Drops(e, InputEntries)}
       IN  \E cuts \in Cuts(kept) : InstallCompactionResults(Outputs(kept, cuts))
    /\ compaction' = NoCompaction
    /\ UNCHANGED <<wrote, mem, snapshots>>

\* CleanupCompaction after an error: the outputs are given up, the inputs stay.
CleanupCompaction ==
    /\ compaction # NoCompaction
    /\ compaction' = NoCompaction
    /\ UNCHANGED <<wrote, mem, version, snapshots>>

-----------------------------------------------------------------------------
Next ==
    \/ \E key \in Keys, del \in BOOLEAN : Write(key, del)
    \/ GetSnapshot \/ ReleaseSnapshot
    \/ CompactMemTable
    \/ PickCompaction \/ CompactRange
    \/ TrivialMove \/ FinishCompaction \/ CleanupCompaction

Spec == Init /\ [][Next]_vars

-----------------------------------------------------------------------------
\* Properties.

TypeOK ==
    /\ wrote \in Seq([key : Keys, del : BOOLEAN])
    /\ mem \subseteq Entries
    /\ version \in [Levels -> SUBSET Files]
    /\ snapshots \subseteq 0..MaxWrites

\* What the last write of key up to s left.
Expected(key, s) ==
    LET made == {i \in 1..s : wrote[i].key = key}
        last == {i \in made : \A j \in made : j <= i}
    IN  {i \in last : ~wrote[i].del}

\* Get finds what the last write left, at every snapshot held and at present, wherever
\* flushes and compactions have put it and whatever they dropped.
ReadsLatest ==
    \A key \in Keys, s \in snapshots \cup {LastSequence} : Get(key, s) = Expected(key, s)

\* So does an iterator over the whole database.
ScansLatest ==
    \A key \in Keys, s \in snapshots \cup {LastSequence} : Scan(key, s) = Expected(key, s)

\* "Make sure there is no overlap in levels > 0" (version_set.cc, Builder::SaveTo).
LevelsDisjoint ==
    \A l \in Levels \ {0} : \A f, g \in version[l] :
        \/ f = g
        \/ \A e \in f.entries, h \in g.entries : Before(e, h)
        \/ \A e \in f.entries, h \in g.entries : Before(h, e)

\* "entries never hop across levels.  Therefore we are guaranteed that if we find data in
\* an smaller level, later levels are irrelevant" (version_set.cc:346): of two entries of
\* a key, the one further down is the older.
EntriesNeverHop ==
    \A l, m \in Levels : l < m =>
        \A f \in version[l], g \in version[m] : \A e \in f.entries, h \in g.entries :
            e.key = h.key => e.seq > h.seq

=============================================================================
