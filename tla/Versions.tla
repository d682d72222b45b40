------------------------------ MODULE Versions ------------------------------
(***************************************************************************)
(* LevelDB's versions: lists of files that are replaced as a whole, kept   *)
(* alive by references of readers and of a compaction, and freed with      *)
(* their FileMetaData when the last one goes.  Readers charge the first of *)
(* several files they had to look at, and a file charged too often is the  *)
(* next to be compacted.                                                   *)
(*                                                                         *)
(* A FileMetaData is its index in meta; two of them may be of one file,    *)
(* when the file was moved.  Sizes are numbers of keys.                    *)
(***************************************************************************)
EXTENDS Integers, Sequences, FiniteSets, FiniteSetsExt

CONSTANTS
    Readers,
    NumKeys,        \* user keys are 1..NumKeys
    NumLevels,      \* config::kNumLevels
    Trigger,        \* config::kL0_CompactionTrigger
    LevelLimit,     \* MaxBytesForLevel of the levels from 1 on
    AllowedSeeks,   \* allowed_seeks of a new file
    MaxMeta,        \* bound on the FileMetaData ever made
    MaxReads        \* bound on the reads that are charged

VARIABLES
    meta,       \* the FileMetaData ever made
    versions,   \* the versions ever made
    current,    \* current_
    reader,     \* the version a Get, an iterator or GetApproximateSizes uses, 0 if none
    compaction, \* the Compaction at work, or NoCompaction
    next,       \* the version LogAndApply has built, 0 if none
    reads

vars == <<meta, versions, current, reader, compaction, next, reads>>

Keys == 1..NumKeys
Levels == 0..(NumLevels - 1)
NoCompaction == [version |-> 0, level |-> 0, in0 |-> {}, in1 |-> {}]
NoFiles == [l \in Levels |-> {}]
NewVersion(files) ==
    [files |-> files, refs |-> 0, freed |-> FALSE, toCompact |-> 0, toLevel |-> -1, score |-> FALSE, level |-> -1]

Init ==
    /\ meta = <<>>
    /\ versions = <<[NewVersion(NoFiles) EXCEPT !.refs = 1]>>
    /\ current = 1
    /\ reader = [r \in Readers |-> 0]
    /\ compaction = NoCompaction
    /\ next = 0 /\ reads = 0

-----------------------------------------------------------------------------
\* References.  s is the pair of meta and versions.

State == [meta |-> meta, versions |-> versions]
Becomes(s) == meta' = s.meta /\ versions' = s.versions

Ref(s, v) == [s EXCEPT !.versions[v].refs = @ + 1]

AllFiles(version) == UNION {version.files[l] : l \in Levels}

\* ~Version: a file goes with its last reference.
Drop(s, files) ==
    [s EXCEPT !.meta = [f \in 1..Len(s.meta) |->
        IF f \in files THEN [s.meta[f] EXCEPT !.refs = @ - 1, !.freed = s.meta[f].refs <= 1] ELSE s.meta[f]]]
Delete(s, v) == [Drop(s, AllFiles(s.versions[v])) EXCEPT !.versions[v] = [NewVersion(NoFiles) EXCEPT !.freed = TRUE]]

Unref(s, v) ==
    LET t == [s EXCEPT !.versions[v].refs = @ - 1]
    IN  IF t.versions[v].refs = 0 THEN Delete(t, v) ELSE t

-----------------------------------------------------------------------------
\* Reading.

Covers(f, k) == meta[f].smallest <= k /\ k <= meta[f].largest

\* ForEachOverlapping and Version::Get: the files that are looked at for a key, all of
\* level 0 that have it and at most one of each other level, and the first of them, on the
\* lowest level and the newest there.
Looked(v, k) ==
    LET On(l) == {f \in versions[v].files[l] : Covers(f, k)}
    IN  {[file |-> f, level |-> 0] : f \in On(0)}
        \cup {[file |-> CHOOSE f \in On(l) : TRUE, level |-> l] : l \in {i \in 1..(NumLevels - 1) : On(i) # {}}}
LookedFirst(v, k) ==
    CHOOSE x \in Looked(v, k) : \A y \in Looked(v, k) :
        x.level < y.level \/ (x.level = y.level /\ meta[x.file].number >= meta[y.file].number)

\* Mutant: the level recorded is the one the compaction writes to.
ChargeOutputLevel(s, v, f, level) ==
    LET seeks == s.meta[f].seeks - 1
        t == [s EXCEPT !.meta[f].seeks = seeks]
    IN  IF seeks <= 0 /\ s.versions[v].toCompact = 0
          THEN [t EXCEPT !.versions[v].toCompact = f, !.versions[v].toLevel = level + 1]
          ELSE t

\* UpdateStats
Charge(s, v, f, level) ==
    LET seeks == s.meta[f].seeks - 1
        t == [s EXCEPT !.meta[f].seeks = seeks]
    IN  IF seeks <= 0 /\ s.versions[v].toCompact = 0
          THEN [t EXCEPT !.versions[v].toCompact = f, !.versions[v].toLevel = level]
          ELSE t

\* Get, NewIterator and GetApproximateSizes take a reference to the current version and
\* give the mutex up.
Pin(r) ==
    /\ reader[r] = 0 /\ reader' = [reader EXCEPT ![r] = current]
    /\ Becomes(Ref(State, current))
    /\ UNCHANGED <<current, compaction, next, reads>>

\* The end of a Get that stopped at some file, or in a memtable; of several files that it
\* looked at the first is charged.
GetEnds(r, k) ==
    /\ reader[r] # 0 /\ reads < MaxReads
    /\ LET v == reader[r]
           x == LookedFirst(v, k)
       IN  \E looked \in 0..Cardinality(Looked(v, k)) :
              Becomes(Unref(IF looked < 2 THEN State ELSE Charge(State, v, x.file, x.level), v))
    /\ reader' = [reader EXCEPT ![r] = 0] /\ reads' = reads + 1
    /\ UNCHANGED <<current, compaction, next>>

\* CleanupIteratorState, and the end of GetApproximateSizes.
Unpin(r) ==
    /\ reader[r] # 0 /\ reader' = [reader EXCEPT ![r] = 0]
    /\ Becomes(Unref(State, reader[r]))
    /\ UNCHANGED <<current, compaction, next, reads>>

\* RecordReadSample, of an iterator that may be on an older version.
ReadSample(k) ==
    /\ \E r \in Readers : reader[r] # 0
    /\ reads < MaxReads /\ reads' = reads + 1
    /\ Cardinality(Looked(current, k)) >= 2
    /\ LET x == LookedFirst(current, k) IN Becomes(Charge(State, current, x.file, x.level))
    /\ UNCHANGED <<current, reader, compaction, next>>

-----------------------------------------------------------------------------
\* Installing a version.

\* The numbers of a function of 1..n, added up.
SumOf(g, n) ==
    LET sum[i \in 0..n] == IF i = 0 THEN 0 ELSE sum[i - 1] + g[i]
    IN  sum[n]

\* The size of a file, and of those of m that are in a set (TotalFileSize).
Size(file) == file.largest - file.smallest + 1
TotalFileSize(m, files) == SumOf([f \in 1..Len(m) |-> IF f \in files THEN Size(m[f]) ELSE 0], Len(m))

\* Finalize: the first level of the best score, a fraction, and whether it is at least one.
Finalize(m, version) ==
    LET Score(l) == IF l = 0 THEN <<Cardinality(version.files[0]), Trigger>>
                    ELSE <<TotalFileSize(m, version.files[l]), l * LevelLimit>>
        Better(i, j) == Score(i)[1] * Score(j)[2] > Score(j)[1] * Score(i)[2]
        Best == CHOOSE l \in 0..(NumLevels - 2) :
                   /\ \A j \in 0..(NumLevels - 2) : ~Better(j, l)
                   /\ \A j \in 0..(l - 1) : Better(l, j)
    IN  [version EXCEPT !.level = Best, !.score = Score(Best)[1] >= Score(Best)[2]]

\* The files of the base version, but for those that are deleted.
MaybeAddFile(files, deleted) == files \ deleted

\* Mutant: the builder keeps its reference to the files it added.
BuilderKeeps(level, added, deleted) ==
    LET new == 1..Len(added)
        Index(i) == Len(meta) + i
        grown == meta \o [i \in new |-> [added[i] EXCEPT !.refs = 1]]
        files == [l \in Levels |-> MaybeAddFile(versions[current].files[l], deleted) \cup (IF l = level THEN {Index(i) : i \in new} ELSE {})]
        all == UNION {files[l] : l \in Levels}
        m == [f \in 1..Len(grown) |-> IF f \in all THEN [grown[f] EXCEPT !.refs = @ + 1] ELSE grown[f]]
    IN  [meta |-> m, versions |-> Append(versions, Finalize(m, NewVersion(files)))]

\* Builder: Apply makes a FileMetaData for each file added, SaveTo gives every file of the
\* new version a reference, and the destructor takes back those of the files added.
Builder(level, added, deleted) ==
    LET new == 1..Len(added)
        Index(i) == Len(meta) + i
        grown == meta \o [i \in new |-> [added[i] EXCEPT !.refs = 1]]
        files == [l \in Levels |-> MaybeAddFile(versions[current].files[l], deleted) \cup (IF l = level THEN {Index(i) : i \in new} ELSE {})]
        all == UNION {files[l] : l \in Levels}
        m == [f \in 1..Len(grown) |-> IF f \in all THEN [grown[f] EXCEPT !.refs = @ + 1] ELSE grown[f]]
    IN  Drop([meta |-> m, versions |-> Append(versions, Finalize(m, NewVersion(files)))], {Index(i) : i \in new})

File(number, a, b) == [number |-> number, smallest |-> a, largest |-> b, refs |-> 0, seeks |-> AllowedSeeks, freed |-> FALSE]
NewNumber == Max({0} \cup {meta[f].number : f \in 1..Len(meta)}) + 1

\* LogAndApply, up to where it gives up the mutex.
Apply(level, added, deleted) ==
    /\ next = 0 /\ Len(meta) + Len(added) <= MaxMeta
    /\ Becomes(Builder(level, added, deleted))
    /\ next' = Len(versions) + 1
    /\ UNCHANGED <<current, reader, reads>>

\* The memtable, with keys from a to b, becomes a file of level 0.
Flush(a, b) == a <= b /\ Apply(0, <<File(NewNumber, a, b)>>, {}) /\ UNCHANGED compaction

\* Behind the manifest: AppendVersion, or the version is deleted again.
Install ==
    /\ next # 0 /\ next' = 0
    /\ Becomes(Ref(Unref(State, current), next)) /\ current' = next
    /\ UNCHANGED <<reader, compaction, reads>>
InstallFails ==
    /\ next # 0 /\ next' = 0
    /\ Becomes(Delete(State, next))
    /\ UNCHANGED <<current, reader, compaction, reads>>

-----------------------------------------------------------------------------
\* Compactions.

Overlapping(files, a, b) == {f \in files : meta[f].smallest <= b /\ a <= meta[f].largest}
First(files) == Min({meta[f].smallest : f \in files})
Final(files) == Max({meta[f].largest : f \in files})

\* On level 0, all that overlap what overlaps.
Closed(files, all) ==
    LET grown[n \in 0..Cardinality(all)] ==
            IF n = 0 THEN files ELSE Overlapping(all, First(grown[n - 1]), Final(grown[n - 1]))
    IN  grown[Cardinality(all)]

\* PickCompaction, without the growth of the inputs, which Compaction has: any file of the
\* level whose score is best, for the compact pointer is left out, or the file charged too
\* often.
PickCompaction ==
    /\ compaction = NoCompaction /\ next = 0
    /\ LET v == versions[current]
           level == IF v.score THEN v.level ELSE v.toLevel
           on0 == IF v.score THEN v.files[level] ELSE {v.toCompact}
       IN  /\ v.score \/ v.toCompact # 0
           /\ \E f \in on0 :
                 LET in0 == IF level = 0 THEN Closed({f}, v.files[0]) ELSE {f}
                     in1 == IF level + 1 \in Levels THEN Overlapping(v.files[level + 1], First(in0), Final(in0)) ELSE {}
                 IN  compaction' = [version |-> current, level |-> level, in0 |-> in0, in1 |-> in1]
    /\ Becomes(Ref(State, current))
    /\ UNCHANGED <<current, reader, next, reads>>

\* The outputs are installed, as one file, or the only input as it is (a trivial move).
Compact(move) ==
    /\ compaction.version # 0 /\ compaction.level >= 0
    /\ LET in == compaction.in0 \cup compaction.in1
           f == CHOOSE g \in compaction.in0 : TRUE
           output == File(IF move THEN meta[f].number ELSE NewNumber, First(in), Final(in))
       IN  /\ move => Cardinality(compaction.in0) = 1 /\ compaction.in1 = {}
           /\ Apply(compaction.level + 1, <<output>>, in)
    /\ compaction' = [compaction EXCEPT !.level = -1]

\* It could not write them.
CompactFails ==
    /\ compaction.version # 0 /\ compaction.level >= 0
    /\ compaction' = [compaction EXCEPT !.level = -1]
    /\ UNCHANGED <<meta, versions, current, reader, next, reads>>

\* ReleaseInputs, and ~Compaction.
ReleaseInputs ==
    /\ compaction.level = -1 /\ next = 0
    /\ Becomes(Unref(State, compaction.version))
    /\ compaction' = NoCompaction
    /\ UNCHANGED <<current, reader, next, reads>>

-----------------------------------------------------------------------------
Next ==
    \/ \E r \in Readers : Pin(r) \/ Unpin(r) \/ \E k \in Keys : GetEnds(r, k)
    \/ \E k \in Keys : ReadSample(k)
    \/ \E a, b \in Keys : Flush(a, b)
    \/ Install \/ InstallFails
    \/ PickCompaction \/ (\E move \in BOOLEAN : Compact(move)) \/ CompactFails \/ ReleaseInputs

Spec == Init /\ [][Next]_vars

-----------------------------------------------------------------------------
\* ApproximateOffsetOf: whole files before the key, and a part of those around it.
ApproximateOffsetOf(v, k) ==
    LET Before(f) == IF meta[f].largest < k THEN Size(meta[f])
                     ELSE IF meta[f].smallest > k THEN 0 ELSE k - meta[f].smallest
    IN  SumOf([f \in 1..Len(meta) |-> IF f \in AllFiles(versions[v]) THEN Before(f) ELSE 0], Len(meta))

\* GetApproximateSizes, of one range.
GetApproximateSizes(v, start, limit) ==
    LET a == ApproximateOffsetOf(v, start)
        b == ApproximateOffsetOf(v, limit)
    IN  IF b >= a THEN b - a ELSE 0

Users(v) ==
    Cardinality({r \in Readers : reader[r] = v}) + (IF current = v THEN 1 ELSE 0) + (IF compaction.version = v THEN 1 ELSE 0)

\* Versions and files live as long as they are used and no longer: a version is freed
\* when its last user is gone, a file when no version has it; the inputs of a compaction
\* and the files readers may look at are never freed under them.
VersionsOwnFiles ==
    /\ \A v \in 1..Len(versions) :
          /\ versions[v].freed <=> Users(v) = 0 /\ v # next
          /\ ~versions[v].freed => versions[v].refs = Users(v) /\ \A f \in AllFiles(versions[v]) : ~meta[f].freed
    /\ \A f \in 1..Len(meta) :
          meta[f].freed <=> \A v \in 1..Len(versions) : versions[v].freed \/ f \notin AllFiles(versions[v])

\* A compaction is of files that lie on its level in the current version, whoever charged
\* them and whatever was installed since, and its outputs have a level to go to; the sizes
\* of adjacent ranges, in a version a reader has pinned, add up.
CompactionInPlace ==
    /\ \A v \in 1..Len(versions) :
          versions[v].toCompact # 0 /\ ~versions[v].freed =>
              versions[v].toLevel + 1 < NumLevels /\ versions[v].toCompact \in versions[v].files[versions[v].toLevel]
    /\ compaction.version # 0 /\ compaction.level >= 0 =>
          /\ compaction.level + 1 < NumLevels
          /\ compaction.in0 \subseteq versions[current].files[compaction.level]
          /\ compaction.in1 \subseteq versions[current].files[compaction.level + 1]
    /\ \A r \in Readers : reader[r] # 0 =>
          \A a \in Keys : \A b \in a..NumKeys :
              GetApproximateSizes(reader[r], a, NumKeys + 1)
                  = GetApproximateSizes(reader[r], a, b) + GetApproximateSizes(reader[r], b, NumKeys + 1)

=============================================================================
