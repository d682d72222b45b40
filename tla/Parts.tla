-------------------------------- MODULE Parts --------------------------------
(***************************************************************************)
(* The parts of the system that keep a state of their own and are proved   *)
(* about: the keys of records and, of LevelDB, the memtable and its arena, *)
(* the POSIX environment, the repair of a database, the C binding and the  *)
(* versions.  Each is an instance with variables of its own; a variable    *)
(* that two parts have by the same name is renamed in one of them.         *)
(***************************************************************************)
EXTENDS Integers, FiniteSets

CONSTANTS
    Chars, MaxLen,                                      \* Names
    Readers, MemKeys, MaxEntries, MaxHeight, MaxReads,  \* MemTable
    ArenaBlock, Align, Sizes, MaxGiven,                 \* Arena
    Threads, MmapLimit, FdLimit,                        \* EnvFiles
    Processes, Openers, MaxItems, MaxLocks,             \* EnvThreads
    MaxLength, MaxCrashes,                              \* EnvWriter, Repair
    Entries, OldNumbers, MaxFaults,                     \* Repair
    SharedKinds, StoreKeys, MaxHandles, MaxBatch,       \* CBinding
    VersionKeys, VersionLevels, Trigger, LevelLimit,    \* Versions, with the same Readers
    AllowedSeeks, MaxMeta, MaxCharged

\* Threads, entries and files are finitely many; numbers and limits are not negative; a
\* skip list has a level, and a database two, which are not over their limits when they
\* are empty; Options may point to four kinds of objects.
ASSUME PartsAssumption ==
    /\ MemKeys \in Nat /\ MaxEntries \in Nat /\ MaxHeight \in Nat \ {0}
    /\ ArenaBlock \in Nat /\ Align \in Nat \ {0} /\ Sizes \subseteq Nat \ {0}
    /\ IsFiniteSet(Threads) /\ MmapLimit \in Nat /\ FdLimit \in Nat
    /\ IsFiniteSet(Openers)
    /\ MaxLength \in Nat
    /\ Entries \subseteq Nat /\ IsFiniteSet(Entries)
    /\ OldNumbers \subseteq Nat /\ IsFiniteSet(OldNumbers)
    /\ SharedKinds \subseteq {"cache", "comparator", "filterpolicy", "env"}
    /\ IsFiniteSet(Readers) /\ VersionKeys \in Nat /\ AllowedSeeks \in Nat
    /\ VersionLevels \in Nat \ {0, 1} /\ Trigger \in Nat \ {0} /\ LevelLimit \in Nat \ {0}
    /\ MaxMeta \in Nat /\ MaxCharged \in Nat

VARIABLES
    first, second,                                              \* Names
    link, maxHeight, added, writer, sequence, reader, reads,    \* MemTable
    memory, allocPtr, allocBytesRemaining, given, memoryUsage,  \* Arena
    exists, mmapAllowed, fdAllowed, fds, regions, opener, read, \* EnvFiles
    queue, started, bg, ran, scheduled,                         \* EnvThreads
    lockedFiles, kernel, locker, calls, shaken,
    there, linked, opened, appended, cached, stored,            \* EnvWriter
    promised, listed, job, crashes,
    readable, logs, tables, lost, current, repair,              \* Repair
    todoLogs, todoTables, next, kept, copy, faults, stops,
    store, handles, reps, opt, used, view, readView, cursor,    \* CBinding
    batch, heap, err, string, failed,
    meta, versions, installed, pinned, compaction, built, charged   \* Versions

namesVars == <<first, second>>
memTableVars == <<link, maxHeight, added, writer, sequence, reader, reads>>
arenaVars == <<memory, allocPtr, allocBytesRemaining, given, memoryUsage>>
filesVars == <<exists, mmapAllowed, fdAllowed, fds, regions, opener, read>>
threadsVars == <<queue, started, bg, ran, scheduled, lockedFiles, kernel, locker, calls, shaken>>
envWriterVars == <<there, linked, opened, appended, cached, stored, promised, listed, job, crashes>>
repairVars == <<readable, logs, tables, lost, current, repair, todoLogs, todoTables, next, kept, copy, faults, stops>>
bindingVars == <<store, handles, reps, opt, used, view, readView, cursor, batch, heap, err, string, failed>>
versionVars == <<meta, versions, installed, pinned, compaction, built, charged>>

-----------------------------------------------------------------------------
NM == INSTANCE MCNames
MT == INSTANCE MemTable WITH NumKeys <- MemKeys
AR == INSTANCE Arena WITH BlockSize <- ArenaBlock, blocks <- memory
EF == INSTANCE EnvFiles WITH pc <- opener
ET == INSTANCE EnvThreads WITH pc <- locker
EW == INSTANCE EnvWriter WITH entries <- there
RE == INSTANCE Repair WITH initial <- readable, pc <- repair, crashes <- stops
CB == INSTANCE CBinding WITH Shared <- SharedKinds, NumKeys <- StoreKeys, result <- string
VE == INSTANCE Versions WITH
          NumKeys <- VersionKeys, NumLevels <- VersionLevels, MaxReads <- MaxCharged,
          current <- installed, reader <- pinned, next <- built, reads <- charged

-----------------------------------------------------------------------------
\* The keys of two members never collide, and a key is one the database takes (emailEscaped
\* of the sagas).
KeysDistinct == NM!KeysDistinct /\ NM!KeyLegal

\* A reader of the memtable finds every entry that was there when it began, while another
\* one is being linked in, and entries and nodes share no memory (skiplist.h, arena.cc).
ReadersMissNothing == MT!ReadersMissNothing /\ AR!GivenApart

\* Mappings and descriptors stay within their limits and none is lost; scheduled work runs
\* once and in order; a database is held by one opener of one process, as far as the
\* kernel's lock holds (env_posix.cc).
EnvShares == EF!LimitsKept /\ ET!ScheduledRuns /\ ET!LockExcludes

\* What a Sync promised survives a stop of the machine, and a string is written to a file
\* as a whole or not at all (env_posix.cc, env.cc).
SyncIsDurable == EW!SyncIsDurable /\ EW!StringAllOrNothing

\* A repair destroys nothing that can be read, and one that succeeds leads to all of it
\* (repair.cc).
RepairKeepsAll == RE!RepairDestroysNothing /\ RE!RepairComplete

\* Each string and object has one owner on the two sides of the C binding, and the caller
\* finds an error exactly when a call has failed (c.cc).
BindingFaithful == CB!OwnersKnown /\ CB!ErrorsKept

\* Versions and files live exactly as long as a reader, a compaction or the database uses
\* them, and a compaction is of files that are where it takes them from (version_set.cc).
VersionsOwnFiles == VE!VersionsOwnFiles /\ VE!CompactionInPlace
=============================================================================
