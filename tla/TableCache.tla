---------------------------- MODULE TableCache ----------------------------
(***************************************************************************)
(* LevelDB's LRU cache (one shard) and the table cache on top of it:       *)
(* threads look tables up, open them without a lock when they are missing, *)
(* insert and use them, while files are evicted, the cache is pruned and,  *)
(* in the end, destroyed.                                                  *)
(*                                                                         *)
(* The hash table is a function from keys to entries; each call is atomic, *)
(* as it holds the mutex of the shard.                                     *)
(***************************************************************************)
EXTENDS Integers, Sequences, FiniteSets, FiniteSetsExt, SequencesExt

CONSTANTS
    Threads,    \* the threads that read tables
    Files,      \* the file numbers, keys of the cache
    Capacity,   \* capacity_ of the shard
    Charges,    \* the charges of entries
    MaxEntries  \* bound on the entries ever inserted

VARIABLES
    entries,  \* the LRUHandles ever made: key, charge, refs, inCache, freed
    table,    \* table_: the entry of each key, 0 if there is none
    lru,      \* lru_, the oldest first
    inUse,    \* in_use_
    usage,    \* usage_
    thread,   \* what each thread does, and the handle it holds
    alive     \* the cache has not been destroyed

cacheVars == <<entries, table, lru, inUse, usage>>
vars == <<cacheVars, thread, alive>>

Idle == [at |-> "idle", file |-> 0, handle |-> 0]

\* HandleTable: which entry a key has; its buckets and how they grow are left out.
EmptyTable == [f \in Files |-> 0]

Init ==
    /\ entries = <<>>
    /\ table = EmptyTable
    /\ lru = <<>> /\ inUse = {} /\ usage = 0
    /\ thread = [t \in Threads |-> Idle]
    /\ alive = TRUE

\* The shard as one value, for operations that consist of several.
Shard == [entries |-> entries, table |-> table, lru |-> lru, inUse |-> inUse, usage |-> usage]

Becomes(s) ==
    /\ entries' = s.entries /\ table' = s.table
    /\ lru' = s.lru /\ inUse' = s.inUse /\ usage' = s.usage

\* LRU_Remove: from the list the entry is on.
LRU_Remove(s, e) ==
    [s EXCEPT !.lru = SelectSeq(@, LAMBDA x : x # e), !.inUse = @ \ {e}]

\* Ref: an entry nobody used moves to the in-use list.
Ref(s, e) ==
    LET moved == IF s.entries[e].refs = 1 /\ s.entries[e].inCache
                   THEN [LRU_Remove(s, e) EXCEPT !.inUse = @ \cup {e}] ELSE s
    IN  [moved EXCEPT !.entries[e].refs = @ + 1]

\* Unref: the last reference frees the entry, the last one of a client makes it evictable.
Unref(s, e) ==
    LET refs == s.entries[e].refs - 1
        less == [s EXCEPT !.entries[e].refs = refs]
    IN  IF refs = 0 THEN [less EXCEPT !.entries[e].freed = TRUE]
        ELSE IF refs = 1 /\ s.entries[e].inCache
               THEN [LRU_Remove(less, e) EXCEPT !.lru = Append(@, e)]
               ELSE less

\* FinishErase, for an entry that is no longer in the table.
FinishErase(s, e) ==
    IF e = 0 THEN s
    ELSE Unref([LRU_Remove(s, e) EXCEPT !.entries[e].inCache = FALSE,
                                        !.usage = @ - s.entries[e].charge], e)

\* HandleTable::Remove and FinishErase.
RemoveKey(s, f) == FinishErase([s EXCEPT !.table[f] = 0], s.table[f])

\* Mutant: one entry at most is evicted.
EvictOldestOnce(s) ==
    IF s.usage > Capacity /\ s.lru # <<>> THEN RemoveKey(s, s.entries[Head(s.lru)].key) ELSE s

\* Insert's loop: the oldest entries go until the rest fits or is in use.
EvictOldest(s) ==
    LET Step(x, i) == IF x.usage > Capacity /\ x.lru # <<>>
                        THEN RemoveKey(x, x.entries[Head(x.lru)].key) ELSE x
    IN  FoldLeft(Step, s, [i \in 1..Len(s.lru) |-> i])

\* Mutant: the reference of the cache is not counted.
NewEntryOneRef(f, charge) ==
    [key |-> f, charge |-> charge, refs |-> 1, inCache |-> Capacity > 0, freed |-> FALSE]

\* One reference is the caller's, one the cache's; without capacity nothing is cached.
NewEntry(f, charge) ==
    [key |-> f, charge |-> charge, refs |-> IF Capacity > 0 THEN 2 ELSE 1, inCache |-> Capacity > 0, freed |-> FALSE]

\* Insert: an older entry of the same key leaves the cache.
InsertEntry(s, f, charge) ==
    LET e == Len(s.entries) + 1
        made == [s EXCEPT !.entries = Append(@, NewEntry(f, charge))]
        put == [made EXCEPT !.inUse = @ \cup {e}, !.usage = @ + charge, !.table[f] = e]
    IN  EvictOldest(IF Capacity > 0 THEN FinishErase(put, s.table[f]) ELSE made)

-----------------------------------------------------------------------------
\* FindTable's lookup.
Lookup(t, f) ==
    /\ alive
    /\ thread[t] = Idle
    /\ IF table[f] # 0
         THEN /\ Becomes(Ref(Shard, table[f]))
              /\ thread' = [thread EXCEPT ![t] = [at |-> "using", file |-> f, handle |-> table[f]]]
         ELSE /\ thread' = [thread EXCEPT ![t] = [at |-> "opening", file |-> f, handle |-> 0]]
              /\ UNCHANGED cacheVars
    /\ UNCHANGED alive

\* The table was opened; another thread may have inserted it meanwhile.
Insert(t, charge) ==
    /\ thread[t].at = "opening"
    /\ Len(entries) < MaxEntries
    /\ Becomes(InsertEntry(Shard, thread[t].file, charge))
    /\ thread' = [thread EXCEPT ![t].at = "using", ![t].handle = Len(entries) + 1]
    /\ UNCHANGED alive

\* The table cannot be opened: errors are not cached.
OpenFails(t) ==
    /\ thread[t].at = "opening"
    /\ thread' = [thread EXCEPT ![t] = Idle]
    /\ UNCHANGED <<cacheVars, alive>>

\* The end of Get, or of the iterator (UnrefEntry).
Release(t) ==
    /\ thread[t].at = "using"
    /\ Becomes(Unref(Shard, thread[t].handle))
    /\ thread' = [thread EXCEPT ![t] = Idle]
    /\ UNCHANGED alive

\* Evict, when a file was deleted.
Erase(f) ==
    /\ alive
    /\ Becomes(RemoveKey(Shard, f))
    /\ UNCHANGED <<thread, alive>>

Prune ==
    /\ alive
    /\ Becomes(FoldLeft(LAMBDA s, e : RemoveKey(s, s.entries[e].key), Shard, lru))
    /\ UNCHANGED <<thread, alive>>

\* ~LRUCache; its callers hold no handle any more.
Destroy ==
    /\ alive
    /\ \A t \in Threads : thread[t] = Idle
    /\ Becomes(FoldLeft(LAMBDA s, e : Unref([s EXCEPT !.entries[e].inCache = FALSE], e), Shard, lru))
    /\ alive' = FALSE
    /\ UNCHANGED thread

Next ==
    \/ \E t \in Threads :
           \/ \E f \in Files : Lookup(t, f)
           \/ \E c \in Charges : Insert(t, c)
           \/ OpenFails(t) \/ Release(t)
    \/ \E f \in Files : Erase(f)
    \/ Prune \/ Destroy

Spec == Init /\ [][Next]_vars

-----------------------------------------------------------------------------
\* Properties.

Holders(e) == {t \in Threads : thread[t].handle = e}
Cached == {e \in 1..Len(entries) : entries[e].inCache}

\* An entry, with the open file behind it, is freed when the cache and the last thread
\* have let go of it, and not before: nobody uses a table that was closed, and none is
\* left open when the cache is gone.
FreedWhenUnused ==
    \A e \in 1..Len(entries) :
        /\ entries[e].freed <=> Holders(e) = {} /\ ~entries[e].inCache
        /\ alive \/ entries[e].freed

\* An insertion leaves the cache over its capacity only with entries that threads are
\* using, by an account of charges that agrees with the table and the lists.
RoomMade ==
    Len(entries') > Len(entries) =>
        /\ usage' = MapThenSumSet(LAMBDA e : entries'[e].charge, Cached')
        /\ usage' > Capacity => \A e \in Cached' : Holders(e)' # {}
        /\ Cached' = {table'[f] : f \in Files} \ {0}

=============================================================================
