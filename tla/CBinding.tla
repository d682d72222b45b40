------------------------------ MODULE CBinding ------------------------------
(***************************************************************************)
(* LevelDB's C binding (db/c.cc): handles, each a struct around a C++      *)
(* object, and strings that change their owner at the boundary.  The       *)
(* caller keeps to the conventions of c.h: it uses live handles, destroys  *)
(* what was made from a database before it closes it, and what a database  *)
(* uses after.  The database behind the binding is a function from keys to *)
(* values that may fail at any call.                                       *)
(***************************************************************************)
EXTENDS Integers, Sequences, FiniteSets, FiniteSetsExt

CONSTANTS
    Shared,         \* what Options may point to, some of "cache", "comparator", "filterpolicy" and "env"
    NumKeys,        \* keys are 1..NumKeys
    MaxHandles,     \* bound on the handles alive at a time
    MaxBatch        \* bound on the length of a batch

VARIABLES
    store,          \* the database on disk: value of each key, 0 if it has none; Missing if there is none
    handles,        \* the structs alive, by kind: the caller has at most one of each
    reps,           \* the C++ objects alive
    opt,            \* the Options
    used,           \* what the open database got from its options
    view, readView, \* the snapshot, and the one of the ReadOptions (NoView for NULL)
    cursor,         \* the iterator: what it iterates over, the key it is at (0 if not Valid) and its status
    batch,          \* the WriteBatch
    heap,           \* blocks that are allocated with malloc
    err, result,    \* *errptr, and the string last returned, 0 for NULL
    failed          \* a call has failed since the caller cleared *errptr

vars == <<store, handles, reps, opt, used, view, readView, cursor, batch, heap, err, result, failed>>

Keys == 1..NumKeys
Missing == [k \in {} |-> 0]
Empty == [k \in Keys |-> 0]
NoView == [k \in {0} |-> 0]
NoCursor == [over |-> NoView, at |-> 0, ok |-> TRUE]

DefaultEnv == "Env::Default()"

Init ==
    /\ store = Missing
    /\ handles = {} /\ reps = {DefaultEnv}
    /\ opt = [create |-> FALSE, exists |-> FALSE, uses |-> {}] /\ used = {}
    /\ view = NoView /\ readView = NoView /\ cursor = NoCursor
    /\ batch = <<>>
    /\ heap = {} /\ err = 0 /\ result = 0 /\ failed = FALSE

database == <<store, view, readView, cursor>>
objects == <<handles, reps, opt, used>>
strings == <<heap, err, result, failed>>

-----------------------------------------------------------------------------
\* Strings.

\* malloc and strdup
Malloc(h) == CHOOSE b \in 1..(Cardinality(h) + 1) : b \notin h

\* The Status of a call that succeeds or not.
Status(ok) == IF ok THEN "kOk" ELSE "kIOError"

\* Mutant: an error that was there is overwritten.
SaveErrorOver(s) ==
    IF s = "kOk" THEN UNCHANGED <<heap, err>>
    ELSE err' = Malloc(heap) /\ heap' = heap \cup {err'}

\* The old message is freed.
SaveError(s) ==
    IF s = "kOk" THEN UNCHANGED <<heap, err>>
    ELSE err' = Malloc(heap \ {err}) /\ heap' = (heap \ {err}) \cup {err'}

Report(ok) == SaveError(Status(ok)) /\ failed' = (failed \/ ~ok)

CopyString == result' = Malloc(heap) /\ heap' = heap \cup {result'}

\* The caller is done with a string.
leveldb_free ==
    \/ /\ result # 0 /\ result' = 0 /\ heap' = heap \ {result}
       /\ UNCHANGED <<err, failed>> /\ UNCHANGED database /\ UNCHANGED objects /\ UNCHANGED batch
    \/ /\ err # 0 /\ err' = 0 /\ heap' = heap \ {err} /\ failed' = FALSE
       /\ UNCHANGED result /\ UNCHANGED database /\ UNCHANGED objects /\ UNCHANGED batch

-----------------------------------------------------------------------------
\* Options and what they point to.

NewHandle(kind) == kind \notin handles /\ Cardinality(handles) < MaxHandles /\ handles' = handles \cup {kind}

\* leveldb_cache_create_lru, leveldb_comparator_create, leveldb_filterpolicy_create (and
\* _bloom) make an object; leveldb_create_default_env borrows the one there is.
CreateShared(kind) ==
    /\ NewHandle(kind)
    /\ reps' = IF kind = "env" THEN reps ELSE reps \cup {kind}
    /\ UNCHANGED <<opt, used>> /\ UNCHANGED database /\ UNCHANGED strings /\ UNCHANGED batch

\* Mutant: the default environment is deleted with its handle.
DestroySharedAll(kind) ==
    /\ kind \in handles \ (used \cup opt.uses) /\ handles' = handles \ {kind}
    /\ reps' = reps \ {IF kind = "env" THEN DefaultEnv ELSE kind}
    /\ UNCHANGED <<opt, used>> /\ UNCHANGED database /\ UNCHANGED strings /\ UNCHANGED batch

\* leveldb_cache_destroy, leveldb_comparator_destroy, leveldb_filterpolicy_destroy,
\* leveldb_env_destroy.
DestroyShared(kind) ==
    /\ kind \in handles \ (used \cup opt.uses) /\ handles' = handles \ {kind}
    /\ reps' = IF kind = "env" THEN reps ELSE reps \ {kind}
    /\ UNCHANGED <<opt, used>> /\ UNCHANGED database /\ UNCHANGED strings /\ UNCHANGED batch

\* leveldb_options_set_*: a pointer to a live object, or the default again; a new struct
\* of Options.
SetOptions ==
    /\ \/ \E kind \in handles \cap Shared : opt' = [opt EXCEPT !.uses = @ \cup {kind}]
       \/ \E kind \in opt.uses : opt' = [opt EXCEPT !.uses = @ \ {kind}]
       \/ \E c, e \in BOOLEAN : opt' = [opt EXCEPT !.create = c, !.exists = e]
    /\ UNCHANGED <<handles, reps, used>> /\ UNCHANGED database /\ UNCHANGED strings /\ UNCHANGED batch

\* CreateFilter of a leveldb_filterpolicy_t: what the callback has allocated is appended
\* to the block and freed.
CreateFilter ==
    /\ "filterpolicy" \in used
    /\ heap' = (heap \cup {Malloc(heap)}) \ {Malloc(heap)}
    /\ UNCHANGED <<err, result, failed>> /\ UNCHANGED database /\ UNCHANGED objects /\ UNCHANGED batch

-----------------------------------------------------------------------------
\* The database.  ok says whether the call behind the binding succeeds.

leveldb_open(ok) ==
    /\ store = Missing /\ ~opt.create => ~ok
    /\ store # Missing /\ opt.exists => ~ok
    /\ Report(ok)
    /\ IF ok THEN /\ NewHandle("db") /\ reps' = reps \cup {"db"}
                  /\ store' = (IF store = Missing THEN Empty ELSE store) /\ used' = opt.uses
       ELSE "db" \notin handles /\ UNCHANGED <<handles, reps, store, used>>
    /\ UNCHANGED <<opt, view, readView, cursor, batch, result>>

leveldb_close ==
    /\ "db" \in handles /\ {"iterator", "snapshot"} \cap handles = {}
    /\ handles' = handles \ {"db"} /\ reps' = reps \ {"db"} /\ used' = {}
    /\ UNCHANGED opt /\ UNCHANGED database /\ UNCHANGED strings /\ UNCHANGED batch

\* DestroyDB deletes what it can; if it fails, what remains is a database or none.
DestroyDB(ok) == IF ok THEN {Missing} ELSE {store, Missing}

\* leveldb_repair_db leaves the database as it is; leveldb_destroy_db removes it.
Manage(ok, destroy) ==
    /\ "db" \notin handles
    /\ store' \in IF destroy THEN DestroyDB(ok) ELSE {store}
    /\ Report(ok)
    /\ UNCHANGED <<view, readView, cursor, batch, result>> /\ UNCHANGED objects

Applied(s, ops) == [k \in Keys |->
    LET of == {i \in 1..Len(ops) : ops[i].key = k} IN IF of = {} THEN s[k] ELSE ops[Max(of)].value]

\* leveldb_put, leveldb_delete and leveldb_write; a value of 0 stands for a deletion.
Write(ops, ok) ==
    /\ "db" \in handles
    /\ store' = IF ok THEN Applied(store, ops) ELSE store
    /\ Report(ok)
    /\ UNCHANGED <<view, readView, cursor, batch, result>> /\ UNCHANGED objects

\* The caller frees what it got before it reads again, and does not read with a snapshot
\* that it has released.
Reading == "db" \in handles /\ result = 0 /\ (readView # NoView => "snapshot" \in handles /\ readView = view)
Seen == IF readView = NoView THEN store ELSE readView

DBGet(k, ok) == IF ok /\ Seen[k] = 0 THEN "kNotFound" ELSE Status(ok)

\* Mutant: a key that is not there is an error.
leveldb_getStrict(k, ok) ==
    /\ Reading
    /\ IF DBGet(k, ok) = "kOk" THEN CopyString /\ UNCHANGED err ELSE SaveError(DBGet(k, ok)) /\ UNCHANGED result
    /\ failed' = (failed \/ ~ok)
    /\ UNCHANGED database /\ UNCHANGED objects /\ UNCHANGED batch

\* A key that is not there is no error.
leveldb_get(k, ok) ==
    /\ Reading
    /\ CASE DBGet(k, ok) = "kOk" -> CopyString /\ UNCHANGED err
         [] DBGet(k, ok) = "kNotFound" -> UNCHANGED <<heap, err, result>>
         [] OTHER -> SaveError(DBGet(k, ok)) /\ UNCHANGED result
    /\ failed' = (failed \/ ~ok)
    /\ UNCHANGED database /\ UNCHANGED objects /\ UNCHANGED batch

\* leveldb_property_value, of a property that is known or not.
leveldb_property_value(known) ==
    /\ "db" \in handles /\ result = 0
    /\ IF known THEN CopyString ELSE UNCHANGED <<heap, result>>
    /\ UNCHANGED <<err, failed>> /\ UNCHANGED database /\ UNCHANGED objects /\ UNCHANGED batch

leveldb_create_snapshot ==
    /\ "db" \in handles /\ NewHandle("snapshot") /\ reps' = reps \cup {"snapshot"} /\ view' = store
    /\ UNCHANGED <<store, readView, cursor, opt, used>> /\ UNCHANGED strings /\ UNCHANGED batch

\* The ReadOptions keep their pointer.
leveldb_release_snapshot ==
    /\ "snapshot" \in handles /\ handles' = handles \ {"snapshot"} /\ reps' = reps \ {"snapshot"} /\ view' = NoView
    /\ UNCHANGED <<store, readView, cursor, opt, used>> /\ UNCHANGED strings /\ UNCHANGED batch

leveldb_readoptions_set_snapshot ==
    /\ readView' \in {NoView, view}
    /\ UNCHANGED <<store, view, cursor, batch>> /\ UNCHANGED objects /\ UNCHANGED strings

-----------------------------------------------------------------------------
\* Iterators.

leveldb_create_iterator ==
    /\ Reading /\ NewHandle("iterator") /\ reps' = reps \cup {"iterator"}
    /\ cursor' = [over |-> Seen, at |-> 0, ok |-> TRUE]
    /\ UNCHANGED <<store, view, readView, opt, used>> /\ UNCHANGED strings /\ UNCHANGED batch

leveldb_iter_destroy ==
    /\ "iterator" \in handles /\ handles' = handles \ {"iterator"} /\ reps' = reps \ {"iterator"}
    /\ cursor' = NoCursor
    /\ UNCHANGED <<store, view, readView, opt, used>> /\ UNCHANGED strings /\ UNCHANGED batch

Present == {k \in Keys : cursor.over[k] # 0}
Least(s) == IF s = {} THEN 0 ELSE Min(s)
Greatest(s) == IF s = {} THEN 0 ELSE Max(s)

\* leveldb_iter_seek_to_first, _seek_to_last, _seek, _next, _prev; or a read fails.
Move ==
    /\ "iterator" \in handles
    /\ \/ \E to \in {Least(Present), Greatest(Present)} : cursor' = [cursor EXCEPT !.at = to, !.ok = TRUE]
       \/ \E k \in Keys : cursor' = [cursor EXCEPT !.at = Least({p \in Present : p >= k}), !.ok = TRUE]
       \/ cursor.at # 0 /\ \E to \in {Least({p \in Present : p > cursor.at}), Greatest({p \in Present : p < cursor.at})} :
                              cursor' = [cursor EXCEPT !.at = to]
       \/ cursor' = [cursor EXCEPT !.at = 0, !.ok = FALSE]
    /\ UNCHANGED <<store, view, readView, batch>> /\ UNCHANGED objects /\ UNCHANGED strings

leveldb_iter_get_error ==
    /\ "iterator" \in handles /\ Report(cursor.ok)
    /\ UNCHANGED result /\ UNCHANGED database /\ UNCHANGED objects /\ UNCHANGED batch

-----------------------------------------------------------------------------
\* Batches.

\* leveldb_writebatch_put and _delete; leveldb_writebatch_clear, or a new one.
FillBatch ==
    /\ \/ Len(batch) < MaxBatch /\ \E k \in Keys, v \in {0, 1} : batch' = Append(batch, [key |-> k, value |-> v])
       \/ batch' = <<>>
    /\ UNCHANGED database /\ UNCHANGED objects /\ UNCHANGED strings

-----------------------------------------------------------------------------
Next ==
    \/ leveldb_free \/ SetOptions \/ CreateFilter
    \/ \E kind \in Shared : CreateShared(kind) \/ DestroyShared(kind)
    \/ \E ok \in BOOLEAN : \/ leveldb_open(ok)
                           \/ \E destroy \in BOOLEAN : Manage(ok, destroy)
                           \/ \E k \in Keys : leveldb_get(k, ok) \/ \E v \in {0, 1} : Write(<<[key |-> k, value |-> v]>>, ok)
                           \/ Write(batch, ok)
                           \/ leveldb_property_value(ok)
    \/ leveldb_close
    \/ leveldb_create_snapshot \/ leveldb_release_snapshot \/ leveldb_readoptions_set_snapshot
    \/ leveldb_create_iterator \/ leveldb_iter_destroy \/ Move \/ leveldb_iter_get_error
    \/ FillBatch

Spec == Init /\ [][Next]_vars

-----------------------------------------------------------------------------
\* Nothing is lost or freed twice at the boundary, in whatever order calls succeed and
\* fail: the caller reaches every block that is allocated, error and result are two
\* blocks, every object lives as long as its handle, what an open database uses is alive,
\* and so is the default environment.
OwnersKnown ==
    /\ heap = {err, result} \ {0} /\ (err # 0 => err # result)
    /\ reps = (handles \ {"env"}) \cup {DefaultEnv}
    /\ used # {} => "db" \in handles /\ used \subseteq handles

\* The caller finds an error exactly when a call has failed since it last cleared it; a
\* key that is not there, or a success after a failure, is no news.
ErrorsKept == err # 0 <=> failed
=============================================================================
