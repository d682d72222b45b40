----------------------------- MODULE Recovery -----------------------------
(***************************************************************************)
(* LevelDB's files: the logs, the tables, the manifest that says which of  *)
(* them make up the database, and CURRENT, which names the manifest.  The  *)
(* module follows DB::Open, memtable and table compaction and the deletion *)
(* of obsolete files step by step; the process or the machine may die      *)
(* between any two steps, opening included.                                *)
(*                                                                         *)
(* Directory operations are durable in the order they are made; the data   *)
(* of a file is durable up to its last sync.  A process that dies loses    *)
(* nothing that was flushed; a machine keeps of each file some prefix that *)
(* is at least what was synced, and maybe half of the next record.  A log  *)
(* or manifest is small enough for one block, so that everything behind    *)
(* half a record is lost to the reader (module LogFile).                   *)
(*                                                                         *)
(* A write has one entry: its name and its sequence number.  Keys are left *)
(* to module Compaction.                                                   *)
(***************************************************************************)
EXTENDS Integers, Sequences, FiniteSets, FiniteSetsExt, SequencesExt

CONSTANTS
    MaxWrites,     \* bound on the writes made
    MaxDeaths,     \* bound on deaths of the process or of the machine, and closings
    MaxFaults,     \* bound on failing I/O
    MaxPins,       \* bound on the iterators created
    RoomInMem,     \* entries a memtable holds before it is full: write_buffer_size
    ReuseAny       \* may reuse_logs meet files that are not whole and durable?

ASSUME RecoveryAssumption ==
    /\ {MaxWrites, MaxDeaths, MaxFaults, MaxPins, RoomInMem} \subseteq Nat
    /\ RoomInMem > 0
    /\ ReuseAny \in BOOLEAN

VARIABLES
    current,   \* the manifest CURRENT names; 0 if there is no CURRENT
    manifests, \* the manifest files, by number
    logs,      \* the log files, by number
    tables,    \* the entries of the table files, by number
    temps,     \* numbers of .dbtmp files
    pc,        \* what the process does: "down" and "up", and the steps of opening
    bg,        \* the steps of a compaction and of LogAndApply
    job,       \* who runs them: "open", "flush", "compact"
    mem, imm,  \* memtables; hasImm: imm_ is not NULL
    hasImm,
    logNumber, \* logfile_number_; 0 while there is no log
    vs,        \* the VersionSet: files, log, next, last, manifest, and
               \* open (descriptor_log_ is not NULL)
    edit,      \* the VersionEdit in the making
    record,    \* the record LogAndApply writes
    out,       \* number of the table being built
    pending,   \* pending_outputs_
    pinned,    \* the files of versions that iterators hold
    todo,      \* log files Recover has yet to read
    reuse,     \* options_.reuse_logs of this opening
    save,      \* save_manifest
    maxSeq,    \* max_sequence
    bgError,
    written,   \* how many writes were made
    safe,      \* writes that returned with sync
    deaths,    \* how often the process ended, and how often with the machine
    outages,
    faults, pins

diskVars == <<current, manifests, logs, tables, temps>>
memVars == <<mem, imm, hasImm, logNumber>>
openVars == <<todo, reuse, save, maxSeq>>
editVars == <<edit, record, out, pending>>
ghosts == <<written, safe, deaths, outages, faults, pins>>
vars == <<diskVars, pc, bg, job, memVars, vs, editVars, pinned, openVars, bgError, ghosts>>

-----------------------------------------------------------------------------
\* Files.

Put(f, n, x) == [m \in DOMAIN f \cup {n} |-> IF m = n THEN x ELSE f[m]]
Drop(f, S) == [m \in DOMAIN f \ S |-> f[m]]
NoFiles == [n \in {} |-> {}]

\* A file of records: torn is the number of records before half a record, -1 without.
EmptyFile == [recs |-> <<>>, synced |-> 0, torn |-> -1]
AppendTo(file, r) == [file EXCEPT !.recs = Append(@, r)]
Synced(file) == [file EXCEPT !.synced = Len(file.recs)]
Readable(file) == IF file.torn = -1 THEN file.recs ELSE SubSeq(file.recs, 1, file.torn)
\* The reader reports a corruption: half a record is only ignored at the end.
Damaged(file) == file.torn # -1 /\ Len(file.recs) > file.torn

\* What a machine that dies may leave of a file.
Remains(file) ==
    {[recs |-> SubSeq(file.recs, 1, n), synced |-> n, torn |-> file.torn] :
        n \in (IF file.torn = -1 THEN file.synced ELSE Max({file.synced, file.torn}))..Len(file.recs)}
    \cup {[recs |-> SubSeq(file.recs, 1, n), synced |-> n, torn |-> n] :
        n \in (IF file.torn = -1 THEN file.synced ELSE Len(file.recs))..(Len(file.recs) - 1)}

\* A manifest record; -1 stands for a field that is not set.
EmptyEdit == [add |-> {}, del |-> {}, log |-> -1, next |-> -1, last |-> -1]

\* The loop of VersionSet::Recover over the manifest: Builder::Apply, and the last of
\* each number.
NoRecord == [files |-> {}, log |-> -1, next |-> -1, last |-> -1]
Latest(x, v) == IF v = -1 THEN x ELSE v

ApplyRecord(s, r) ==
    [files |-> (s.files \ r.del) \cup r.add,
     log |-> Latest(s.log, r.log),
     next |-> Latest(s.next, r.next),
     last |-> Latest(s.last, r.last)]

Recovered(recs) ==
    LET upTo[n \in 0..Len(recs)] ==
          IF n = 0 THEN NoRecord ELSE ApplyRecord(upTo[n - 1], recs[n])
    IN  upTo[Len(recs)]

FilesOf(recs) == Recovered(recs).files
LogOf(recs) == Recovered(recs).log
NextOf(recs) == Recovered(recs).next
SequenceOf(recs) == Recovered(recs).last

Manifest == manifests[current]
ManifestRecs == Readable(Manifest)
ManifestReadable ==
    /\ ~Damaged(Manifest)
    /\ LogOf(ManifestRecs) # -1 /\ NextOf(ManifestRecs) # -1 /\ SequenceOf(ManifestRecs) # -1

\* The log files Recover reads (PrevLogNumber is always 0 here, and no file has that number).
LogsFrom(n) == {m \in DOMAIN logs : m >= n}

\* What opening the database would find.
OnDisk ==
    IF current = 0 \/ ~ManifestReadable THEN {}
    ELSE (UNION {tables[n] : n \in FilesOf(ManifestRecs) \cap DOMAIN tables})
         \cup (UNION {ToSet(Readable(logs[n])) : n \in LogsFrom(LogOf(ManifestRecs))})

InMemory == (UNION {tables[n] : n \in vs.files \cap DOMAIN tables}) \cup ToSet(imm) \cup ToSet(mem)

NoVersions == [files |-> {}, log |-> 0, next |-> 2, last |-> 0, manifest |-> 0, open |-> FALSE]

Init ==
    /\ current = 0 /\ manifests = NoFiles /\ logs = NoFiles /\ tables = NoFiles /\ temps = {}
    /\ pc = "down" /\ bg = "idle" /\ job = "none"
    /\ mem = <<>> /\ imm = <<>> /\ hasImm = FALSE /\ logNumber = 0
    /\ vs = NoVersions
    /\ edit = EmptyEdit /\ record = EmptyEdit /\ out = 0 /\ pending = {}
    /\ pinned = {}
    /\ todo = {} /\ reuse = FALSE /\ save = FALSE /\ maxSeq = 0
    /\ bgError = FALSE
    /\ written = 0 /\ safe = {} /\ deaths = 0 /\ outages = 0 /\ faults = 0 /\ pins = 0

Fault == faults < MaxFaults /\ faults' = faults + 1

-----------------------------------------------------------------------------
\* Opening: DB::Open, DBImpl::Recover, NewDB, VersionSet::Recover, RecoverLogFile.

\* Nothing an appended record could be lost with: no half records, and a manifest that
\* is on the disk.
Whole ==
    /\ current # 0
    /\ Manifest.synced = Len(Manifest.recs) /\ Manifest.torn = -1
    /\ \A n \in DOMAIN logs : logs[n].torn = -1

OpenDB(withReuse) ==
    /\ pc = "down"
    /\ withReuse /\ ~ReuseAny => Whole
    /\ reuse' = withReuse
    /\ pc' = IF current = 0 THEN "create" ELSE "recover"
    /\ UNCHANGED <<diskVars, bg, job, memVars, vs, editVars, pinned, todo, save, maxSeq, bgError, ghosts>>

\* NewDB writes the first manifest, without a sync, ...
NewDBEdit == [add |-> {}, del |-> {}, log |-> 0, next |-> 2, last |-> 0]

NewDB ==
    /\ pc = "create"
    /\ manifests' = Put(manifests, 1, AppendTo(EmptyFile, NewDBEdit))
    /\ pc' = "createCurrent"
    /\ UNCHANGED <<current, logs, tables, temps, bg, job, memVars, vs, editVars, pinned, openVars, bgError, ghosts>>

\* SetCurrentFile: a synced temporary file that is then renamed.
WriteTemp(n) ==
    /\ n \notin temps
    /\ temps' = temps \cup {n}
    /\ UNCHANGED current

RenameTemp(n) ==
    /\ n \in temps
    /\ temps' = temps \ {n}
    /\ current' = n

\* ... and points CURRENT to it.
NewDBCurrent ==
    /\ pc = "createCurrent"
    /\ \/ WriteTemp(1) /\ UNCHANGED pc
       \/ RenameTemp(1) /\ pc' = "recover"
    /\ UNCHANGED <<manifests, logs, tables, bg, job, memVars, vs, editVars, pinned, openVars, bgError, ghosts>>

\* VersionSet::Recover and the list of the logs to read; no file may be missing.
ReadManifest ==
    /\ pc = "recover"
    /\ LET recs == ManifestRecs
           next == NextOf(recs)
       IN  IF ~ManifestReadable \/ ~(FilesOf(recs) \subseteq DOMAIN tables)
             THEN /\ pc' = "corrupt"
                  /\ UNCHANGED <<vs, todo, save>>
             ELSE /\ vs' = [files |-> FilesOf(recs), log |-> LogOf(recs), next |-> next + 1,
                            last |-> SequenceOf(recs), manifest |-> IF reuse THEN current ELSE next,
                            open |-> reuse]
                  /\ save' = ~reuse
                  /\ todo' = LogsFrom(LogOf(recs))
                  /\ pc' = "logs"
    /\ UNCHANGED <<diskVars, bg, job, memVars, editVars, pinned, reuse, maxSeq, bgError, ghosts>>

\* MarkFileNumberUsed
Used(next, n) == IF next <= n THEN n + 1 ELSE next

\* Mutant: the last memtable of a log, which is not full, is dropped.
MemTablesFullOnly(n) == n \div (RoomInMem + 1)

\* How many memtables n entries fill, the last one perhaps in part.
MemTables(n) == (n + RoomInMem) \div (RoomInMem + 1)

\* RecoverLogFile, for the oldest log left: memtables that are full become tables, and
\* so does the last one unless this log goes on being used.
RecoverLogFile ==
    /\ pc = "logs"
    /\ todo # {}
    /\ LET n == Min(todo)
           entries == Readable(logs[n])
           full == Len(entries) \div (RoomInMem + 1)
           keep == reuse /\ todo = {n} /\ full = 0
           chunks == IF keep THEN 0 ELSE MemTables(Len(entries))
           new == vs.next..(vs.next + chunks - 1)
       IN  /\ tables' = [m \in DOMAIN tables \cup new |->
                           IF m \in new
                             THEN {entries[j] : j \in {k \in 1..Len(entries) : (k - 1) \div (RoomInMem + 1) = m - vs.next}}
                             ELSE tables[m]]
           /\ edit' = [edit EXCEPT !.add = @ \cup new]
           /\ vs' = [vs EXCEPT !.next = Used(@ + chunks, n)]
           /\ save' = (save \/ chunks > 0)
           /\ maxSeq' = Max({maxSeq} \cup {entries[i].seq : i \in 1..Len(entries)})
           /\ mem' = IF keep THEN entries ELSE mem
           /\ logNumber' = IF keep THEN n ELSE logNumber
           /\ todo' = todo \ {n}
    /\ UNCHANGED <<current, manifests, logs, temps, pc, bg, job, imm, hasImm, record, out, pending, pinned,
                   reuse, bgError, ghosts>>

\* Mutant: the sequence numbers found in the logs are not counted.
OpenLogForgets ==
    /\ pc = "logs"
    /\ todo = {}
    /\ LET last == vs.last
           n == IF logNumber = 0 THEN vs.next ELSE logNumber
       IN  /\ logs' = IF logNumber = 0 THEN Put(logs, n, EmptyFile) ELSE logs
           /\ logNumber' = n
           /\ vs' = [vs EXCEPT !.last = last, !.next = IF logNumber = 0 THEN @ + 1 ELSE @]
           /\ edit' = [edit EXCEPT !.log = n]
    /\ IF save
         THEN /\ pc' = "saving"
              /\ bg' = "apply"
              /\ job' = "open"
         ELSE /\ pc' = "up"
              /\ bg' = "delete"
              /\ UNCHANGED job
    /\ UNCHANGED <<current, manifests, tables, temps, mem, imm, hasImm, record, out, pending, pinned,
                   openVars, bgError, ghosts>>

\* The rest of Open: a new log if none is reused, then LogAndApply if there is
\* anything to save.
OpenLog ==
    /\ pc = "logs"
    /\ todo = {}
    /\ LET last == Max({vs.last, maxSeq})
           n == IF logNumber = 0 THEN vs.next ELSE logNumber
       IN  /\ logs' = IF logNumber = 0 THEN Put(logs, n, EmptyFile) ELSE logs
           /\ logNumber' = n
           /\ vs' = [vs EXCEPT !.last = last, !.next = IF logNumber = 0 THEN @ + 1 ELSE @]
           /\ edit' = [edit EXCEPT !.log = n]
    /\ IF save
         THEN /\ pc' = "saving"
              /\ bg' = "apply"
              /\ job' = "open"
         ELSE /\ pc' = "up"
              /\ bg' = "delete"
              /\ UNCHANGED job
    /\ UNCHANGED <<current, manifests, tables, temps, mem, imm, hasImm, record, out, pending, pinned,
                   openVars, bgError, ghosts>>

\* The caller gives up on a database that does not open.
OpenFailed ==
    /\ pc \in {"failed", "corrupt"}
    /\ UNCHANGED vars

-----------------------------------------------------------------------------
\* Writing.

\* Write: one log record, synced if asked, and the memtable.  A death between these is a
\* death before the sync, or a death of the machine that keeps the record.
Write(sync) ==
    /\ pc = "up"
    /\ bg # "delete"
    /\ ~bgError
    /\ written < MaxWrites
    /\ Len(mem) <= RoomInMem
    /\ LET e == [w |-> written + 1, seq |-> vs.last + 1]
           file == AppendTo(logs[logNumber], e)
       IN  /\ logs' = [logs EXCEPT ![logNumber] = IF sync THEN Synced(file) ELSE file]
           /\ mem' = Append(mem, e)
           /\ safe' = IF sync THEN safe \cup {written + 1} ELSE safe
    /\ written' = written + 1
    /\ vs' = [vs EXCEPT !.last = @ + 1]
    /\ UNCHANGED <<current, manifests, tables, temps, pc, bg, job, imm, hasImm, logNumber, editVars, pinned,
                   openVars, bgError, deaths, outages, faults, pins>>

\* MakeRoomForWrite's switch to a new log and memtable.
SwitchMem ==
    /\ pc = "up"
    /\ bg # "delete"
    /\ ~bgError
    /\ ~hasImm
    /\ Len(mem) > RoomInMem
    /\ logs' = Put(logs, vs.next, EmptyFile)
    /\ logNumber' = vs.next
    /\ vs' = [vs EXCEPT !.next = @ + 1]
    /\ imm' = mem
    /\ hasImm' = TRUE
    /\ mem' = <<>>
    /\ UNCHANGED <<current, manifests, tables, temps, pc, bg, job, editVars, pinned, openVars, bgError, ghosts>>

\* NewIterator holds the current version, until it is released.
Pin ==
    /\ pc = "up"
    /\ bg # "delete"
    /\ pins < MaxPins
    /\ pins' = pins + 1
    /\ pinned' = pinned \cup {vs.files}
    /\ UNCHANGED <<diskVars, pc, bg, job, memVars, vs, editVars, openVars, bgError, written, safe, deaths, outages, faults>>

Unpin ==
    /\ bg # "delete"
    /\ \E v \in pinned : pinned' = pinned \ {v}
    /\ UNCHANGED <<diskVars, pc, bg, job, memVars, vs, editVars, openVars, bgError, ghosts>>

-----------------------------------------------------------------------------
\* The background thread.

\* WriteLevel0Table and OpenCompactionOutputFile take a number and create the file.
StartTable(forJob) ==
    /\ pc = "up"
    /\ bg = "idle"
    /\ ~bgError
    /\ job' = forJob
    /\ out' = vs.next
    /\ pending' = pending \cup {vs.next}
    /\ tables' = Put(tables, vs.next, {})
    /\ vs' = [vs EXCEPT !.next = @ + 1]
    /\ edit' = EmptyEdit
    /\ bg' = "build"
    /\ UNCHANGED <<current, manifests, logs, temps, pc, memVars, record, pinned, openVars, bgError, ghosts>>

StartFlush == hasImm /\ StartTable("flush")

\* Its outputs replace the files it read.
StartCompact == ~hasImm /\ Cardinality(vs.files) > 1 /\ StartTable("compact")

\* BuildTable and FinishCompactionOutputFile: the table is synced.  Only a flush takes
\* its number from pending_outputs_ now.
BuildTable ==
    /\ bg = "build"
    /\ tables' = [tables EXCEPT ![out] = IF job = "flush" THEN ToSet(imm)
                                         ELSE UNION {tables[n] : n \in vs.files}]
    /\ edit' = IF job = "flush" THEN [edit EXCEPT !.add = {out}, !.log = logNumber]
                                ELSE [edit EXCEPT !.add = {out}, !.del = vs.files]
    /\ pending' = IF job = "flush" THEN pending \ {out} ELSE pending
    /\ bg' = "apply"
    /\ UNCHANGED <<current, manifests, logs, temps, pc, job, memVars, vs, record, out, pinned, openVars,
                   bgError, ghosts>>

BuildFails ==
    /\ bg = "build"
    /\ Fault
    /\ tables' = IF job = "flush" THEN Drop(tables, {out}) ELSE tables
    /\ pending' = pending \ {out}
    /\ bgError' = TRUE
    /\ bg' = "idle"
    /\ UNCHANGED <<current, manifests, logs, temps, pc, job, memVars, vs, edit, record, out, pinned, openVars,
                   written, safe, deaths, outages, pins>>

\* WriteSnapshot: all files of the current version, as the first record of a new manifest.
WriteSnapshot == [EmptyEdit EXCEPT !.add = vs.files]

\* LogAndApply with the mutex: the record is complete, and a new manifest begins with
\* a snapshot of the current version.
Apply ==
    /\ bg = "apply"
    /\ record' = [add |-> edit.add, del |-> edit.del, log |-> IF edit.log = -1 THEN vs.log ELSE edit.log,
                   next |-> vs.next, last |-> vs.last]
    /\ manifests' = IF vs.open THEN manifests
                    ELSE Put(manifests, vs.manifest, AppendTo(EmptyFile, WriteSnapshot))
    /\ bg' = "record"
    /\ UNCHANGED <<current, logs, tables, temps, pc, job, memVars, vs, edit, out, pending, pinned, openVars,
                   bgError, ghosts>>

\* Without it: the record is appended, ...
AddRecord ==
    /\ bg = "record"
    /\ manifests' = [manifests EXCEPT ![vs.manifest] = AppendTo(@, record)]
    /\ bg' = "sync"
    /\ UNCHANGED <<current, logs, tables, temps, pc, job, memVars, vs, editVars, pinned, openVars, bgError, ghosts>>

\* Mutant: the record is left to the operating system.
SyncManifestLater ==
    /\ bg = "sync"
    /\ bg' = IF vs.open THEN "install" ELSE "current"
    /\ UNCHANGED <<diskVars, pc, job, memVars, vs, editVars, pinned, openVars, bgError, ghosts>>

\* ... synced, ...
SyncManifest ==
    /\ bg = "sync"
    /\ manifests' = [manifests EXCEPT ![vs.manifest] = Synced(@)]
    /\ bg' = IF vs.open THEN "install" ELSE "current"
    /\ UNCHANGED <<current, logs, tables, temps, pc, job, memVars, vs, editVars, pinned, openVars, bgError, ghosts>>

\* ... and a new manifest becomes the current one.
SetCurrentFile ==
    /\ bg = "current"
    /\ \/ WriteTemp(vs.manifest) /\ UNCHANGED bg
       \/ RenameTemp(vs.manifest) /\ bg' = "install"
    /\ UNCHANGED <<manifests, logs, tables, pc, job, memVars, vs, editVars, pinned, openVars, bgError, ghosts>>

\* Adding the record, syncing it or renaming CURRENT fails.  A new manifest is deleted;
\* an old one may now hold a record that was never applied.
ApplyFails ==
    /\ bg \in {"record", "sync", "current"}
    /\ Fault
    /\ manifests' = IF vs.open THEN manifests ELSE Drop(manifests, {vs.manifest})
    /\ temps' = temps \ {vs.manifest}
    /\ pending' = pending \ {out}
    /\ bg' = "idle"
    /\ pc' = IF job = "open" THEN "failed" ELSE pc
    /\ bgError' = TRUE
    /\ UNCHANGED <<current, logs, tables, job, memVars, vs, edit, record, out, pinned, openVars, written, safe,
                   deaths, outages, pins>>

\* The new version is installed; a flush drops its memtable, Open is done.
Install ==
    /\ bg = "install"
    /\ vs' = [vs EXCEPT !.files = (@ \ record.del) \cup record.add, !.log = record.log, !.open = TRUE]
    /\ hasImm' = IF job = "flush" THEN FALSE ELSE hasImm
    /\ imm' = IF job = "flush" THEN <<>> ELSE imm
    /\ pending' = pending \ {out}
    /\ pc' = "up"
    /\ edit' = EmptyEdit
    /\ bg' = "delete"
    /\ UNCHANGED <<diskVars, job, mem, logNumber, record, out, pinned, openVars, bgError, ghosts>>

\* Mutant: AddLiveFiles looks at the current version only.
LiveCurrentOnly == pending \cup vs.files

\* AddLiveFiles: the files of every version in use.
Live == pending \cup vs.files \cup UNION pinned

\* DeleteObsoleteFiles, one file at a time, in the order of the directory.
Obsolete ==
    [logs |-> {n \in DOMAIN logs : n < vs.log},
     manifests |-> {n \in DOMAIN manifests : n < vs.manifest},
     tables |-> DOMAIN tables \ Live,
     temps |-> temps \ Live]

DeleteOne ==
    /\ bg = "delete"
    /\ ~bgError
    /\ \/ \E n \in Obsolete.logs : logs' = Drop(logs, {n}) /\ UNCHANGED <<manifests, tables, temps>>
       \/ \E n \in Obsolete.manifests : manifests' = Drop(manifests, {n}) /\ UNCHANGED <<logs, tables, temps>>
       \/ \E n \in Obsolete.tables : tables' = Drop(tables, {n}) /\ UNCHANGED <<logs, manifests, temps>>
       \/ \E n \in Obsolete.temps : temps' = temps \ {n} /\ UNCHANGED <<logs, manifests, tables>>
    /\ UNCHANGED <<current, pc, bg, job, memVars, vs, editVars, pinned, openVars, bgError, ghosts>>

DeleteDone ==
    /\ bg = "delete"
    /\ bgError \/ UNION {Obsolete[k] : k \in DOMAIN Obsolete} = {}
    /\ bg' = "idle"
    /\ UNCHANGED <<diskVars, pc, job, memVars, vs, editVars, pinned, openVars, bgError, ghosts>>

-----------------------------------------------------------------------------
\* Death.  What was in memory is gone.
Forget ==
    /\ pc' = "down" /\ bg' = "idle" /\ job' = "none"
    /\ mem' = <<>> /\ imm' = <<>> /\ hasImm' = FALSE /\ logNumber' = 0
    /\ vs' = NoVersions
    /\ edit' = EmptyEdit /\ record' = EmptyEdit /\ out' = 0 /\ pending' = {}
    /\ pinned' = {}
    /\ todo' = {} /\ reuse' = FALSE /\ save' = FALSE /\ maxSeq' = 0
    /\ bgError' = FALSE

\* The process is killed, or the database is closed.
ProcessDies ==
    /\ pc # "down"
    /\ deaths < MaxDeaths
    /\ deaths' = deaths + 1
    /\ Forget
    /\ UNCHANGED <<diskVars, written, safe, outages, faults, pins>>

MachineDies ==
    /\ pc # "down"
    /\ deaths < MaxDeaths
    /\ deaths' = deaths + 1
    /\ outages' = outages + 1
    /\ Forget
    /\ logs' \in [DOMAIN logs -> UNION {Remains(logs[n]) : n \in DOMAIN logs}]
    /\ \A n \in DOMAIN logs : logs'[n] \in Remains(logs[n])
    /\ manifests' \in [DOMAIN manifests -> UNION {Remains(manifests[n]) : n \in DOMAIN manifests}]
    /\ \A n \in DOMAIN manifests : manifests'[n] \in Remains(manifests[n])
    /\ UNCHANGED <<current, tables, temps, written, safe, faults, pins>>

-----------------------------------------------------------------------------
Opening ==
    \/ OpenDB(TRUE) \/ OpenDB(FALSE)
    \/ NewDB \/ NewDBCurrent \/ ReadManifest \/ RecoverLogFile \/ OpenLog \/ OpenFailed

Background ==
    \/ StartFlush \/ StartCompact \/ BuildTable \/ BuildFails
    \/ Apply \/ AddRecord \/ SyncManifest \/ SetCurrentFile \/ ApplyFails \/ Install
    \/ DeleteOne \/ DeleteDone

Next ==
    \/ Opening
    \/ Write(TRUE) \/ Write(FALSE) \/ SwitchMem \/ Pin \/ Unpin
    \/ Background
    \/ ProcessDies \/ MachineDies

Spec == Init /\ [][Next]_vars

-----------------------------------------------------------------------------
\* Properties.

\* An open database answers from its memtables and the tables of its version; one that
\* is down, or being opened, from what its files hold.
Contents == {e.w : e \in (IF pc = "up" THEN InMemory ELSE OnDisk)}

Promise == INSTANCE Durable
             WITH Writes <- 1..MaxWrites, contents <- Contents, open <- (pc = "up")

\* Log switches, flushes, compactions, the manifest, CURRENT, the deletion of files and
\* recovery itself leave the contents as they are; a process that dies loses nothing,
\* and a machine that dies nothing that was synced, at whichever step it happens.
Implements == Promise!Spec

\* The database can be opened after every death: the manifest is whole and no table it
\* names is missing.  The one exception is the manifest of NewDB, which is not synced
\* before CURRENT points to it.
OpenSucceeds == pc = "corrupt" => current = 1

\* The tables of the current version, and of those that iterators read, are there, and
\* after an opening or a compaction there is nothing else: DeleteObsoleteFiles takes
\* what is not used, and only that.
LiveFilesKept ==
    pc = "up" =>
        /\ vs.files \cup UNION pinned \subseteq DOMAIN tables
        /\ bg = "idle" /\ ~bgError /\ pins = 0 => DOMAIN tables = vs.files

\* Sequence numbers order all the writes the database holds, those of earlier lives
\* included: none is given out twice (last_sequence_, max_sequence).
SequencesFresh ==
    pc = "up" =>
        \A e \in InMemory :
            e.seq <= vs.last /\ \A f \in InMemory : e.seq < f.seq <=> e.w < f.w

\* What options.h says of WriteOptions::sync, "A DB write with sync==true has similar
\* crash semantics to a "write()" system call followed by "fsync()"": a write that
\* returned with sync is in the database whenever it is open, and can be read again
\* whenever it is not.
SyncedSurvives == safe \subseteq Contents

=============================================================================
