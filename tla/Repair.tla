------------------------------- MODULE Repair -------------------------------
(***************************************************************************)
(* LevelDB's RepairDB: logs become tables, tables are scanned, damaged     *)
(* ones are copied as far as they can be read, and a new manifest is       *)
(* written.  What is replaced is moved to a directory "lost".  System      *)
(* calls may fail, and the process may be stopped and started again.       *)
(*                                                                         *)
(* An entry is its sequence number.  A file is the set of entries that can *)
(* be read from it and whether reading it reports an error.                *)
(***************************************************************************)
EXTENDS Integers, Sequences, FiniteSets, FiniteSetsExt

CONSTANTS
    Entries,        \* sequence numbers of what was written
    OldNumbers,     \* numbers of the files found by the first repair
    MaxFaults,      \* bound on the system calls that fail
    MaxCrashes

VARIABLES
    initial,        \* the entries that could be read at first
    logs, tables,   \* the directory: files by number
    lost,           \* the entries that can be read from files in "lost"
    current,        \* the descriptor CURRENT leads to, or None
    pc,             \* where the repair is
    todoLogs, todoTables,   \* logs_ and table_numbers_
    next,           \* next_file_number_
    kept,           \* tables_: the numbers
    copy,           \* of RepairTable: number, source and entries
    faults, crashes

repairVars == <<pc, todoLogs, todoTables, next, kept, copy>>
vars == <<initial, logs, tables, lost, current, repairVars, faults, crashes>>

None == [tables |-> {}, next |-> 0, last |-> 0, ok |-> FALSE]
NoCopy == [number |-> 0, src |-> 0]
File(e, d) == [entries |-> e, damaged |-> d]
With(f, n, x) == [i \in DOMAIN f \cup {n} |-> IF i = n THEN x ELSE f[i]]
Without(f, n) == [i \in DOMAIN f \ {n} |-> f[i]]
In(f) == UNION {f[n].entries : n \in DOMAIN f}
Empty == [n \in {} |-> File({}, FALSE)]

Init ==
    /\ \E ls \in SUBSET OldNumbers :
          /\ logs \in [ls -> [entries : SUBSET Entries, damaged : {FALSE}]]
          /\ tables \in [OldNumbers \ ls -> [entries : (SUBSET Entries) \ {{}}, damaged : BOOLEAN]]
    /\ initial = In(logs) \cup In(tables)
    /\ lost = {} /\ current = None
    /\ pc = "idle" /\ todoLogs = {} /\ todoTables = {} /\ next = 1 /\ kept = {} /\ copy = NoCopy
    /\ faults = 0 /\ crashes = 0

-----------------------------------------------------------------------------
\* Mutant: the numbers of tables do not count.
FindFilesByLogs ==
    /\ pc = "idle"
    /\ pc' = "logs"
    /\ todoLogs' = DOMAIN logs /\ todoTables' = DOMAIN tables
    /\ next' = Max({0} \cup DOMAIN logs) + 1
    /\ kept' = {} /\ copy' = NoCopy
    /\ UNCHANGED <<initial, logs, tables, lost, current, faults, crashes>>

\* The repairer starts; FindFiles.
FindFiles ==
    /\ pc = "idle"
    /\ pc' = "logs"
    /\ todoLogs' = DOMAIN logs /\ todoTables' = DOMAIN tables
    /\ next' = Max({0} \cup DOMAIN logs \cup DOMAIN tables) + 1
    /\ kept' = {} /\ copy' = NoCopy
    /\ UNCHANGED <<initial, logs, tables, lost, current, faults, crashes>>

\* One more system call fails, or none.
Fault(ok) == IF ok THEN UNCHANGED faults ELSE faults < MaxFaults /\ faults' = faults + 1

\* ConvertLogToTable: BuildTable deletes what it could not finish, and makes no file of
\* nothing.
ConvertLog(log, ok) ==
    /\ pc = "logs" /\ log \in todoLogs /\ Fault(ok)
    /\ next' = next + 1
    /\ IF ok /\ logs[log].entries # {}
         THEN tables' = With(tables, next, File(logs[log].entries, FALSE)) /\ todoTables' = todoTables \cup {next}
         ELSE UNCHANGED <<tables, todoTables>>
    /\ pc' = "archive"
    /\ copy' = [NoCopy EXCEPT !.src = log]
    /\ UNCHANGED <<initial, logs, lost, current, todoLogs, kept, crashes>>

\* Mutant: a log that was converted is deleted, also when that failed.
DeleteLog(ok) ==
    /\ pc = "archive" /\ Fault(ok)
    /\ logs' = IF ok THEN Without(logs, copy.src) ELSE logs
    /\ lost' = lost
    /\ pc' = "logs" /\ todoLogs' = todoLogs \ {copy.src} /\ copy' = NoCopy
    /\ UNCHANGED <<initial, tables, current, todoTables, next, kept, crashes>>

\* ArchiveFile of the log, whether it was converted or not.
ArchiveLog(ok) ==
    /\ pc = "archive" /\ Fault(ok)
    /\ logs' = IF ok THEN Without(logs, copy.src) ELSE logs
    /\ lost' = IF ok THEN lost \cup logs[copy.src].entries ELSE lost
    /\ pc' = "logs" /\ todoLogs' = todoLogs \ {copy.src} /\ copy' = NoCopy
    /\ UNCHANGED <<initial, tables, current, todoTables, next, kept, crashes>>

LogsDone ==
    /\ pc = "logs" /\ todoLogs = {}
    /\ pc' = "scan"
    /\ UNCHANGED <<initial, logs, tables, lost, current, todoLogs, todoTables, next, kept, copy, faults, crashes>>

\* ScanTable: a table that is read without an error is kept as it is; one whose size is
\* not to be had is archived.
ScanTable(n) ==
    /\ pc = "scan" /\ n \in todoTables
    /\ todoTables' = todoTables \ {n}
    /\ \/ ~tables[n].damaged /\ kept' = kept \cup {n} /\ UNCHANGED <<pc, tables, lost, copy, next, faults>>
       \/ /\ Fault(FALSE)
          /\ tables' = Without(tables, n) /\ lost' = lost \cup tables[n].entries
          /\ UNCHANGED <<pc, copy, next, kept>>
       \* RepairTable: the copy is created.
       \/ /\ tables[n].damaged /\ UNCHANGED <<lost, kept>>
          /\ next' = next + 1
          /\ \/ pc' = "source" /\ copy' = [number |-> next, src |-> n] /\ UNCHANGED faults
                /\ tables' = With(tables, next, File({}, TRUE))
             \/ Fault(FALSE) /\ UNCHANGED <<pc, copy, tables>>
    /\ UNCHANGED <<initial, logs, current, todoLogs, crashes>>

\* The data is copied and the source archived: the copy has whatever was written out.
ArchiveSource(ok) ==
    /\ pc = "source" /\ Fault(ok)
    /\ \E part \in SUBSET tables[copy.src].entries :
          tables' = With(IF ok THEN Without(tables, copy.src) ELSE tables, copy.number, File(part, TRUE))
    /\ lost' = IF ok THEN lost \cup tables[copy.src].entries ELSE lost
    /\ pc' = IF tables[copy.src].entries = {} THEN "scan" ELSE "finish"
    /\ copy' = [number |-> copy.number, src |-> copy.src, entries |-> tables[copy.src].entries]
    /\ UNCHANGED <<initial, logs, current, todoLogs, todoTables, next, kept, crashes>>

\* Finish and Close of the copy; what failed is deleted.
FinishCopy(ok) ==
    /\ pc = "finish" /\ Fault(ok)
    /\ tables' = IF ok THEN [tables EXCEPT ![copy.number] = File(copy.entries, FALSE)] ELSE Without(tables, copy.number)
    /\ pc' = IF ok THEN "rename" ELSE "scan"
    /\ UNCHANGED <<initial, logs, lost, current, todoLogs, todoTables, next, kept, copy, crashes>>

\* The copy takes the place of the source.
RenameCopy(ok) ==
    /\ pc = "rename" /\ Fault(ok)
    /\ tables' = IF ok THEN With(Without(tables, copy.number), copy.src, tables[copy.number]) ELSE Without(tables, copy.number)
    /\ kept' = IF ok THEN kept \cup {copy.src} ELSE kept
    /\ pc' = "scan"
    /\ UNCHANGED <<initial, logs, lost, current, todoLogs, todoTables, next, copy, crashes>>

\* WriteDescriptor: all tables on level 0.  CURRENT is installed last; until then the
\* old manifests may be gone.
WriteDescriptor(ok) ==
    /\ pc = "scan" /\ todoTables = {} /\ Fault(ok)
    /\ \/ ok /\ pc' = "done"
          /\ current' = [tables |-> kept, next |-> next, last |-> Max({0} \cup UNION {tables[n].entries : n \in kept}), ok |-> TRUE]
       \/ ~ok /\ pc' = "failed" /\ current' \in {current, None}
    /\ UNCHANGED <<initial, logs, tables, lost, todoLogs, todoTables, next, kept, copy, crashes>>

\* The process is stopped, also after a repair that failed, and the repair run again.
Crash ==
    /\ crashes < MaxCrashes /\ crashes' = crashes + 1
    /\ pc' = "idle"
    /\ UNCHANGED <<initial, logs, tables, lost, current, todoLogs, todoTables, next, kept, copy, faults>>

Next ==
    \/ FindFiles \/ LogsDone \/ Crash
    \/ \E n \in todoTables : ScanTable(n)
    \/ \E ok \in BOOLEAN :
          \/ \E log \in todoLogs : ConvertLog(log, ok)
          \/ ArchiveLog(ok) \/ ArchiveSource(ok) \/ FinishCopy(ok) \/ RenameCopy(ok) \/ WriteDescriptor(ok)

Spec == Init /\ [][Next]_vars

-----------------------------------------------------------------------------
\* Wherever the repair fails or is stopped: an entry that could be read can still be
\* read, from the directory or from "lost".
RepairDestroysNothing == initial \subseteq In(logs) \cup In(tables) \cup lost

\* A repair that succeeds leads to tables that are there and whole, to sequence numbers
\* and file numbers beyond all of them and, if no call failed and it was not stopped on
\* the way, to every entry that could be read.
RepairComplete ==
    pc = "done" =>
        /\ \A n \in current.tables :
              /\ n \in DOMAIN tables /\ ~tables[n].damaged /\ n < current.next
              /\ \A e \in tables[n].entries : e <= current.last
        /\ faults = 0 /\ crashes = 0 => initial \subseteq UNION {tables[n].entries : n \in current.tables}

=============================================================================
