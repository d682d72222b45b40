------------------------------ MODULE EnvWriter -----------------------------
(***************************************************************************)
(* LevelDB's PosixEnv, write side: files behind a buffer of stdio and the  *)
(* cache of the kernel, names in a directory that is synced with the       *)
(* manifest, and strings written to a file and read back in one call.  Any *)
(* system call may fail, but for unlink, and the machine may stop;         *)
(* contents are counted in chunks.                                         *)
(***************************************************************************)
EXTENDS Integers, FiniteSets

CONSTANTS
    MaxLength,      \* chunks of a file
    MaxCrashes

VARIABLES
    entries,        \* names in the directory
    linked,         \* names there after a stop of the machine
    opened,         \* names with a WritableFile
    appended, cached, stored,   \* chunks given to stdio, to the kernel and to the disk
    promised,       \* chunks of the last Sync that returned OK
    listed,         \* names there at the last Sync of the manifest that returned OK
    job,            \* of WriteStringToFile or ReadFileToString on the temporary file
    crashes

vars == <<entries, linked, opened, appended, cached, stored, promised, listed, job, crashes>>

Names == {"table", "MANIFEST", "temp"}
contentVars == <<appended, cached, stored, promised>>
Idle == [step |-> "idle", sync |-> FALSE, ok |-> TRUE, got |-> 0]

Init ==
    /\ entries = {} /\ linked = {} /\ opened = {} /\ listed = {}
    /\ appended = [f \in Names |-> 0] /\ cached = appended /\ stored = appended /\ promised = appended
    /\ job = Idle /\ crashes = 0

-----------------------------------------------------------------------------
\* Files.  Each operation has a part for success and one for failure.

\* NewWritableFile: a file that is there is cut to nothing.
Create(f) ==
    /\ f \notin opened
    /\ entries' = entries \cup {f} /\ opened' = opened \cup {f}
    /\ appended' = [appended EXCEPT ![f] = 0] /\ cached' = [cached EXCEPT ![f] = 0]
    /\ stored' = [stored EXCEPT ![f] = 0] /\ promised' = [promised EXCEPT ![f] = 0]
    /\ UNCHANGED <<linked, listed>>

\* NewAppendableFile
Reopen(f) ==
    /\ f \in entries \ opened
    /\ opened' = opened \cup {f}
    /\ UNCHANGED <<entries, linked, listed, contentVars>>

\* Append: stdio may pass on what it has.
Append(f) ==
    /\ f \in opened /\ appended[f] < MaxLength
    /\ appended' = [appended EXCEPT ![f] = @ + 1]
    /\ \E n \in {cached[f], appended[f] + 1} : cached' = [cached EXCEPT ![f] = n]
    /\ UNCHANGED <<entries, linked, opened, stored, promised, listed>>

Flush(f) ==
    /\ f \in opened
    /\ cached' = [cached EXCEPT ![f] = appended[f]]
    /\ UNCHANGED <<entries, linked, opened, appended, stored, promised, listed>>

\* Mutant: the directory is not synced.
SyncFileOnly(f) ==
    /\ f \in opened
    /\ cached' = [cached EXCEPT ![f] = appended[f]]
    /\ stored' = [stored EXCEPT ![f] = appended[f]]
    /\ promised' = [promised EXCEPT ![f] = appended[f]]
    /\ listed' = IF f = "MANIFEST" THEN entries ELSE listed
    /\ UNCHANGED <<entries, linked, opened, appended>>

\* Sync: SyncDirIfManifest, fflush, fdatasync.
Sync(f) ==
    /\ f \in opened
    /\ linked' = IF f = "MANIFEST" THEN entries ELSE linked
    /\ cached' = [cached EXCEPT ![f] = appended[f]]
    /\ stored' = [stored EXCEPT ![f] = appended[f]]
    /\ promised' = [promised EXCEPT ![f] = appended[f]]
    /\ listed' = IF f = "MANIFEST" THEN entries ELSE listed
    /\ UNCHANGED <<entries, opened, appended>>

\* It stops at the first call that fails, and says so.
SyncFails(f) ==
    /\ f \in opened
    /\ \/ UNCHANGED <<linked, cached>>
       \/ linked' = (IF f = "MANIFEST" THEN entries ELSE linked) /\ UNCHANGED cached
       \/ /\ linked' = IF f = "MANIFEST" THEN entries ELSE linked
          /\ cached' = [cached EXCEPT ![f] = appended[f]]
    /\ UNCHANGED <<entries, opened, appended, stored, promised, listed>>

\* Close, or the destructor; what stdio could not write is lost.
Close(f, ok) ==
    /\ f \in opened /\ opened' = opened \ {f}
    /\ cached' = IF ok THEN [cached EXCEPT ![f] = appended[f]] ELSE cached
    /\ appended' = [appended EXCEPT ![f] = cached'[f]]
    /\ UNCHANGED <<entries, linked, stored, promised, listed>>

\* DeleteFile
Delete(f) ==
    /\ f \in entries \ opened
    /\ entries' = entries \ {f} /\ listed' = listed \ {f}
    /\ UNCHANGED <<linked, opened, contentVars>>

-----------------------------------------------------------------------------
\* DoWriteStringToFile: the steps, each of which may fail; then the file is deleted.

Goes(from, to, ok) == job.step = from /\ job' = [job EXCEPT !.step = to, !.ok = ok]
WriteString(sync) ==
    /\ job.step = "idle" /\ Create("temp")
    /\ job' = [Idle EXCEPT !.step = "append", !.sync = sync]
AppendString ==
    \/ Append("temp") /\ Goes("append", IF job.sync THEN "sync" ELSE "close", TRUE)
    \/ Goes("append", "close", FALSE) /\ UNCHANGED <<entries, linked, opened, listed, contentVars>>
SyncString ==
    \/ Sync("temp") /\ Goes("sync", "close", TRUE)
    \/ SyncFails("temp") /\ Goes("sync", "close", FALSE)
\* The destructor closes what Close did not, and the result does not see it.
CloseString == \E ok \in BOOLEAN : Close("temp", ok) /\ Goes("close", "closed", job.ok /\ ok)
ReturnString ==
    \/ job.ok /\ Goes("closed", "done", TRUE) /\ UNCHANGED <<entries, linked, opened, listed, contentVars>>
    \/ ~job.ok /\ Delete("temp") /\ Goes("closed", "done", FALSE)

\* fopen for reading succeeds, or the call ends there.
NewSequentialFile(f) == f \in entries /\ UNCHANGED <<entries, linked, opened, listed, contentVars>>

\* ReadFileToString, of a file that is there: fragments are appended until one is empty,
\* at the end of the file, or a read fails.
ReadFileToString ==
    /\ job.step = "idle" /\ NewSequentialFile("temp")
    /\ job' = [Idle EXCEPT !.step = "read"]
SequentialRead ==
    /\ job.step = "read"
    /\ \/ job.got < cached["temp"] /\ job' = [job EXCEPT !.got = @ + 1]
       \/ job.got = cached["temp"] /\ job' = [job EXCEPT !.step = "known"]
       \/ job' = [job EXCEPT !.step = "known", !.ok = FALSE]
    /\ UNCHANGED <<entries, linked, opened, listed, contentVars>>

\* The caller goes on, and may write or read another one.
NextString ==
    /\ job.step \in {"done", "known"} /\ job' = Idle
    /\ UNCHANGED <<entries, linked, opened, listed, contentVars>>

-----------------------------------------------------------------------------
\* The machine stops: of names and contents, what was not synced may be lost.
Crash ==
    /\ crashes < MaxCrashes /\ crashes' = crashes + 1
    /\ \E there \in SUBSET (entries \cup linked) :
          /\ linked \cap entries \subseteq there
          /\ entries' = there /\ linked' = there
    /\ stored' \in {s \in [Names -> 0..MaxLength] : \A f \in Names : stored[f] <= s[f] /\ s[f] <= cached[f]}
    /\ cached' = stored' /\ appended' = stored'
    /\ opened' = {} /\ listed' = listed /\ job' = Idle
    /\ UNCHANGED promised

Files ==
    /\ \E f \in {"table", "MANIFEST"} :
          \/ Create(f) \/ Reopen(f) \/ Append(f) \/ Flush(f) \/ Sync(f) \/ SyncFails(f) \/ Delete(f)
          \/ \E ok \in BOOLEAN : Close(f, ok)
    /\ UNCHANGED job
String ==
    \/ \E sync \in BOOLEAN : WriteString(sync)
    \/ AppendString \/ SyncString \/ CloseString \/ ReturnString
    \/ ReadFileToString \/ SequentialRead \/ NextString
Next ==
    \/ (Files \/ String) /\ UNCHANGED crashes
    \/ Crash

Spec == Init /\ [][Next]_vars

-----------------------------------------------------------------------------
\* After a Sync of the manifest that returned OK, a stop of the machine takes away none
\* of the files that were there, and no chunk of a file that a Sync promised.
SyncIsDurable ==
    /\ listed \subseteq entries \cap linked
    /\ \A f \in Names : stored[f] >= promised[f]

\* A string that was written is all there, on the disk if that was asked for; one that
\* was not leaves no file behind.  What is read without an error is what was written, if
\* that was synced: also after a stop of the machine.
StringAllOrNothing ==
    /\ job.step = "done" =>
        /\ job.ok => "temp" \in entries /\ cached["temp"] = 1 /\ (job.sync => stored["temp"] = 1)
        /\ ~job.ok => "temp" \notin entries
    /\ job.step = "known" /\ job.ok => job.got >= promised["temp"]

=============================================================================
