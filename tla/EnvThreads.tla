----------------------------- MODULE EnvThreads -----------------------------
(***************************************************************************)
(* LevelDB's PosixEnv between threads and processes: the queue of the      *)
(* background thread, and the lock on a database's LOCK file, which is an  *)
(* entry in a table of the process and a lock of the kernel.  The kernel   *)
(* drops a lock of a process when the process closes any descriptor of the *)
(* file.                                                                   *)
(***************************************************************************)
EXTENDS Integers, Sequences, FiniteSets

CONSTANTS
    Processes,
    Openers,        \* threads of each process that open the database
    MaxItems,       \* bound on the calls of Schedule
    MaxLocks        \* bound on the calls of LockFile

VARIABLES
    queue, started, bg, ran, scheduled,     \* Schedule and BGThread
    lockedFiles,    \* the processes whose locks_ has the file
    kernel,         \* the processes, at most one, with the kernel's lock
    pc,             \* where an opener is in LockFile or UnlockFile
    calls,          \* of LockFile
    shaken          \* the processes that closed a descriptor of the file while they held it

queueVars == <<queue, started, bg, ran, scheduled>>
lockVars == <<lockedFiles, kernel, pc, calls, shaken>>
vars == <<queueVars, lockVars>>

Init ==
    /\ queue = <<>> /\ started = FALSE /\ bg = "none" /\ ran = <<>> /\ scheduled = 0
    /\ lockedFiles = {} /\ kernel = {}
    /\ pc = [x \in Processes \X Openers |-> "idle"]
    /\ calls = 0 /\ shaken = {}

-----------------------------------------------------------------------------
\* Mutant: the look at the queue comes after the push.
ScheduleLate ==
    /\ scheduled < MaxItems
    /\ scheduled' = scheduled + 1
    /\ queue' = Append(queue, scheduled')
    /\ started' = TRUE
    /\ bg' = IF ~started THEN "lock" ELSE IF queue' = <<>> /\ bg = "wait" THEN "lock" ELSE bg
    /\ UNCHANGED <<ran, lockVars>>

\* Schedule, under mu_: the thread is started by the first call, and may be waiting when
\* the queue is empty.
Schedule ==
    /\ scheduled < MaxItems
    /\ scheduled' = scheduled + 1
    /\ queue' = Append(queue, scheduled')
    /\ started' = TRUE
    /\ bg' = IF ~started THEN "lock" ELSE IF queue = <<>> /\ bg = "wait" THEN "lock" ELSE bg
    /\ UNCHANGED <<ran, lockVars>>

\* BGThread with mu_: wait, or take the first item.
Take ==
    /\ bg = "lock"
    /\ bg' = IF queue = <<>> THEN "wait" ELSE "run"
    /\ ran' = IF queue = <<>> THEN ran ELSE Append(ran, Head(queue))
    /\ queue' = IF queue = <<>> THEN queue ELSE Tail(queue)
    /\ UNCHANGED <<started, scheduled, lockVars>>

\* pthread_cond_wait may return without a signal.
Spurious == bg = "wait" /\ bg' = "lock" /\ UNCHANGED <<queue, started, ran, scheduled, lockVars>>

\* (*function)(arg), without mu_.
Run == bg = "run" /\ bg' = "lock" /\ UNCHANGED <<queue, started, ran, scheduled, lockVars>>

-----------------------------------------------------------------------------
Step(p, o, from, to) == pc[<<p, o>>] = from /\ pc' = [pc EXCEPT ![<<p, o>>] = to]
Holders(p) == {o \in Openers : pc[<<p, o>>] = "held"}

\* close() of a descriptor of the LOCK file.
CloseFd(p) ==
    /\ kernel' = kernel \ {p}
    /\ shaken' = IF Holders(p) # {} THEN shaken \cup {p} ELSE shaken

OpenFd(p, o) ==
    /\ calls < MaxLocks /\ calls' = calls + 1
    /\ Step(p, o, "idle", "insert")
    /\ UNCHANGED <<queueVars, lockedFiles, kernel, shaken>>

\* Mutant: the table of the process is not asked.
InsertAlways(p, o) ==
    /\ Step(p, o, "insert", "fcntl")
    /\ lockedFiles' = lockedFiles \cup {p}
    /\ UNCHANGED <<queueVars, calls, kernel, shaken>>

\* locks_.Insert
Insert(p, o) ==
    /\ IF p \in lockedFiles
         THEN Step(p, o, "insert", "idle") /\ CloseFd(p) /\ UNCHANGED lockedFiles
         ELSE /\ Step(p, o, "insert", "fcntl")
              /\ lockedFiles' = lockedFiles \cup {p}
              /\ UNCHANGED <<kernel, shaken>>
    /\ UNCHANGED <<queueVars, calls>>

\* LockOrUnlock(fd, true); on failure, close and locks_.Remove.
Fcntl(p, o) ==
    /\ IF kernel \subseteq {p}
         THEN Step(p, o, "fcntl", "held") /\ kernel' = {p} /\ UNCHANGED <<lockedFiles, shaken>>
         ELSE /\ Step(p, o, "fcntl", "idle")
              /\ CloseFd(p)
              /\ lockedFiles' = lockedFiles \ {p}
    /\ UNCHANGED <<queueVars, calls>>

\* UnlockFile: the kernel's lock, then the table, then the descriptor.
Unlock(p, o) ==
    /\ Step(p, o, "held", "remove")
    /\ kernel' = kernel \ {p}
    /\ UNCHANGED <<queueVars, lockedFiles, calls, shaken>>
Remove(p, o) ==
    /\ Step(p, o, "remove", "close")
    /\ lockedFiles' = lockedFiles \ {p}
    /\ UNCHANGED <<queueVars, kernel, calls, shaken>>
Closed(p, o) ==
    /\ Step(p, o, "close", "idle")
    /\ CloseFd(p)
    /\ UNCHANGED <<queueVars, lockedFiles, calls>>

\* The process exits, and another one takes its place.
Exit(p) ==
    /\ pc' = [x \in Processes \X Openers |-> IF x[1] = p THEN "idle" ELSE pc[x]]
    /\ lockedFiles' = lockedFiles \ {p} /\ kernel' = kernel \ {p} /\ shaken' = shaken \ {p}
    /\ UNCHANGED <<queueVars, calls>>

NextQueue == Schedule \/ Take \/ Spurious \/ Run
NextLock ==
    \/ \E p \in Processes, o \in Openers :
          OpenFd(p, o) \/ Insert(p, o) \/ Fcntl(p, o) \/ Unlock(p, o) \/ Remove(p, o) \/ Closed(p, o)
    \/ \E p \in Processes : Exit(p)
Next == NextQueue \/ NextLock

Spec == Init /\ [][Next]_vars

-----------------------------------------------------------------------------
\* No item is lost, run twice or run out of order, and the background thread never
\* sleeps while there is one.
ScheduledRuns ==
    /\ ran \o queue = [i \in 1..scheduled |-> i]
    /\ queue # <<>> => bg \in {"lock", "run"}

\* One thread of a process holds the database at most; two processes hold it only after
\* one of them closed another descriptor of the file, in an attempt to open it again or
\* behind an UnlockFile: then the kernel has dropped its lock.
LockExcludes ==
    /\ \A p \in Processes : Cardinality(Holders(p)) <= 1
    /\ \A p, q \in Processes : p # q /\ Holders(p) # {} /\ Holders(q) # {} => {p, q} \cap shaken # {}

=============================================================================
