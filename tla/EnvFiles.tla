------------------------------ MODULE EnvFiles ------------------------------
(***************************************************************************)
(* LevelDB's PosixEnv, read side: table files opened by several threads,   *)
(* mapped while there are mappings to give away, kept open while there are *)
(* descriptors to give away, and else opened for every read.  A Limiter    *)
(* looks at its counter without its lock first.  System calls may fail.    *)
(***************************************************************************)
EXTENDS Integers, FiniteSets

CONSTANTS
    Threads,
    MmapLimit,      \* MaxMmaps()
    FdLimit         \* MaxOpenFiles()

VARIABLES
    exists,         \* the table file is in the directory
    mmapAllowed,    \* the counter of mmap_limit_
    fdAllowed,      \* the counter of fd_limit_
    fds,            \* descriptors open in the process
    regions,        \* mapped regions
    pc,             \* where a thread is in NewRandomAccessFile, or what it holds
    read            \* the result of its last Read, or "none"

vars == <<exists, mmapAllowed, fdAllowed, fds, regions, pc, read>>

Init ==
    /\ exists = TRUE
    /\ mmapAllowed = MmapLimit /\ fdAllowed = FdLimit
    /\ fds = 0 /\ regions = 0
    /\ pc = [t \in Threads |-> "none"]
    /\ read = [t \in Threads |-> "none"]

Go(t, from, to) == pc[t] = from /\ pc' = [pc EXCEPT ![t] = to]

\* open() of NewRandomAccessFile
Open(t) ==
    /\ pc[t] = "none"
    /\ \/ exists /\ fds' = fds + 1 /\ pc' = [pc EXCEPT ![t] = "opened"]
       \/ fds' = fds /\ pc' = pc
    /\ read' = [read EXCEPT ![t] = "none"]
    /\ UNCHANGED <<exists, mmapAllowed, fdAllowed, regions>>

\* mmap_limit_.Acquire(): the look without the lock, and the one with it.
LookAtMmaps(t) ==
    /\ Go(t, "opened", IF mmapAllowed <= 0 THEN "construct" ELSE "mmapLock")
    /\ UNCHANGED <<exists, mmapAllowed, fdAllowed, fds, regions, read>>
AcquireMmap(t) ==
    /\ Go(t, "mmapLock", IF mmapAllowed <= 0 THEN "construct" ELSE "mapping")
    /\ mmapAllowed' = IF mmapAllowed <= 0 THEN mmapAllowed ELSE mmapAllowed - 1
    /\ UNCHANGED <<exists, fdAllowed, fds, regions, read>>

\* Mutant: the mapping that failed is not given back.
MapKeeps(t) ==
    /\ \/ exists /\ Go(t, "mapping", "mmap") /\ regions' = regions + 1 /\ mmapAllowed' = mmapAllowed
       \/ Go(t, "mapping", "none") /\ regions' = regions /\ mmapAllowed' = mmapAllowed
    /\ fds' = fds - 1
    /\ UNCHANGED <<exists, fdAllowed, read>>

\* GetFileSize, mmap, close: the size is asked by name, and the file may be gone.
Map(t) ==
    /\ \/ exists /\ Go(t, "mapping", "mmap") /\ regions' = regions + 1 /\ mmapAllowed' = mmapAllowed
       \/ Go(t, "mapping", "none") /\ regions' = regions /\ mmapAllowed' = mmapAllowed + 1
    /\ fds' = fds - 1
    /\ UNCHANGED <<exists, fdAllowed, read>>

\* The constructor of PosixRandomAccessFile: fd_limit_.Acquire(), and close() without one.
LookAtFds(t) ==
    /\ Go(t, "construct", IF fdAllowed <= 0 THEN "temporary" ELSE "fdLock")
    /\ fds' = IF fdAllowed <= 0 THEN fds - 1 ELSE fds
    /\ UNCHANGED <<exists, mmapAllowed, fdAllowed, regions, read>>
AcquireFd(t) ==
    /\ Go(t, "fdLock", IF fdAllowed <= 0 THEN "temporary" ELSE "fd")
    /\ fds' = IF fdAllowed <= 0 THEN fds - 1 ELSE fds
    /\ fdAllowed' = IF fdAllowed <= 0 THEN fdAllowed ELSE fdAllowed - 1
    /\ UNCHANGED <<exists, mmapAllowed, regions, read>>

\* Read of a region needs no system call; pread, and the open() before it, may fail.
Read(t) ==
    /\ pc[t] \in {"mmap", "fd", "temporary"} /\ read[t] = "none"
    /\ \/ (pc[t] = "temporary" => exists) /\ read' = [read EXCEPT ![t] = "ok"]
       \/ pc[t] # "mmap" /\ read' = [read EXCEPT ![t] = "error"]
    /\ UNCHANGED <<exists, mmapAllowed, fdAllowed, fds, regions, pc>>

\* The destructors.
Close(t) ==
    /\ pc[t] \in {"mmap", "fd", "temporary"}
    /\ pc' = [pc EXCEPT ![t] = "none"]
    /\ mmapAllowed' = IF pc[t] = "mmap" THEN mmapAllowed + 1 ELSE mmapAllowed
    /\ regions' = IF pc[t] = "mmap" THEN regions - 1 ELSE regions
    /\ fdAllowed' = IF pc[t] = "fd" THEN fdAllowed + 1 ELSE fdAllowed
    /\ fds' = IF pc[t] = "fd" THEN fds - 1 ELSE fds
    /\ UNCHANGED <<exists, read>>

\* DeleteFile
Delete ==
    /\ exists /\ exists' = FALSE
    /\ UNCHANGED <<mmapAllowed, fdAllowed, fds, regions, pc, read>>

Next ==
    \/ \E t \in Threads :
          \/ Open(t) \/ LookAtMmaps(t) \/ AcquireMmap(t) \/ Map(t)
          \/ LookAtFds(t) \/ AcquireFd(t) \/ Read(t) \/ Close(t)
    \/ Delete

Spec == Init /\ [][Next]_vars

-----------------------------------------------------------------------------
At(where) == Cardinality({t \in Threads : pc[t] \in where})

\* However threads open, fail, read and close: the limits hold, every mapping and every
\* descriptor belongs to a file that is open or being opened, and what is not used can
\* still be given away.
LimitsKept ==
    /\ regions = At({"mmap"}) /\ regions <= MmapLimit
    /\ mmapAllowed = MmapLimit - At({"mmap", "mapping"}) /\ mmapAllowed >= 0
    /\ fdAllowed = FdLimit - At({"fd"}) /\ fdAllowed >= 0
    /\ fds = At({"opened", "mmapLock", "mapping", "construct", "fdLock", "fd"})

=============================================================================
