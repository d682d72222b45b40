------------------------------ MODULE Writers ------------------------------
(***************************************************************************)
(* LevelDB's threads: writers that queue up and commit in groups, and the  *)
(* one background thread that empties memtables and compacts.              *)
(*                                                                         *)
(* Everything runs under mutex_ except logging, writing a table, sleeping  *)
(* and waiting; an action is what one thread does between two such points. *)
(* A thread that waits on a condition variable goes on only after it was   *)
(* signalled, so that a forgotten signal shows as a thread that never      *)
(* returns.                                                                *)
(*                                                                         *)
(* A write is a number; its batch has one entry.  The call with batch 0    *)
(* stands for the NULL batch of TEST_CompactMemTable.                      *)
(***************************************************************************)
EXTENDS Integers, Sequences, SequencesExt

CONSTANTS
    Threads,
    NoThread,
    RoomInMem,     \* entries a memtable holds before it is full: write_buffer_size
    MaxGroup,      \* entries of a group: BuildBatchGroup's max_size
    SlowdownFiles, \* kL0_SlowdownWritesTrigger
    StopFiles,     \* kL0_StopWritesTrigger
    CompactFiles,  \* kL0_CompactionTrigger
    MaxWrites,     \* bound on the writes made
    MaxCalls,      \* bound on the calls of CompactRange and TEST_CompactMemTable
    MaxFaults      \* bound on failing I/O

ASSUME WritersAssumption ==
    /\ NoThread \notin Threads
    /\ {RoomInMem, MaxGroup, MaxWrites, MaxCalls, MaxFaults} \subseteq Nat
    /\ {SlowdownFiles, StopFiles, CompactFiles} \subseteq Nat \ {0}
    /\ MaxGroup > 0
    /\ CompactFiles <= StopFiles

VARIABLES
    pc,        \* where each thread is
    call,      \* the call of each thread: its write (0: NULL batch) and sync
    delayed,   \* ~allow_delay of the thread in MakeRoomForWrite
    force,     \* the argument of MakeRoomForWrite
    last,      \* last_writer of the thread that commits
    answer,    \* the status of each thread's call: "none" until it is done
    awake,     \* threads whose condition variable was signalled
    writers,   \* writers_
    log,       \* the writes in the current log file
    oldLogs,   \* the writes in earlier log files, in order
    logSynced, \* how many entries of log were synced
    wasSynced, \* the writes a Sync of a log file covered
    mem, imm,  \* the memtables: writes in the order they were inserted; <<>> is no imm
    hasImm,    \* imm_ is not NULL
    tables,    \* the writes that are in tables
    files,     \* files at level 0
    bgError,   \* ~bg_error_.ok()
    scheduled, \* bg_compaction_scheduled_
    bg,        \* the background thread: "idle", "call", "flush", "compact"
    nested,    \* the flush is one of DoCompactionWork
    manual,    \* whose manual compaction is set
    manualDone,\* manual.done of each thread
    closing,   \* shutting_down_
    order,     \* the writes in the order of their sequence numbers
    begun,     \* the number of writes made
    calls,     \* the number of the other calls
    faults

threadVars == <<pc, call, delayed, force, last, answer, manualDone>>
logVars == <<log, oldLogs, logSynced, wasSynced>>
memVars == <<mem, imm, hasImm, tables, files>>
bgVars == <<scheduled, bg, nested, manual>>
counts == <<order, begun, calls, faults>>
vars == <<threadVars, awake, writers, logVars, memVars, bgError, bgVars, closing, counts>>

NoCall == [write |-> -1, sync |-> FALSE]

Init ==
    /\ pc = [t \in Threads |-> "idle"]
    /\ call = [t \in Threads |-> NoCall]
    /\ delayed = [t \in Threads |-> FALSE]
    /\ force = [t \in Threads |-> FALSE]
    /\ last = NoThread
    /\ answer = [t \in Threads |-> "none"]
    /\ awake = {}
    /\ writers = <<>>
    /\ log = <<>> /\ oldLogs = <<>> /\ logSynced = 0 /\ wasSynced = {}
    /\ mem = <<>> /\ imm = <<>> /\ hasImm = FALSE /\ tables = <<>> /\ files = 0
    /\ bgError = FALSE
    /\ scheduled = FALSE /\ bg = "idle" /\ nested = FALSE /\ manual = NoThread
    /\ manualDone = [t \in Threads |-> FALSE]
    /\ closing = FALSE
    /\ order = <<>> /\ begun = 0 /\ calls = 0 /\ faults = 0

Fault == faults < MaxFaults /\ faults' = faults + 1

-----------------------------------------------------------------------------
\* Waiting and signalling.

\* bg_cv_.SignalAll
WaitingForBg == {t \in Threads : pc[t] \in {"roomWait", "memWait", "manualWait"}}

\* MaybeScheduleCompaction with the state it finds.
NeedsCompaction(n) == n >= CompactFiles

\* Mutant: a database that is closed still schedules work.
SchedulesWhenClosing(isImm, isManual, n, error) ==
    /\ ~error
    /\ isImm \/ isManual \/ NeedsCompaction(n)

Schedules(isImm, isManual, n, error) ==
    /\ ~closing
    /\ ~error
    /\ isImm \/ isManual \/ NeedsCompaction(n)

-----------------------------------------------------------------------------
\* DBImpl::Write.

Enter(t, c) ==
    /\ pc[t] = "idle"
    /\ ~closing
    /\ call' = [call EXCEPT ![t] = c]
    /\ delayed' = [delayed EXCEPT ![t] = FALSE]
    /\ force' = [force EXCEPT ![t] = (c.write = 0)]
    /\ answer' = [answer EXCEPT ![t] = "none"]
    /\ writers' = Append(writers, t)
    /\ pc' = [pc EXCEPT ![t] = IF writers = <<>> THEN "room" ELSE "queued"]
    /\ UNCHANGED <<last, manualDone, awake, logVars, memVars, bgError, bgVars, closing, order, faults>>

Write(t, sync) ==
    /\ begun < MaxWrites
    /\ begun' = begun + 1
    /\ Enter(t, [write |-> begun + 1, sync |-> sync])
    /\ UNCHANGED calls

\* TEST_CompactMemTable: a write of the NULL batch, then a wait.
CompactMem(t) ==
    /\ calls < MaxCalls
    /\ calls' = calls + 1
    /\ Enter(t, [write |-> 0, sync |-> FALSE])
    /\ UNCHANGED begun

Return(t, status) ==
    pc' = [pc EXCEPT ![t] = IF call[t].write = 0 /\ status = "ok" THEN "memWait0" ELSE "idle"]

\* w.cv was signalled: another thread did the write, or this one leads now.
WakeQueued(t) ==
    /\ pc[t] = "queued"
    /\ t \in awake
    /\ awake' = awake \ {t}
    /\ IF answer[t] # "none"
         THEN Return(t, answer[t])
         ELSE pc' = [pc EXCEPT ![t] = IF t = Head(writers) THEN "room" ELSE "queued"]
    /\ UNCHANGED <<call, delayed, force, last, answer, manualDone, writers, logVars, memVars, bgError,
                   bgVars, closing, counts>>

\* The entries of a sequence of batches, appended one by one; a NULL batch has none.
Entries(batches) ==
    LET upTo[i \in 0..Len(batches)] ==
            IF i = 0 THEN <<>>
            ELSE IF batches[i] = 0 THEN upTo[i - 1]
            ELSE Append(upTo[i - 1], batches[i])
    IN  upTo[Len(batches)]

\* The batches of the first n writers of the queue.
BatchesOf(n) == [i \in 1..n |-> call[writers[i]].write]

\* The group that ends with the i-th writer is not too large.
SizeFits(i) == call[writers[i]].write # 0 => Len(Entries(BatchesOf(i))) <= MaxGroup

\* Mutant: a sync write joins a group that is not synced.
FitsAnySync(i) == \A j \in 2..i : SizeFits(j)

\* A group of i writers: it holds no sync write unless its leader syncs.
Fits(i) == \A j \in 2..i : ~(call[writers[j]].sync /\ ~call[writers[1]].sync) /\ SizeFits(j)

\* The last writer of the group led by the head of the queue, as a position.
GroupEnd == CHOOSE i \in 1..Len(writers) : Fits(i) /\ (i = Len(writers) \/ ~Fits(i + 1))

\* The queue without the first n writers, and the writer that then leads it.
Rest(n) == SubSeq(writers, n + 1, Len(writers))
NewHead(n) == {writers[i] : i \in {n + 1} \cap 1..Len(writers)}

\* Mutant: the new head of the queue is not told.
FinishSilently(t, end, status) ==
    /\ writers' = Rest(end)
    /\ answer' = [u \in Threads |-> IF \E i \in 1..end : writers[i] = u THEN status ELSE answer[u]]
    /\ awake' = awake \cup {writers[i] : i \in 2..end}
    /\ Return(t, status)

\* The end of Write: writers up to the last of the group are answered, and the new
\* head of the queue is signalled.
Finish(t, end, status) ==
    /\ writers' = Rest(end)
    /\ answer' = [u \in Threads |-> IF \E i \in 1..end : writers[i] = u THEN status ELSE answer[u]]
    /\ awake' = awake \cup {writers[i] : i \in 2..end} \cup NewHead(end)
    /\ Return(t, status)

\* MakeRoomForWrite succeeded: the group is logged, or a NULL batch is done.
Proceed(t) ==
    IF call[t].write = 0
      THEN /\ Finish(t, 1, "ok")
           /\ UNCHANGED last
      ELSE /\ last' = writers[GroupEnd]
           /\ pc' = [pc EXCEPT ![t] = "log"]
           /\ UNCHANGED <<writers, answer, awake>>

\* MakeRoomForWrite: one case for each branch of its loop.
RoomError(t) ==
    /\ pc[t] = "room"
    /\ bgError
    /\ Finish(t, 1, "error")
    /\ UNCHANGED <<call, delayed, force, last, manualDone, logVars, memVars, bgError, bgVars, closing, counts>>

AllowDelay(t) == ~delayed[t] /\ call[t].write # 0

RoomDelay(t) ==
    /\ pc[t] = "room"
    /\ ~bgError
    /\ AllowDelay(t)
    /\ files >= SlowdownFiles
    /\ delayed' = [delayed EXCEPT ![t] = TRUE]
    /\ pc' = [pc EXCEPT ![t] = "sleep"]
    /\ UNCHANGED <<call, force, last, answer, manualDone, awake, writers, logVars, memVars, bgError,
                   bgVars, closing, counts>>

WakeFromSleep(t) ==
    /\ pc[t] = "sleep"
    /\ pc' = [pc EXCEPT ![t] = "room"]
    /\ UNCHANGED <<call, delayed, force, last, answer, manualDone, awake, writers, logVars, memVars,
                   bgError, bgVars, closing, counts>>

NotDelayed(t) ==
    /\ pc[t] = "room"
    /\ ~bgError
    /\ ~(AllowDelay(t) /\ files >= SlowdownFiles)

HasRoom(t) == ~force[t] /\ Len(mem) <= RoomInMem

RoomThere(t) ==
    /\ NotDelayed(t)
    /\ HasRoom(t)
    /\ Proceed(t)
    /\ UNCHANGED <<call, delayed, force, manualDone, logVars, memVars, bgError, bgVars, closing, counts>>

RoomWait(t) ==
    /\ NotDelayed(t)
    /\ ~HasRoom(t)
    /\ hasImm \/ files >= StopFiles
    /\ pc' = [pc EXCEPT ![t] = "roomWait"]
    /\ UNCHANGED <<call, delayed, force, last, answer, manualDone, awake, writers, logVars, memVars,
                   bgError, bgVars, closing, counts>>

\* Mutant: a full memtable replaces the one that is still being compacted.
RoomSwitchEarly(t) ==
    /\ NotDelayed(t)
    /\ ~HasRoom(t)
    /\ files < StopFiles
    /\ oldLogs' = oldLogs \o log
    /\ log' = <<>>
    /\ logSynced' = 0
    /\ imm' = mem
    /\ hasImm' = TRUE
    /\ mem' = <<>>
    /\ force' = [force EXCEPT ![t] = FALSE]
    /\ scheduled' = (scheduled \/ Schedules(TRUE, manual # NoThread, files, FALSE))
    /\ Proceed(t)
    /\ UNCHANGED <<call, delayed, manualDone, wasSynced, tables, files, bgError, bg, nested, manual,
                   closing, counts>>

\* A new log file and memtable; the loop then finds room.
RoomSwitch(t) ==
    /\ NotDelayed(t)
    /\ ~HasRoom(t)
    /\ ~hasImm
    /\ files < StopFiles
    /\ oldLogs' = oldLogs \o log
    /\ log' = <<>>
    /\ logSynced' = 0
    /\ imm' = mem
    /\ hasImm' = TRUE
    /\ mem' = <<>>
    /\ force' = [force EXCEPT ![t] = FALSE]
    /\ scheduled' = (scheduled \/ Schedules(TRUE, manual # NoThread, files, FALSE))
    /\ Proceed(t)
    /\ UNCHANGED <<call, delayed, manualDone, wasSynced, tables, files, bgError, bg, nested, manual,
                   closing, counts>>

\* The new log file cannot be created.
RoomSwitchFails(t) ==
    /\ NotDelayed(t)
    /\ ~HasRoom(t)
    /\ ~hasImm
    /\ files < StopFiles
    /\ Fault
    /\ Finish(t, 1, "error")
    /\ UNCHANGED <<call, delayed, force, last, manualDone, logVars, memVars, bgError, bgVars, closing,
                   order, begun, calls>>

\* bg_cv_ was signalled while the thread waited in MakeRoomForWrite.
WakeInRoom(t) ==
    /\ pc[t] = "roomWait"
    /\ t \in awake
    /\ awake' = awake \ {t}
    /\ pc' = [pc EXCEPT ![t] = "room"]
    /\ UNCHANGED <<call, delayed, force, last, answer, manualDone, writers, logVars, memVars, bgError,
                   bgVars, closing, counts>>

\* The group of the thread that commits: its size and its writes.
GroupSize == CHOOSE i \in 1..Len(writers) : writers[i] = last
GroupWrites == Entries(BatchesOf(GroupSize))

\* Outside the mutex: the record is added to the log, and synced if the leader asks.
Log(t) ==
    /\ pc[t] = "log"
    /\ log' = log \o GroupWrites
    /\ IF call[t].sync
         THEN /\ logSynced' = Len(log')
              /\ wasSynced' = wasSynced \cup ToSet(log')
         ELSE UNCHANGED <<logSynced, wasSynced>>
    /\ pc' = [pc EXCEPT ![t] = "insert"]
    /\ UNCHANGED <<call, delayed, force, last, answer, manualDone, awake, writers, oldLogs, memVars,
                   bgError, bgVars, closing, counts>>

\* AddRecord or Sync fails: nothing is inserted, sequence numbers are spent, and after
\* a failed Sync every later write fails.
LogFails(t, isSync) ==
    /\ pc[t] = "log"
    /\ isSync => call[t].sync
    /\ Fault
    /\ log' = IF isSync THEN log \o GroupWrites ELSE log
    /\ bgError' = (bgError \/ isSync)
    /\ writers' = Rest(GroupSize)
    /\ answer' = [u \in Threads |-> IF \E i \in 1..GroupSize : writers[i] = u THEN "error" ELSE answer[u]]
    /\ awake' = awake \cup {writers[i] : i \in 2..GroupSize} \cup NewHead(GroupSize)
                     \cup (IF isSync /\ ~bgError THEN WaitingForBg ELSE {})
    /\ Return(t, "error")
    /\ UNCHANGED <<call, delayed, force, last, manualDone, oldLogs, logSynced, wasSynced, memVars,
                   bgVars, closing, order, begun, calls>>

\* InsertInto and, with the mutex again, SetLastSequence and the end of Write.
Insert(t) ==
    /\ pc[t] = "insert"
    /\ mem' = mem \o GroupWrites
    /\ order' = order \o GroupWrites
    /\ Finish(t, GroupSize, "ok")
    /\ UNCHANGED <<call, delayed, force, last, manualDone, logVars, imm, hasImm, tables, files, bgError,
                   bgVars, closing, begun, calls, faults>>

-----------------------------------------------------------------------------
\* TEST_CompactMemTable after Write, and TEST_CompactRange.

MemWait(t) ==
    /\ pc[t] = "memWait0" \/ (pc[t] = "memWait" /\ t \in awake)
    /\ awake' = awake \ {t}
    /\ IF hasImm /\ ~bgError
         THEN pc' = [pc EXCEPT ![t] = "memWait"] /\ UNCHANGED answer
         ELSE /\ pc' = [pc EXCEPT ![t] = "idle"]
              /\ answer' = [answer EXCEPT ![t] = IF hasImm THEN "error" ELSE "ok"]
    /\ UNCHANGED <<call, delayed, force, last, manualDone, writers, logVars, memVars, bgError, bgVars,
                   closing, counts>>

CompactRange(t) ==
    /\ pc[t] = "idle"
    /\ ~closing
    /\ calls < MaxCalls
    /\ calls' = calls + 1
    /\ manualDone' = [manualDone EXCEPT ![t] = FALSE]
    /\ pc' = [pc EXCEPT ![t] = "manual"]
    /\ UNCHANGED <<call, delayed, force, last, answer, awake, writers, logVars, memVars, bgError, bgVars,
                   closing, order, begun, faults>>

\* The loop: done, or the compaction is set and scheduled, or the thread waits.
ManualLoop(t) ==
    /\ pc[t] = "manual" \/ (pc[t] = "manualWait" /\ t \in awake)
    /\ awake' = awake \ {t}
    /\ IF manualDone[t] \/ bgError
         THEN /\ pc' = [pc EXCEPT ![t] = "idle"]
              /\ manual' = IF manual = t THEN NoThread ELSE manual
              /\ UNCHANGED scheduled
         ELSE /\ pc' = [pc EXCEPT ![t] = "manualWait"]
              /\ manual' = IF manual = NoThread THEN t ELSE manual
              /\ scheduled' = IF manual = NoThread
                                THEN scheduled \/ Schedules(hasImm, TRUE, files, FALSE)
                                ELSE scheduled
    /\ UNCHANGED <<call, delayed, force, last, answer, manualDone, writers, logVars, memVars, bgError, bg,
                   nested, closing, counts>>

-----------------------------------------------------------------------------
\* The background thread.

\* The end of BackgroundCall: another round if there is work, and everyone is told.
EndCall(isImm, owner, n, error) ==
    /\ bg' = "idle"
    /\ nested' = FALSE
    /\ scheduled' = Schedules(isImm, owner # NoThread, n, error)
    /\ awake' = awake \cup WaitingForBg

\* BackgroundCall and the choice of BackgroundCompaction.
BackgroundCall ==
    /\ scheduled
    /\ bg = "idle"
    /\ \/ /\ ~closing /\ ~bgError
          /\ hasImm
          /\ bg' = "flush"
          /\ UNCHANGED <<scheduled, nested, awake>>
       \/ /\ ~closing /\ ~bgError
          /\ ~hasImm
          /\ manual # NoThread \/ NeedsCompaction(files)
          /\ bg' = "compact"
          /\ UNCHANGED <<scheduled, nested, awake>>
       \/ /\ closing \/ bgError \/ ~(hasImm \/ manual # NoThread \/ NeedsCompaction(files))
          /\ EndCall(hasImm, manual, files, bgError)
    /\ UNCHANGED <<threadVars, writers, logVars, memVars, bgError, manual, closing, counts>>

\* The rest of DoCompactionWork, or of BackgroundCall, after CompactMemTable.
AfterFlush(isImm, n, error) ==
    \/ /\ nested
       /\ bg' = "compact"
       /\ nested' = FALSE
       /\ awake' = awake \cup WaitingForBg
       /\ UNCHANGED scheduled
    \/ /\ ~nested
       /\ EndCall(isImm, manual, n, error)

\* CompactMemTable: the table is written outside the mutex, to level 0 or a deeper one;
\* then the logs before the current one are no longer needed.
FlushDone(toLevel0) ==
    /\ bg = "flush"
    /\ tables' = tables \o imm
    /\ imm' = <<>>
    /\ hasImm' = FALSE
    /\ oldLogs' = <<>>
    /\ files' = IF toLevel0 THEN files + 1 ELSE files
    /\ AfterFlush(FALSE, files', bgError)
    /\ UNCHANGED <<threadVars, writers, log, logSynced, wasSynced, mem, bgError, manual, closing, counts>>

FlushFails ==
    /\ bg = "flush"
    /\ Fault \/ (closing /\ UNCHANGED faults)
    /\ bgError' = TRUE
    /\ AfterFlush(TRUE, files, TRUE)
    /\ UNCHANGED <<threadVars, writers, logVars, memVars, manual, closing, order, begun, calls>>

\* DoCompactionWork finds has_imm_ set.
FlushWithin ==
    /\ bg = "compact"
    /\ hasImm
    /\ ~closing
    /\ bg' = "flush"
    /\ nested' = TRUE
    /\ UNCHANGED <<threadVars, awake, writers, logVars, memVars, bgError, scheduled, manual, closing, counts>>

\* CompactRange of the version set found no file: the manual compaction is done.
CompactNothing ==
    /\ bg = "compact"
    /\ manual # NoThread
    /\ manualDone' = [manualDone EXCEPT ![manual] = TRUE]
    /\ manual' = NoThread
    /\ EndCall(hasImm, NoThread, files, bgError)
    /\ UNCHANGED <<pc, call, delayed, force, last, answer, writers, logVars, memVars, bgError, closing,
                   counts>>

\* A compaction replaced n files of level 0; a manual one has to ask whether there is more.
CompactDone(n) ==
    /\ bg = "compact"
    /\ files' = files - n
    /\ manual' = NoThread
    /\ EndCall(hasImm, NoThread, files', bgError)
    /\ UNCHANGED <<threadVars, writers, logVars, mem, imm, hasImm, tables, bgError, closing, counts>>

CompactFails ==
    /\ bg = "compact"
    /\ Fault \/ (closing /\ UNCHANGED faults)
    /\ bgError' = TRUE
    /\ manualDone' = IF manual # NoThread THEN [manualDone EXCEPT ![manual] = TRUE] ELSE manualDone
    /\ manual' = NoThread
    /\ EndCall(hasImm, NoThread, files, TRUE)
    /\ UNCHANGED <<pc, call, delayed, force, last, answer, writers, logVars, memVars, closing, order,
                   begun, calls>>

\* ~DBImpl, once no call is in progress: it waits for the background thread.
Close ==
    /\ ~closing
    /\ \A t \in Threads : pc[t] = "idle"
    /\ closing' = TRUE
    /\ UNCHANGED <<threadVars, awake, writers, logVars, memVars, bgError, bgVars, counts>>

-----------------------------------------------------------------------------
\* No other thread is between two points at which mutex_ is released.
MutexFree(t) == \A u \in Threads \ {t} : pc[u] \notin {"room", "memWait0", "manual"}

ThreadStep(t) ==
  /\ MutexFree(t)
  /\ \/ WakeQueued(t)
     \/ RoomError(t) \/ RoomDelay(t) \/ WakeFromSleep(t) \/ RoomThere(t) \/ RoomWait(t)
     \/ RoomSwitch(t) \/ RoomSwitchFails(t) \/ WakeInRoom(t)
     \/ Log(t) \/ LogFails(t, TRUE) \/ LogFails(t, FALSE) \/ Insert(t)
     \/ MemWait(t)
     \/ ManualLoop(t)

Background ==
  /\ MutexFree(NoThread)
  /\ \/ BackgroundCall \/ FlushDone(TRUE) \/ FlushDone(FALSE) \/ FlushFails \/ FlushWithin
     \/ CompactNothing \/ (\E n \in 1..files : CompactDone(n)) \/ CompactFails

Next ==
    \/ \E t \in Threads :
        \/ MutexFree(t) /\ ((\E sync \in BOOLEAN : Write(t, sync)) \/ CompactMem(t) \/ CompactRange(t))
        \/ ThreadStep(t)
    \/ Background
    \/ Close

\* The operating system runs every thread that can run.
Fairness == (\A t \in Threads : WF_vars(ThreadStep(t))) /\ WF_vars(Background)

Spec == Init /\ [][Next]_vars /\ Fairness

-----------------------------------------------------------------------------
\* Properties.

\* At every moment each write that got a sequence number is in exactly one of the
\* tables, the memtable being written out and the current memtable, in the order of the
\* sequence numbers; a write whose memtable has not reached a table is still in a log
\* file that is kept; a write answered with success is one of them, and one answered
\* with an error is not (Write, MakeRoomForWrite and CompactMemTable together).
NothingDropped ==
    /\ order = tables \o imm \o mem
    /\ IsInjective(order)
    /\ ToSet(imm) \subseteq ToSet(oldLogs)
    /\ ToSet(mem) \subseteq ToSet(log)
    /\ \A t \in Threads :
         call[t].write > 0 /\ answer[t] # "none" =>
             (answer[t] = "ok" <=> call[t].write \in ToSet(order))

\* A write with WriteOptions::sync that was answered with success was covered by a Sync
\* of its log file, whichever thread wrote it for its caller (BuildBatchGroup).
SyncHonoured ==
    \A t \in Threads :
        call[t].sync /\ answer[t] = "ok" => call[t].write \in wasSynced

\* Every call returns: no writer is left in the queue, or waiting for room, for a
\* memtable or for a manual compaction, by a signal that was not sent.
EveryCallReturns == \A t \in Threads : pc[t] # "idle" ~> pc[t] = "idle"

\* The destructor's wait for the background thread ends (~DBImpl).
CloseEnds == closing ~> [](~scheduled /\ bg = "idle")
=============================================================================
