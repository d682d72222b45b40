-------------------------- MODULE RecoveryProofs --------------------------
(***************************************************************************)
(* Proofs about Recovery, for any number of writes, deaths, failures and   *)
(* iterators and any size of a memtable: LevelDB keeps what Durable        *)
(* promises, opens again, keeps the tables that are in use and gives out   *)
(* each sequence number once, at whichever step the process or the machine *)
(* dies.  Logs and manifests are only reused whole (ReuseAny is FALSE).    *)
(*                                                                         *)
(* The inductive invariant looks at every state of the version set that    *)
(* the current manifest may lead to after the machine died: each leads to  *)
(* the same contents, and to every write that returned with sync even if   *)
(* the logs lose what was not synced.  What LogAndApply is about to write  *)
(* leads to the same contents, too, before it is written.                  *)
(***************************************************************************)
EXTENDS Recovery, SequenceLemmas

-----------------------------------------------------------------------------
\* The types of the state.

\* An entry, a manifest record, a file of records, a version set.
Entry == [w : Nat, seq : Nat]
Edit == [add : SUBSET Nat, del : SUBSET Nat, log : Int, next : Int, last : Int]
FileOf(R) == [recs : Seq(R), synced : Nat, torn : Int]
Versions == [files : SUBSET Nat, log : Nat, next : Nat, last : Nat, manifest : Nat, open : BOOLEAN]

\* What the disk holds.
DiskTypes ==
    /\ current \in Nat
    /\ manifests \in [DOMAIN manifests -> FileOf(Edit)]
    /\ logs \in [DOMAIN logs -> FileOf(Entry)] /\ DOMAIN logs \subseteq Nat \ {0}
    /\ tables \in [DOMAIN tables -> SUBSET Entry] /\ DOMAIN tables \subseteq Nat

\* What the process holds.
MemoryTypes ==
    /\ mem \in Seq(Entry) /\ imm \in Seq(Entry) /\ hasImm \in BOOLEAN /\ logNumber \in Nat
    /\ vs \in Versions
    /\ edit \in Edit /\ record \in Edit /\ out \in Nat
    /\ todo \in SUBSET Nat /\ reuse \in BOOLEAN /\ save \in BOOLEAN /\ maxSeq \in Nat
    /\ bgError \in BOOLEAN /\ written \in Nat /\ pins \in Nat

\* A file holds half a record only as its last one, and then is on the disk.
Sound(file) ==
    /\ file.synced \in 0..Len(file.recs)
    /\ file.torn # -1 => file.torn = Len(file.recs) /\ file.synced = Len(file.recs)

\* All files are sound.
FilesSound ==
    /\ \A n \in DOMAIN manifests : Sound(manifests[n])
    /\ \A n \in DOMAIN logs : Sound(logs[n])

-----------------------------------------------------------------------------
\* What the state s of a version set holds: its tables and the logs from s.log on.

TableEntries(F) == UNION {tables[n] : n \in F}
LogEntries(L) == UNION {ToSet(logs[n].recs) : n \in LogsFrom(L)}
LogSynced(L) == UNION {ToSet(SubSeq(logs[n].recs, 1, logs[n].synced)) : n \in LogsFrom(L)}
Holds(s) == TableEntries(s.files) \cup LogEntries(s.log)

\* The state the current manifest leads to, and those it may lead to after the machine
\* died.
Now == Recovered(Manifest.recs)
States == {Recovered(SubSeq(Manifest.recs, 1, k)) :
             k \in {n \in Manifest.synced..Len(Manifest.recs) : n > 0}}

\* The entries in the database.
Held ==
    IF pc = "up" THEN TableEntries(vs.files) \cup ToSet(imm) \cup ToSet(mem)
    ELSE IF current = 0 \/ Manifest.recs = <<>> THEN {}
    ELSE Holds(Now)

\* State s leads to them, and without what was not synced to the writes that were.
Good(s) ==
    /\ s.log \in Nat /\ s.next \in Nat /\ s.last \in Nat /\ s.log < s.next
    /\ s.files \subseteq DOMAIN tables
    /\ \A f \in s.files : f < s.next
    /\ \A e \in TableEntries(s.files) : e.seq <= s.last
    /\ Holds(s) = Held
    /\ safe \subseteq {e.w : e \in TableEntries(s.files) \cup LogSynced(s.log)}
    /\ pc = "up" => s.log <= logNumber

\* Before a manifest is on the disk nothing was written.
Fresh == current = 0 \/ (current = 1 /\ Manifest.synced = 0)

\* Nothing was written.
Blank ==
    /\ DOMAIN tables = {} /\ safe = {}
    /\ \A n \in DOMAIN logs : logs[n].recs = <<>>

\* Whatever the current manifest may lead to is good.
DiskInv ==
    /\ Fresh => Blank
    /\ current # 0 =>
          /\ current \in DOMAIN manifests
          /\ Manifest.synced = 0 => current = 1
          /\ \A s \in States : Good(s) /\ current < s.next /\ s.next <= Now.next

\* Sequence numbers order the writes.
OrderInv == \A e \in Held : e.w <= written /\ \A f \in Held : e.seq < f.seq <=> e.w < f.w

-----------------------------------------------------------------------------
\* Where the process is.

\* Not open; opened; in LogAndApply.
Closed == {"down", "create", "createCurrent", "recover", "corrupt"}
Open == {"logs", "saving", "up"}
Applying == {"apply", "record", "sync", "current", "install"}

\* The manifest of NewDB.
FirstManifest == AppendTo(EmptyFile, NewDBEdit)

\* What each step of opening relies on.
PhaseInv ==
    /\ pc \in Closed \cup Open \cup {"failed"}
    /\ pc \in {"create", "createCurrent"} => current = 0 /\ ~reuse
    /\ pc = "createCurrent" => 1 \in DOMAIN manifests /\ manifests[1] = FirstManifest
    /\ pc \notin {"down", "create", "createCurrent"} => current # 0
    /\ pc = "corrupt" => current = 1
    /\ pc \in {"recover", "logs"} /\ reuse => Whole
    /\ pc \in Closed =>
          /\ mem = <<>> /\ logNumber = 0 /\ maxSeq = 0
          /\ edit = EmptyEdit
    /\ pc \in Closed \cup {"logs", "saving"} =>
          ~bgError /\ pinned = {} /\ pending = {} /\ imm = <<>> /\ ~hasImm

\* What the background thread does in each of them.
StepInv ==
    /\ pc \in Closed \cup {"logs", "failed"} => bg = "idle"
    /\ pc = "saving" => job = "open" /\ bg \in Applying
    /\ pc = "up" => bg \in (Applying \ {"current"}) \cup {"idle", "build", "delete"}
    /\ pc = "up" /\ bg \in Applying \cup {"build"} => job \in {"flush", "compact"}
    /\ pc = "up" /\ bg \in Applying \cup {"build"} /\ job = "flush" => hasImm
    /\ bgError => bg = "idle"
    /\ bg \in {"idle", "delete"} => pending = {}
    /\ pending \subseteq {out}

\* Reading the logs: those done are in the new tables, or in mem if they go on being
\* used.
Done == LogsFrom(vs.log) \ todo
DoneEntries == UNION {ToSet(logs[n].recs) : n \in Done \ {logNumber}}

\* RecoverLogFile has read the logs that are not in todo.
LogsInv ==
    /\ Manifest.recs # <<>>
    /\ vs.files = Now.files /\ vs.log = Now.log /\ vs.last = Now.last
    /\ vs.manifest = IF reuse THEN current ELSE Now.next
    /\ vs.open = reuse /\ (~save => reuse /\ edit.add = {})
    /\ todo \subseteq LogsFrom(vs.log)
    /\ \A d \in Done : d < vs.next /\ \A t \in todo : d < t
    /\ edit.del = {} /\ edit.log = -1
    /\ edit.add \subseteq DOMAIN tables
    /\ \A f \in edit.add : f < vs.next
    /\ TableEntries(edit.add) = DoneEntries
    /\ \A d \in Done : \A e \in ToSet(logs[d].recs) : e.seq <= maxSeq
    /\ logNumber = 0 => mem = <<>>
    /\ logNumber # 0 =>
          /\ logNumber \in Done /\ todo = {} /\ reuse
          /\ mem = logs[logNumber].recs
          /\ \A n \in DOMAIN logs : n <= logNumber

\* File numbers that were not given out yet are not used.
NextInv ==
    /\ Now.next <= vs.next
    /\ vs.manifest < vs.next /\ current < vs.next

\* The memtable is the latest log.
MemInv ==
    /\ logNumber \in DOMAIN logs /\ logNumber < vs.next
    /\ mem = logs[logNumber].recs /\ logs[logNumber].torn = -1
    /\ \A n \in DOMAIN logs : n <= logNumber
    /\ \A e \in Held : e.seq <= vs.last

\* What LogAndApply makes of the current version.
Target ==
    LET log == IF edit.log = -1 THEN vs.log ELSE edit.log
    IN  [files |-> (vs.files \ edit.del) \cup edit.add,
         log |-> log,
         next |-> IF bg = "apply" THEN vs.next ELSE record.next,
         last |-> IF bg = "apply" THEN vs.last ELSE record.last]

\* The manifest LogAndApply writes.
Written == manifests[vs.manifest]

\* LogAndApply: what it will write, or has written, leads to the contents.
ApplyInv ==
    /\ \A s \in {Target} : Good(s) /\ vs.manifest < s.next /\ s.next <= vs.next
    /\ bg # "apply" =>
          /\ record.add = edit.add /\ record.del = edit.del /\ record.log = Target.log
          /\ vs.manifest \in DOMAIN manifests /\ Written.torn = -1
    /\ bg = "record" =>
          /\ Recovered(Written.recs).files = vs.files
          /\ vs.open => Now.next <= record.next
    /\ bg \in {"sync", "current", "install"} => Recovered(Written.recs) = Target /\ Written.recs # <<>>
    /\ bg \in {"current", "install"} => Written.synced = Len(Written.recs)
    /\ bg = "current" => ~vs.open
    /\ vs.manifest # 0
    /\ vs.open \/ bg = "install" => vs.manifest = current
    /\ ~vs.open /\ bg # "install" => vs.manifest # current

\* LogAndApply of Open.
SavingInv ==
    /\ MemInv
    /\ edit.log = logNumber /\ edit.del = {}

\* The older logs are the immutable memtable.
ImmInv ==
    /\ vs.log <= logNumber
    /\ UNION {ToSet(logs[n].recs) : n \in LogsFrom(vs.log) \ {logNumber}} = ToSet(imm)
    /\ ~hasImm => imm = <<>>

\* The tables in use are there.
LiveInv ==
    /\ vs.files \subseteq DOMAIN tables /\ \A f \in vs.files : f < vs.next
    /\ \A v \in pinned : v \subseteq DOMAIN tables /\ \A f \in v : f < vs.next
    /\ pins = 0 => pinned = {}
    /\ bg = "idle" /\ ~bgError /\ pins = 0 => DOMAIN tables \subseteq vs.files

\* The table being built is in no version.
BuildInv ==
    /\ bg = "build" =>
          /\ out \in DOMAIN tables /\ out < vs.next /\ Now.next <= out
          /\ out \notin vs.files /\ edit = EmptyEdit
          /\ \A v \in pinned : out \notin v
    /\ bg \in Applying => (edit.log = IF job = "flush" THEN logNumber ELSE -1)

\* The database is open.
UpInv ==
    /\ vs.open /\ current = vs.manifest /\ ~Fresh
    /\ MemInv /\ ImmInv /\ LiveInv /\ BuildInv

\* Nothing is being applied: the manifest leads to the current version, and is on the
\* disk.
Settled ==
    /\ Manifest.synced = Len(Manifest.recs) /\ Manifest.torn = -1 /\ Manifest.recs # <<>>
    /\ Now.files = vs.files /\ Now.log = vs.log

\* When that is so.
Settling == pc \in {"saving", "up"} /\ vs.open /\ bg \notin {"sync", "install"} /\ ~bgError

\* The inductive invariant.
IInv ==
    /\ DiskTypes /\ MemoryTypes /\ FilesSound
    /\ PhaseInv /\ StepInv
    /\ DiskInv /\ OrderInv
    /\ pc \in Open => NextInv
    /\ pc = "logs" => LogsInv
    /\ bg \in Applying => ApplyInv
    /\ pc = "saving" => SavingInv
    /\ pc = "up" => UpInv
    /\ Settling => Settled

-----------------------------------------------------------------------------
\* Reading a manifest.

\* The loop of Recovered, as a function of how many records it has read.
RecoveredUpTo(recs, n, f) ==
    f = [i \in 0..n |-> IF i = 0 THEN NoRecord ELSE ApplyRecord(f[i - 1], recs[i])]

\* The loop comes to an end for every number of records.
LEMMA RecoveredDefined ==
    ASSUME NEW recs, NEW n \in Nat
    PROVE  \E f : RecoveredUpTo(recs, n, f)
<1> DEFINE S == {m \in Nat : \E f : RecoveredUpTo(recs, m, f)}
<1>1. 0 \in S
  <2> DEFINE f == [i \in 0..0 |-> NoRecord]
  <2>1. RecoveredUpTo(recs, 0, f)
    BY DEF RecoveredUpTo
  <2> QED
    BY <2>1
<1>2. ASSUME NEW m \in S
      PROVE  m + 1 \in S
  <2>1. PICK f : RecoveredUpTo(recs, m, f)
    OBVIOUS
  <2> DEFINE g == [i \in 0..(m + 1) |->
                     IF i # m + 1 THEN f[i] ELSE ApplyRecord(f[m], recs[i])]
  <2>2. \A i \in 0..m : f[i] = IF i = 0 THEN NoRecord ELSE ApplyRecord(f[i - 1], recs[i])
    BY <2>1 DEF RecoveredUpTo
  <2>3. \A i \in 0..m : g[i] = f[i]
    OBVIOUS
  <2>4. g[m + 1] = ApplyRecord(g[m], recs[m + 1])
    BY <2>3
  <2>5. ASSUME NEW i \in 0..(m + 1)
        PROVE  g[i] = IF i = 0 THEN NoRecord ELSE ApplyRecord(g[i - 1], recs[i])
    <3> HIDE DEF g
    <3>1. CASE i = m + 1
      BY <2>4, <3>1
    <3>2. CASE i \in 0..m
      <4>1. i # 0 => i - 1 \in 0..m
        BY <3>2
      <4> QED
        BY <2>2, <2>3, <3>2, <4>1
    <3> QED
      BY <3>1, <3>2
  <2>6. RecoveredUpTo(recs, m + 1, g)
    BY <2>5 DEF RecoveredUpTo
  <2> QED
    BY <2>6
<1>3. S \in SUBSET Nat
  OBVIOUS
<1>4. S = Nat
  <2> HIDE DEF S
  <2> QED
    BY <1>1, <1>2, <1>3, SetInduction
<1> QED
  BY <1>4

\* What Recovered returns is the last value of the loop.
LEMMA RecoveredLoop ==
    ASSUME NEW recs, Len(recs) \in Nat
    PROVE  \E f : RecoveredUpTo(recs, Len(recs), f) /\ Recovered(recs) = f[Len(recs)]
<1> DEFINE f == CHOOSE g : RecoveredUpTo(recs, Len(recs), g)
<1>1. RecoveredUpTo(recs, Len(recs), f)
  <2>1. \E g : RecoveredUpTo(recs, Len(recs), g)
    BY RecoveredDefined
  <2> QED
    BY <2>1, Zenon
<1>2. Recovered(recs) = f[Len(recs)]
  BY Zenon DEF Recovered, RecoveredUpTo
<1> QED
  BY <1>1, <1>2

\* A manifest without records, and with one more.
LEMMA RecoveredEmpty == Recovered(<<>>) = NoRecord
<1>1. Len(<<>>) = 0
  OBVIOUS
<1>2. PICK f : RecoveredUpTo(<<>>, Len(<<>>), f) /\ Recovered(<<>>) = f[Len(<<>>)]
  BY <1>1, RecoveredLoop
<1> QED
  BY <1>1, <1>2 DEF RecoveredUpTo

\* One more record is applied to what the others lead to.
LEMMA RecoveredAppend ==
    ASSUME NEW recs \in Seq(Edit), NEW r \in Edit
    PROVE  Recovered(Append(recs, r)) = ApplyRecord(Recovered(recs), r)
<1> DEFINE more == Append(recs, r)
           n == Len(recs)
<1>1. n \in Nat /\ Len(more) = n + 1 /\ more[n + 1] = r /\ \A i \in 1..n : more[i] = recs[i]
  BY AppendProperties, LenProperties
<1>2. PICK f : RecoveredUpTo(recs, n, f) /\ Recovered(recs) = f[n]
  BY <1>1, RecoveredLoop
<1>3. PICK g : RecoveredUpTo(more, n + 1, g) /\ Recovered(more) = g[n + 1]
  <2>1. Len(more) \in Nat
    BY <1>1
  <2> HIDE DEF more
  <2> QED
    BY <1>1, <2>1, RecoveredLoop
<1> HIDE DEF more, n
<1>4. \A i \in 0..n : f[i] = IF i = 0 THEN NoRecord ELSE ApplyRecord(f[i - 1], recs[i])
  BY <1>2, Zenon DEF RecoveredUpTo
<1>5. \A i \in 0..(n + 1) : g[i] = IF i = 0 THEN NoRecord ELSE ApplyRecord(g[i - 1], more[i])
  BY <1>3, Zenon DEF RecoveredUpTo
<1> DEFINE S == {m \in Nat : m <= n => g[m] = f[m]}
<1>6. 0 \in S
  BY <1>1, <1>4, <1>5
<1>7. ASSUME NEW m \in S
      PROVE  m + 1 \in S
  <2>1. CASE m + 1 <= n
    <3>1. m + 1 \in 1..n /\ m + 1 \in 0..n /\ m + 1 \in 0..(n + 1) /\ m + 1 # 0 /\ (m + 1) - 1 = m
      BY <1>1, <2>1
    <3>2. g[m] = f[m]
      BY <1>1, <2>1
    <3>3. g[m + 1] = ApplyRecord(g[m], more[m + 1])
      BY <1>5, <3>1
    <3>4. f[m + 1] = ApplyRecord(f[m], recs[m + 1])
      BY <1>4, <3>1
    <3> QED
      BY <1>1, <3>1, <3>2, <3>3, <3>4
  <2> QED
    BY <2>1
<1>8. S \in SUBSET Nat
  OBVIOUS
<1>9. n \in S
  <2> HIDE DEF S
  <2> QED
    BY <1>1, <1>6, <1>7, <1>8, SetInduction
<1>10. g[n + 1] = ApplyRecord(g[n], more[n + 1])
  <2>1. n + 1 \in 0..(n + 1) /\ n + 1 # 0 /\ (n + 1) - 1 = n
    BY <1>1
  <2> QED
    BY <1>5, <2>1
<1>11. g[n] = f[n]
  BY <1>1, <1>9
<1> QED
  BY <1>1, <1>2, <1>3, <1>10, <1>11 DEF more

-----------------------------------------------------------------------------
\* Memtables of a log.

\* What a quotient is.
LEMMA Quotient ==
    ASSUME NEW a \in Nat, NEW r \in Nat, r > 0
    PROVE  /\ a \div r \in Nat
           /\ r * (a \div r) <= a /\ a < r * (a \div r) + r
OBVIOUS

\* Every entry of a log goes to one of its memtables.
LEMMA Chunks ==
    ASSUME NEW n \in Nat
    PROVE  /\ MemTables(n) \in Nat
           /\ n = 0 => MemTables(n) = 0
           /\ \A j \in 1..n : (j - 1) \div (RoomInMem + 1) \in 0..(MemTables(n) - 1)
<1> DEFINE r == RoomInMem + 1
           q == (n + RoomInMem) \div r
<1>1. r \in Nat /\ r > 0 /\ RoomInMem \in Nat /\ RoomInMem = r - 1
  BY RecoveryAssumption
<1>2. q \in Nat /\ r * q <= n + RoomInMem /\ n + RoomInMem < r * q + r
  <2> HIDE DEF r
  <2> QED
    BY <1>1, Quotient
<1> HIDE DEF r, q
<1>3. n = 0 => q = 0
  <2> SUFFICES ASSUME n = 0, q >= 1
               PROVE  FALSE
    BY <1>2
  <2>1. r * q >= r
    BY <1>1, <1>2
  <2> QED
    BY <1>1, <1>2, <2>1
<1>4. ASSUME NEW j \in 1..n
      PROVE  (j - 1) \div r \in 0..(q - 1)
  <2> DEFINE p == (j - 1) \div r
  <2>1. p \in Nat /\ r * p <= j - 1
    BY <1>1, Quotient
  <2> HIDE DEF p
  <2>2. r * p < r * q
    <3>1. r * p \in Int /\ r * q \in Int
      BY <1>1, <1>2, <2>1
    <3> QED
      BY <1>1, <1>2, <2>1, <3>1
  <2>3. p < q
    <3> SUFFICES ASSUME p >= q
                 PROVE  FALSE
      BY <1>2, <2>1
    <3>1. r * p >= r * q
      BY <1>1, <1>2, <2>1
    <3> QED
      BY <1>1, <1>2, <2>1, <2>2, <3>1
  <2> QED
    BY <1>2, <2>1, <2>3 DEF p
<1> QED
  BY <1>2, <1>3, <1>4 DEF MemTables, r, q

-----------------------------------------------------------------------------
\* Files.

\* A file that was just created.
LEMMA EmptyFileIs ==
    ASSUME NEW R
    PROVE  /\ EmptyFile \in FileOf(R) /\ Sound(EmptyFile)
           /\ EmptyFile.recs = <<>> /\ EmptyFile.synced = 0 /\ EmptyFile.torn = -1
<1>1. EmptyFile.recs = <<>> /\ EmptyFile.synced = 0 /\ EmptyFile.torn = -1
  BY DEF EmptyFile
<1>2. EmptyFile \in FileOf(R)
  BY DEF EmptyFile, FileOf
<1> QED
  BY <1>1, <1>2 DEF Sound

\* A file with one more record, and on the disk.
LEMMA Appended ==
    ASSUME NEW R, NEW file \in FileOf(R), NEW r \in R
    PROVE  /\ AppendTo(file, r) = [recs |-> Append(file.recs, r), synced |-> file.synced, torn |-> file.torn]
           /\ AppendTo(file, r) \in FileOf(R)
           /\ Sound(file) /\ file.torn = -1 => Sound(AppendTo(file, r))
<1>1. file.recs \in Seq(R) /\ file.synced \in Nat /\ file.torn \in Int /\ Len(file.recs) \in Nat
  BY LenProperties DEF FileOf
<1>2. Append(file.recs, r) \in Seq(R) /\ Len(Append(file.recs, r)) = Len(file.recs) + 1
  BY <1>1, OneMore
<1>3. AppendTo(file, r) = [recs |-> Append(file.recs, r), synced |-> file.synced, torn |-> file.torn]
  <2>1. PICK x \in Seq(R) : x = Append(file.recs, r)
    BY <1>2
  <2>2. [file EXCEPT !.recs = x] = [recs |-> x, synced |-> file.synced, torn |-> file.torn]
    BY DEF FileOf
  <2> QED
    BY <2>1, <2>2 DEF AppendTo
<1>4. AppendTo(file, r) \in FileOf(R)
  BY <1>1, <1>2, <1>3 DEF FileOf
<1>5. Sound(file) /\ file.torn = -1 => Sound(AppendTo(file, r))
  BY <1>1, <1>2, <1>3 DEF Sound
<1> QED
  BY <1>3, <1>4, <1>5

\* A file after a sync.
LEMMA SyncedIs ==
    ASSUME NEW R, NEW file \in FileOf(R)
    PROVE  /\ Synced(file) = [recs |-> file.recs, synced |-> Len(file.recs), torn |-> file.torn]
           /\ Synced(file) \in FileOf(R)
           /\ Sound(file) => Sound(Synced(file))
<1>1. file.recs \in Seq(R) /\ file.torn \in Int /\ Len(file.recs) \in Nat
  BY LenProperties DEF FileOf
<1>2. Synced(file) = [recs |-> file.recs, synced |-> Len(file.recs), torn |-> file.torn]
  <2>1. PICK x \in Nat : x = Len(file.recs)
    BY <1>1
  <2>2. [file EXCEPT !.synced = x] = [recs |-> file.recs, synced |-> x, torn |-> file.torn]
    BY DEF FileOf
  <2> QED
    BY <2>1, <2>2 DEF Synced
<1>3. Synced(file) \in FileOf(R)
  BY <1>1, <1>2 DEF FileOf
<1>4. Sound(file) => Sound(Synced(file))
  BY <1>1, <1>2 DEF Sound
<1> QED
  BY <1>2, <1>3, <1>4

\* All records of a sound file can be read.
LEMMA ReadableIs ==
    ASSUME NEW R, NEW file \in FileOf(R), Sound(file)
    PROVE  Readable(file) = file.recs /\ ~Damaged(file)
<1>1. file.recs \in Seq(R) /\ Len(file.recs) \in Nat
  BY LenProperties DEF FileOf
<1>2. SubSeq(file.recs, 1, Len(file.recs)) = file.recs
  <2>1. Len(file.recs) \in 0..Len(file.recs)
    BY <1>1
  <2> QED
    BY <1>1, <2>1, TakeFirst
<1>3. CASE file.torn = -1
  BY <1>3 DEF Readable, Damaged
<1>4. CASE file.torn # -1
  <2>1. file.torn = Len(file.recs)
    BY <1>4 DEF Sound
  <2> QED
    BY <1>1, <1>2, <2>1 DEF Readable, Damaged
<1> QED
  BY <1>3, <1>4

\* A death of the machine leaves the first records of a file, the synced ones at least.
LEMMA RemainsAre ==
    ASSUME NEW R, NEW file \in FileOf(R), Sound(file), NEW g \in Remains(file)
    PROVE  /\ g \in FileOf(R) /\ Sound(g)
           /\ \E n \in file.synced..Len(file.recs) :
                 n \in Nat /\ g.recs = SubSeq(file.recs, 1, n) /\ g.synced = n
<1>1. /\ file.recs \in Seq(R) /\ Len(file.recs) \in Nat /\ file.synced \in Nat /\ file.torn \in Int
      /\ file.synced <= Len(file.recs)
  BY LenProperties DEF FileOf, Sound
<1>2. ASSUME file.torn # -1
      PROVE  Max({file.synced, file.torn}) = Len(file.recs)
  <2>1. file.synced = Len(file.recs) /\ file.torn = Len(file.recs)
    BY <1>2 DEF Sound
  <2>2. {file.synced, file.torn} = {Len(file.recs)}
    BY <2>1
  <2>3. \A x \in {Len(file.recs)} : x = Len(file.recs)
    OBVIOUS
  <2>4. Max({Len(file.recs)}) \in {Len(file.recs)}
    <3> DEFINE T == {Len(file.recs)}
    <3>1. T \in SUBSET Nat /\ T # {} /\ \A x \in T : x <= Len(file.recs)
      BY <1>1
    <3> HIDE DEF T
    <3>2. Max(T) \in T
      BY <1>1, <3>1, GreatestOf
    <3> QED
      BY <3>2 DEF T
  <2> QED
    BY <2>2, <2>3, <2>4
<1>3. \E n \in file.synced..Len(file.recs) :
         /\ n \in Nat /\ g.recs = SubSeq(file.recs, 1, n) /\ g.synced = n
         /\ g = [recs |-> SubSeq(file.recs, 1, n), synced |-> n, torn |-> g.torn]
         /\ g.torn = -1 \/ g.torn = n
  <2>1. CASE file.torn = -1
    BY <1>1, <2>1 DEF Remains
  <2>2. CASE file.torn # -1
    <3>1. \A n \in Len(file.recs)..Len(file.recs) : n = file.torn
      BY <1>1, <2>2 DEF Sound
    <3>2. Len(file.recs)..(Len(file.recs) - 1) = {}
      BY <1>1
    <3>3. PICK n \in Len(file.recs)..Len(file.recs) :
             g = [recs |-> SubSeq(file.recs, 1, n), synced |-> n, torn |-> file.torn]
      BY <1>2, <2>2, <3>2 DEF Remains
    <3>4. n = file.torn /\ n \in Nat /\ n \in file.synced..Len(file.recs)
      BY <1>1, <3>1
    <3>5. g.recs = SubSeq(file.recs, 1, n) /\ g.synced = n /\ g.torn = n
      BY <3>3, <3>4
    <3> QED
      BY <3>3, <3>4, <3>5
  <2> QED
    BY <2>1, <2>2
<1>4. PICK n \in file.synced..Len(file.recs) :
         /\ n \in Nat /\ g.recs = SubSeq(file.recs, 1, n) /\ g.synced = n
         /\ g = [recs |-> SubSeq(file.recs, 1, n), synced |-> n, torn |-> g.torn]
         /\ g.torn = -1 \/ g.torn = n
  BY <1>3
<1>5. SubSeq(file.recs, 1, n) \in Seq(R) /\ Len(SubSeq(file.recs, 1, n)) = n
  <2>1. n \in 0..Len(file.recs)
    BY <1>1, <1>4
  <2> QED
    BY <1>1, <2>1, TakeFirst
<1>6. g.torn \in Int
  BY <1>4
<1>7. g \in FileOf(R)
  BY <1>4, <1>5, <1>6 DEF FileOf
<1>8. Sound(g)
  BY <1>4, <1>5 DEF Sound
<1> QED
  BY <1>4, <1>7, <1>8

-----------------------------------------------------------------------------
\* What a step leaves as it is.

\* Tables and logs that are left alone hold what they held.
LEMMA TablesSame ==
    ASSUME NEW F, \A f \in F : tables'[f] = tables[f]
    PROVE  TableEntries(F)' = TableEntries(F)
BY DEF TableEntries

\* The logs from L on are left alone.
LEMMA LogsSame ==
    ASSUME NEW L,
           \A n : n \in DOMAIN logs /\ n >= L <=> n \in DOMAIN logs' /\ n >= L,
           \A n \in LogsFrom(L) : logs'[n] = logs[n]
    PROVE  LogEntries(L)' = LogEntries(L) /\ LogSynced(L)' = LogSynced(L)
<1>1. LogsFrom(L)' = LogsFrom(L)
  BY DEF LogsFrom
<1> QED
  BY <1>1 DEF LogEntries, LogSynced

\* A log that begins holds nothing.
LEMMA LogBegins ==
    ASSUME NEW L, NEW n, n \notin DOMAIN logs, logs' = Put(logs, n, EmptyFile)
    PROVE  LogEntries(L)' = LogEntries(L) /\ LogSynced(L)' = LogSynced(L)
<1>1. /\ \A m \in DOMAIN logs : logs'[m] = logs[m]
      /\ logs'[n].recs = <<>> /\ logs'[n].synced = 0
      /\ DOMAIN logs' = DOMAIN logs \cup {n}
  BY DEF Put, EmptyFile
<1>2. ToSet(<<>>) = {} /\ ToSet(SubSeq(<<>>, 1, 0)) = {}
  <2>1. <<>> \in Seq({}) /\ Len(<<>>) = 0 /\ 0 \in 0..0
    OBVIOUS
  <2>2. ToSet(SubSeq(<<>>, 1, 0)) \subseteq ToSet(<<>>)
    BY <2>1, TakeFirst
  <2> QED
    BY <2>2 DEF ToSet
<1>3. LogsFrom(L)' \subseteq LogsFrom(L) \cup {n} /\ LogsFrom(L) \subseteq LogsFrom(L)'
  BY <1>1 DEF LogsFrom
<1>4. \A m \in LogsFrom(L) : m \in DOMAIN logs
  BY DEF LogsFrom
<1>5. LogEntries(L)' = LogEntries(L)
  BY <1>1, <1>2, <1>3, <1>4 DEF LogEntries
<1>6. LogSynced(L)' = LogSynced(L)
  BY <1>1, <1>2, <1>3, <1>4 DEF LogSynced
<1> QED
  BY <1>5, <1>6

\* A step keeps what state s leads to.
Same(s) ==
    /\ \A f \in s.files : f \in DOMAIN tables' /\ tables'[f] = tables[f]
    /\ LogEntries(s.log)' = LogEntries(s.log)
    /\ LogSynced(s.log) \subseteq LogSynced(s.log)'
    /\ pc' = "up" => s.log <= logNumber'

\* A version set state whose files are left alone holds what it held.
LEMMA HoldsKept ==
    ASSUME NEW s, Same(s)
    PROVE  Holds(s)' = Holds(s) /\ TableEntries(s.files)' = TableEntries(s.files)
<1>1. TableEntries(s.files)' = TableEntries(s.files)
  BY TablesSame DEF Same
<1> QED
  BY <1>1 DEF Same, Holds

\* ... and goes on leading to the contents.
LEMMA GoodKept ==
    ASSUME NEW s, Good(s), Same(s), safe' = safe, Held' = Held
    PROVE  Good(s)'
<1>1. Holds(s)' = Holds(s) /\ TableEntries(s.files)' = TableEntries(s.files)
  BY HoldsKept
<1>2. {e.w : e \in TableEntries(s.files) \cup LogSynced(s.log)}
         \subseteq {e.w : e \in TableEntries(s.files) \cup LogSynced(s.log)}'
  BY <1>1 DEF Same
<1>3. s.files \subseteq DOMAIN tables'
  BY DEF Same
<1>4. (pc = "up" => s.log <= logNumber)'
  BY DEF Same
<1> QED
  BY <1>1, <1>2, <1>3, <1>4 DEF Good

\* The manifest as it is is one of those that may remain.
LEMMA NowIsState ==
    DiskTypes /\ FilesSound /\ current \in DOMAIN manifests /\ Manifest.recs # <<>> => Now \in States
<1> SUFFICES ASSUME DiskTypes, FilesSound, current \in DOMAIN manifests, Manifest.recs # <<>>
             PROVE  Now \in States
  OBVIOUS
<1> DEFINE recs == Manifest.recs
           n == Len(recs)
<1>1. recs \in Seq(Edit) /\ n \in Nat /\ Manifest.synced \in 0..n
  BY LenProperties DEF DiskTypes, FilesSound, FileOf, Sound, Manifest
<1>2. n > 0
  BY <1>1, EmptySeq
<1>3. SubSeq(recs, 1, n) = recs
  <2>1. n \in 0..n
    BY <1>1
  <2> QED
    BY <1>1, <2>1, TakeFirst
<1>4. n \in {m \in Manifest.synced..n : m > 0}
  BY <1>1, <1>2
<1>5. Recovered(SubSeq(recs, 1, n)) \in States
  BY <1>4 DEF States
<1> QED
  BY <1>3, <1>5 DEF Now

\* A manifest that is on the disk remains as it is.
LEMMA OneState ==
    /\ DiskTypes /\ FilesSound /\ current \in DOMAIN manifests
    /\ Manifest.synced = Len(Manifest.recs)
    => States \subseteq {Now}
<1> SUFFICES ASSUME DiskTypes, FilesSound, current \in DOMAIN manifests,
                    Manifest.synced = Len(Manifest.recs), NEW s \in States
             PROVE  s = Now
  OBVIOUS
<1> DEFINE recs == Manifest.recs
           n == Len(recs)
<1>1. recs \in Seq(Edit) /\ n \in Nat
  BY LenProperties DEF DiskTypes, FileOf, Manifest
<1>2. SubSeq(recs, 1, n) = recs
  <2>1. n \in 0..n
    BY <1>1
  <2> QED
    BY <1>1, <2>1, TakeFirst
<1>3. PICK k \in n..n : s = Recovered(SubSeq(recs, 1, k))
  BY DEF States
<1>4. k = n
  BY <1>1, <1>3
<1> QED
  BY <1>2, <1>3, <1>4 DEF Now

\* A step that leaves the current manifest alone, and what its states lead to.
ManifestKept ==
    /\ current' = current
    /\ current # 0 => current \in DOMAIN manifests' /\ manifests'[current] = manifests[current]

\* While the manifest is left alone, so is what it may lead to.
LEMMA StatesKept ==
    ASSUME ManifestKept, current # 0
    PROVE  Manifest' = Manifest /\ Now' = Now /\ States' = States
<1>1. Manifest' = Manifest
  BY DEF ManifestKept, Manifest
<1> QED
  BY <1>1 DEF Now, States

\* While the database is not open, the entries are those of the manifest.
LEMMA HeldKept ==
    ASSUME DiskTypes, FilesSound, DiskInv, ManifestKept,
           current # 0 => \A s \in States : Same(s),
           pc # "up", pc' # "up"
    PROVE  Held' = Held
<1>1. CASE current = 0
  BY <1>1 DEF Held, ManifestKept
<1>2. CASE current # 0
  <2>1. Manifest' = Manifest /\ Now' = Now /\ current' = current
    BY <1>2, StatesKept DEF ManifestKept
  <2>2. CASE Manifest.recs = <<>>
    BY <2>1, <2>2 DEF Held
  <2>3. CASE Manifest.recs # <<>>
    <3>1. Now \in States
      BY <1>2, <2>3, NowIsState DEF DiskInv
    <3>2. PICK s : s = Now
      OBVIOUS
    <3>3. Holds(s)' = Holds(s)
      BY <1>2, <3>1, <3>2, HoldsKept
    <3>4. Holds(Now)' = Holds(s)'
      BY <2>1, <3>2 DEF Holds, TableEntries, LogEntries, LogsFrom
    <3> QED
      BY <1>2, <2>1, <2>3, <3>2, <3>3, <3>4 DEF Held
  <2> QED
    BY <2>2, <2>3
<1> QED
  BY <1>1, <1>2

\* A step that leaves the manifest and the files it needs alone keeps DiskInv.
LEMMA DiskKept ==
    ASSUME DiskTypes, FilesSound, DiskInv, ManifestKept,
           current # 0 => \A s \in States : Same(s),
           safe' = safe, Fresh => Blank',
           pc = "up" \/ pc' = "up" => Held' = Held
    PROVE  DiskInv' /\ Held' = Held
<1>1. Held' = Held
  BY HeldKept
<1>2. CASE current = 0
  <2>1. current' = 0 /\ Fresh
    BY <1>2 DEF ManifestKept, Fresh
  <2> QED
    BY <1>1, <2>1 DEF DiskInv
<1>3. CASE current # 0
  <2>1. Manifest' = Manifest /\ Now' = Now /\ current' = current /\ States' = States
    BY <1>3, StatesKept DEF ManifestKept
  <2>2. ASSUME NEW s \in States
        PROVE  Good(s)' /\ current < s.next /\ s.next <= Now.next
    BY <1>1, <1>3, GoodKept DEF DiskInv
  <2>3. current \in DOMAIN manifests' /\ (Manifest.synced = 0 => current = 1)
    BY <1>3 DEF ManifestKept, DiskInv
  <2>4. Fresh' => Blank'
    BY <2>1 DEF Fresh
  <2> QED
    BY <1>1, <2>1, <2>2, <2>3, <2>4 DEF DiskInv
<1> QED
  BY <1>2, <1>3

\* OrderInv depends on the entries and the number of writes only.
LEMMA OrderKept == ASSUME OrderInv, Held' = Held, written' = written PROVE OrderInv'
BY DEF OrderInv

\* Steps of a closed database that leave the disk alone.
LEMMA DiskQuiet ==
    ASSUME IInv, UNCHANGED <<current, manifests, logs, tables, safe, written>>, pc # "up", pc' # "up"
    PROVE  DiskTypes' /\ FilesSound' /\ DiskInv' /\ OrderInv' /\ Held' = Held
<1>1. DiskTypes /\ FilesSound /\ DiskInv /\ OrderInv
  BY DEF IInv
<1>2. DiskTypes' /\ FilesSound'
  BY <1>1 DEF DiskTypes, FilesSound
<1>3. ManifestKept
  BY <1>1 DEF ManifestKept, DiskInv
<1>4. ASSUME current # 0, NEW s \in States
      PROVE  Same(s)
  <2>1. s.files \subseteq DOMAIN tables
    BY <1>1, <1>4 DEF DiskInv, Good
  <2>2. LogEntries(s.log)' = LogEntries(s.log) /\ LogSynced(s.log)' = LogSynced(s.log)
    BY LogsSame
  <2> QED
    BY <2>1, <2>2 DEF Same
<1>5. Fresh => Blank'
  BY <1>1 DEF DiskInv, Blank
<1>6. DiskInv' /\ Held' = Held
  BY <1>1, <1>3, <1>4, <1>5, DiskKept
<1> QED
  BY <1>1, <1>2, <1>6, OrderKept

-----------------------------------------------------------------------------
\* Opening.

\* The invariant holds for the empty directory.
LEMMA InitIInv == Init => IInv
<1> SUFFICES ASSUME Init
             PROVE  IInv
  OBVIOUS
<1> USE DEF Init
<1>1. DiskTypes /\ FilesSound
  BY DEF DiskTypes, FilesSound, NoFiles
<1>2. MemoryTypes
  <2>1. NoVersions \in Versions
    BY DEF NoVersions, Versions
  <2>2. EmptyEdit \in Edit
    BY DEF EmptyEdit, Edit
  <2>3. <<>> \in Seq(Entry) /\ 0 \in Nat
    OBVIOUS
  <2> QED
    BY <2>1, <2>2, <2>3, Zenon DEF MemoryTypes
<1>3. PhaseInv /\ StepInv
  BY DEF PhaseInv, StepInv, Closed, Open
<1>4. Held = {}
  BY DEF Held
<1>5. DiskInv /\ OrderInv
  BY <1>4 DEF DiskInv, OrderInv, Blank, NoFiles
<1> QED
  BY <1>1, <1>2, <1>3, <1>5 DEF IInv, Open, Applying, Settling

\* While the database is closed, nothing else is said of the state.
LEMMA ClosedInv ==
    ASSUME (DiskTypes /\ MemoryTypes /\ FilesSound /\ PhaseInv /\ StepInv /\ DiskInv /\ OrderInv)',
           pc' \in Closed \cup {"failed"}
    PROVE  IInv'
<1>1. bg' = "idle"
  BY DEF StepInv
<1> QED
  BY <1>1 DEF IInv, Closed, Open, Applying, Settling

\* DB::Open begins; logs and manifest are reused only if they are whole.
LEMMA OpenDBStep ==
    ASSUME IInv, ~ReuseAny, NEW withReuse \in BOOLEAN, OpenDB(withReuse)
    PROVE  IInv' /\ Held' = Held
<1>1. /\ MemoryTypes /\ PhaseInv /\ StepInv /\ pc = "down"
      /\ reuse' = withReuse /\ (withReuse => Whole)
      /\ pc' = IF current = 0 THEN "create" ELSE "recover"
      /\ UNCHANGED <<diskVars, bg, job, memVars, vs, editVars, pinned, todo, save, maxSeq, bgError, ghosts>>
  BY DEF IInv, OpenDB
<1> USE DEF diskVars, memVars, editVars, ghosts
<1>2. DiskTypes' /\ FilesSound' /\ DiskInv' /\ OrderInv' /\ Held' = Held
  BY <1>1, DiskQuiet
<1>3. MemoryTypes'
  BY <1>1 DEF MemoryTypes
<1>4. PhaseInv'
  BY <1>1 DEF PhaseInv, Closed, Open, Whole, Manifest
<1>5. StepInv'
  BY <1>1 DEF StepInv, Closed
<1>6. pc' \in Closed
  BY <1>1 DEF Closed
<1> QED
  BY <1>2, <1>3, <1>4, <1>5, <1>6, ClosedInv

\* The manifest of NewDB.
LEMMA FirstManifestIs ==
    /\ FirstManifest \in FileOf(Edit) /\ Sound(FirstManifest)
    /\ FirstManifest.synced = 0 /\ FirstManifest.torn = -1 /\ Len(FirstManifest.recs) = 1
    /\ FirstManifest.recs # <<>>
    /\ Recovered(FirstManifest.recs) = [files |-> {}, log |-> 0, next |-> 2, last |-> 0]
<1> DEFINE r == NewDBEdit
<1>1. r \in Edit /\ r.add = {} /\ r.del = {} /\ r.log = 0 /\ r.next = 2 /\ r.last = 0
  BY DEF NewDBEdit, Edit
<1> HIDE DEF r
<1>2. FirstManifest = [recs |-> Append(<<>>, r), synced |-> 0, torn |-> -1]
  BY <1>1, EmptyFileIs, Appended DEF FirstManifest, r
<1>3. <<>> \in Seq(Edit) /\ Len(<<>>) = 0
  OBVIOUS
<1>4. Append(<<>>, r) \in Seq(Edit) /\ Len(Append(<<>>, r)) = 1 /\ Append(<<>>, r) # <<>>
  BY <1>1, <1>3, OneMore
<1>5. Recovered(Append(<<>>, r)) = ApplyRecord(NoRecord, r)
  BY <1>1, <1>3, RecoveredEmpty, RecoveredAppend
<1>6. ApplyRecord(NoRecord, r) = [files |-> {}, log |-> 0, next |-> 2, last |-> 0]
  BY <1>1 DEF ApplyRecord, NoRecord, Latest
<1> QED
  BY <1>2, <1>4, <1>5, <1>6 DEF FileOf, Sound

\* NewDB writes a manifest that CURRENT does not name yet.
LEMMA NewDBStep == ASSUME IInv, NewDB PROVE IInv' /\ Held' = Held
<1>1. /\ DiskTypes /\ FilesSound /\ MemoryTypes /\ PhaseInv /\ StepInv /\ DiskInv /\ OrderInv
      /\ pc = "create" /\ pc' = "createCurrent"
      /\ manifests' = Put(manifests, 1, FirstManifest)
      /\ UNCHANGED <<current, logs, tables, temps, bg, job, memVars, vs, editVars, pinned, openVars, bgError, ghosts>>
  BY DEF IInv, NewDB, FirstManifest
<1> USE DEF memVars, editVars, openVars, ghosts
<1>2. current = 0
  BY <1>1 DEF PhaseInv
<1>3. /\ DOMAIN manifests' = DOMAIN manifests \cup {1} /\ manifests'[1] = FirstManifest
      /\ \A n \in DOMAIN manifests : n # 1 => manifests'[n] = manifests[n]
      /\ manifests' = [n \in DOMAIN manifests' |-> manifests'[n]]
  BY <1>1 DEF Put
<1>4. \A n \in DOMAIN manifests' : manifests'[n] \in FileOf(Edit) /\ Sound(manifests'[n])
  BY <1>1, <1>3, FirstManifestIs DEF DiskTypes, FilesSound
<1>5. manifests' \in [DOMAIN manifests' -> FileOf(Edit)]
  BY <1>3, <1>4
<1>6. DiskTypes' /\ FilesSound'
  BY <1>1, <1>4, <1>5 DEF DiskTypes, FilesSound
<1>7. DiskInv' /\ OrderInv' /\ Held' = Held
  BY <1>1, <1>2 DEF DiskInv, OrderInv, Held, Fresh, Blank
<1>8. MemoryTypes'
  BY <1>1 DEF MemoryTypes
<1>9. PhaseInv'
  BY <1>1, <1>2, <1>3 DEF PhaseInv, Closed, Open
<1>10. StepInv'
  BY <1>1 DEF StepInv, Closed
<1>11. pc' \in Closed
  BY <1>1 DEF Closed
<1> QED
  BY <1>6, <1>7, <1>8, <1>9, <1>10, <1>11, ClosedInv

\* CURRENT points to the manifest of NewDB, which leads to nothing, like the empty disk.
LEMMA FirstCurrent ==
    ASSUME DiskTypes, DiskInv, current = 0, current' = 1, UNCHANGED <<manifests, logs, tables, safe>>,
           1 \in DOMAIN manifests, manifests[1] = FirstManifest, pc' # "up"
    PROVE  DiskInv' /\ Held' = {}
<1> DEFINE first == [files |-> {}, log |-> 0, next |-> 2, last |-> 0]
<1>1. /\ FirstManifest.synced = 0 /\ FirstManifest.torn = -1 /\ FirstManifest.recs # <<>>
      /\ Recovered(FirstManifest.recs) = first /\ FirstManifest.recs \in Seq(Edit)
      /\ Len(FirstManifest.recs) = 1
  BY FirstManifestIs DEF FileOf
<1>2. Manifest' = FirstManifest
  BY DEF Manifest
<1>3. Now' = first
  BY <1>1, <1>2 DEF Now
<1>4. States' = {first}
  <2>1. SubSeq(FirstManifest.recs, 1, 1) = FirstManifest.recs
    <3>1. 1 \in 0..Len(FirstManifest.recs)
      BY <1>1
    <3> QED
      BY <1>1, <3>1, TakeFirst
  <2>2. {n \in 0..1 : n > 0} = {1}
    OBVIOUS
  <2> QED
    BY <1>1, <1>2, <2>1, <2>2 DEF States
<1>5. Blank /\ Blank'
  BY DEF DiskInv, Fresh, Blank
<1>6. LogEntries(0)' = {} /\ TableEntries({})' = {} /\ safe' = {}
  BY <1>5 DEF LogEntries, TableEntries, LogsFrom, Blank, ToSet
<1>7. PICK s : s = first
  OBVIOUS
<1>8. Holds(s)' = {} /\ TableEntries(s.files)' = {}
  BY <1>6, <1>7 DEF Holds
<1>9. Held' = {}
  <2>1. Held' = Holds(Now)'
    BY <1>1, <1>2 DEF Held
  <2>2. Holds(Now)' = Holds(s)'
    BY <1>3, <1>7 DEF Holds, TableEntries, LogEntries, LogsFrom
  <2> QED
    BY <1>8, <2>1, <2>2
<1>10. Good(s)'
  BY <1>6, <1>7, <1>8, <1>9 DEF Good
<1>11. s.next = 2 /\ States' = {s} /\ Now'.next = 2
  BY <1>3, <1>4, <1>7
<1> QED
  BY <1>5, <1>9, <1>10, <1>11 DEF DiskInv

\* Pointing CURRENT to it changes an empty database into an empty one.
LEMMA NewDBCurrentStep == ASSUME IInv, NewDBCurrent PROVE IInv' /\ Held' = Held
<1>1. /\ DiskTypes /\ FilesSound /\ MemoryTypes /\ PhaseInv /\ StepInv /\ DiskInv /\ OrderInv
      /\ pc = "createCurrent"
      /\ UNCHANGED <<manifests, logs, tables, bg, job, memVars, vs, editVars, pinned, openVars, bgError, ghosts>>
  BY DEF IInv, NewDBCurrent
<1> USE DEF memVars, editVars, openVars, ghosts
<1>2. current = 0 /\ 1 \in DOMAIN manifests /\ manifests[1] = FirstManifest
  BY <1>1 DEF PhaseInv
<1>3. MemoryTypes'
  BY <1>1 DEF MemoryTypes
<1>4. CASE WriteTemp(1) /\ UNCHANGED pc
  <2>1. UNCHANGED <<current, pc>>
    BY <1>4 DEF WriteTemp
  <2>2. DiskTypes' /\ FilesSound' /\ DiskInv' /\ OrderInv' /\ Held' = Held
    BY <1>1, <2>1, DiskQuiet
  <2>3. PhaseInv' /\ StepInv'
    BY <1>1, <1>2, <2>1 DEF PhaseInv, StepInv, Closed
  <2> QED
    BY <1>1, <1>3, <2>1, <2>2, <2>3, ClosedInv DEF Closed
<1>5. CASE RenameTemp(1) /\ pc' = "recover"
  <2>1. current' = 1 /\ pc' = "recover"
    BY <1>5 DEF RenameTemp
  <2>2. DiskInv' /\ Held' = {}
    BY <1>1, <1>2, <2>1, FirstCurrent
  <2>3. OrderInv'
    BY <2>2 DEF OrderInv
  <2>4. DiskTypes' /\ FilesSound'
    BY <1>1, <2>1 DEF DiskTypes, FilesSound
  <2>5. PhaseInv' /\ StepInv'
    BY <1>1, <2>1 DEF PhaseInv, StepInv, Closed, Open, Whole
  <2>6. Held = {}
    BY <1>1, <1>2 DEF Held
  <2> QED
    BY <1>3, <2>1, <2>2, <2>3, <2>4, <2>5, <2>6, ClosedInv DEF Closed
<1> QED
  BY <1>4, <1>5 DEF NewDBCurrent

\* The manifest can be read, and names no table that is missing, once it is on the disk.
LEMMA ManifestGood ==
    ASSUME DiskTypes, FilesSound, DiskInv, current # 0
    PROVE  /\ current \in DOMAIN manifests /\ ManifestRecs = Manifest.recs /\ ~Damaged(Manifest)
           /\ Manifest.recs \in Seq(Edit)
           /\ Manifest.recs = <<>> => current = 1 /\ Now = NoRecord
           /\ Manifest.recs # <<>> =>
                 \A s \in {Now} : s \in States /\ Good(s) /\ current < s.next
<1>1. current \in DOMAIN manifests
  BY DEF DiskInv
<1>2. Manifest \in FileOf(Edit) /\ Sound(Manifest)
  BY <1>1 DEF DiskTypes, FilesSound, Manifest
<1>3. ManifestRecs = Manifest.recs /\ ~Damaged(Manifest) /\ Manifest.recs \in Seq(Edit)
  BY <1>2, ReadableIs DEF ManifestRecs, FileOf
<1>4. ASSUME Manifest.recs = <<>>
      PROVE  current = 1 /\ Now = NoRecord
  <2>1. Manifest.synced = 0
    BY <1>2, <1>4 DEF Sound
  <2> QED
    BY <1>4, <2>1, RecoveredEmpty DEF DiskInv, Now
<1>5. ASSUME Manifest.recs # <<>>
      PROVE  \A s \in {Now} : s \in States /\ Good(s) /\ current < s.next
  BY <1>1, <1>5, NowIsState DEF DiskInv
<1> QED
  BY <1>1, <1>3, <1>4, <1>5

\* VersionSet::Recover: the manifest leads to the state Good speaks of.
LEMMA ReadManifestStep == ASSUME IInv, ReadManifest PROVE IInv' /\ Held' = Held
<1>1. /\ DiskTypes /\ FilesSound /\ MemoryTypes /\ PhaseInv /\ StepInv /\ DiskInv /\ OrderInv
      /\ pc = "recover" /\ pc' \in {"corrupt", "logs"}
      /\ UNCHANGED <<diskVars, bg, job, memVars, editVars, pinned, reuse, maxSeq, bgError, ghosts>>
  BY DEF IInv, ReadManifest
<1> USE DEF memVars, editVars, ghosts, diskVars
<1>2. current # 0
  BY <1>1 DEF PhaseInv
<1>3. /\ current \in DOMAIN manifests /\ ManifestRecs = Manifest.recs /\ ~Damaged(Manifest)
      /\ Manifest.recs = <<>> => current = 1 /\ Now = NoRecord
      /\ Manifest.recs # <<>> => \A s \in {Now} : s \in States /\ Good(s) /\ current < s.next
  BY <1>1, <1>2, ManifestGood
<1>4. DiskTypes' /\ FilesSound' /\ DiskInv' /\ OrderInv' /\ Held' = Held
  BY <1>1, DiskQuiet
<1>5. StepInv'
  BY <1>1 DEF StepInv, Closed
<1>6. Manifest' = Manifest /\ Now' = Now
  BY <1>1 DEF Manifest, Now
<1>7. CASE pc' = "corrupt"
  <2>1. UNCHANGED <<vs, todo, save>>
    BY <1>7 DEF ReadManifest
  <2>2. ~ManifestReadable \/ ~(FilesOf(ManifestRecs) \subseteq DOMAIN tables)
    BY <1>7 DEF ReadManifest
  <2>3. Manifest.recs = <<>>
    <3> SUFFICES ASSUME Manifest.recs # <<>>
                 PROVE  FALSE
      OBVIOUS
    <3>1. Now.log \in Nat /\ Now.next \in Nat /\ Now.last \in Nat /\ Now.files \subseteq DOMAIN tables
      BY <1>3 DEF Good
    <3> QED
      BY <1>3, <2>2, <3>1 DEF ManifestReadable, FilesOf, LogOf, NextOf, SequenceOf, Now
  <2>4. PhaseInv'
    BY <1>1, <1>2, <1>3, <1>7, <2>3 DEF PhaseInv, Closed
  <2>5. MemoryTypes'
    BY <1>1, <2>1 DEF MemoryTypes
  <2> QED
    BY <1>4, <1>5, <1>7, <2>4, <2>5, ClosedInv DEF Closed
<1>8. CASE pc' = "logs"
  <2>1. /\ vs' = [files |-> Now.files, log |-> Now.log, next |-> Now.next + 1, last |-> Now.last,
                  manifest |-> IF reuse THEN current ELSE Now.next, open |-> reuse]
        /\ save' = ~reuse
        /\ todo' = LogsFrom(Now.log)
        /\ ManifestReadable
    BY <1>3, <1>8 DEF ReadManifest, FilesOf, LogOf, NextOf, SequenceOf, Now
  <2>2. Manifest.recs # <<>>
    BY <1>3, <2>1 DEF ManifestReadable, LogOf, Now, NoRecord
  <2>3. /\ Now.log \in Nat /\ Now.next \in Nat /\ Now.last \in Nat /\ Now.files \subseteq DOMAIN tables
        /\ current < Now.next
    BY <1>3, <2>2 DEF Good
  <2>4. MemoryTypes'
    <3>1. /\ Now.files \in SUBSET Nat /\ Now.next + 1 \in Nat /\ current \in Nat /\ reuse \in BOOLEAN
          /\ LogsFrom(Now.log) \in SUBSET Nat
      BY <1>1, <2>3 DEF DiskTypes, MemoryTypes, LogsFrom
    <3>2. vs' \in Versions
      BY <2>1, <2>3, <3>1 DEF Versions
    <3>3. save' \in BOOLEAN
      BY <2>1, Zenon
    <3> QED
      BY <1>1, <2>1, <3>1, <3>2, <3>3 DEF MemoryTypes
  <2>5. PhaseInv'
    BY <1>1, <1>2, <1>6, <1>8 DEF PhaseInv, Closed, Open, Whole
  <2>6. NextInv'
    BY <1>1, <1>6, <2>1, <2>3 DEF NextInv, DiskTypes
  <2>7. LogsInv'
    <3>1. /\ vs'.files = Now.files /\ vs'.log = Now.log /\ vs'.last = Now.last
          /\ vs'.manifest = IF reuse THEN current ELSE Now.next
          /\ vs'.open = reuse
      BY <2>1
    <3>2. LogsFrom(vs.log)' = todo' /\ Done' = {} /\ DoneEntries' = {}
      BY <1>1, <2>1, <3>1 DEF LogsFrom, Done, DoneEntries
    <3>3. /\ edit' = EmptyEdit /\ edit'.add = {} /\ edit'.del = {} /\ edit'.log = -1
          /\ logNumber' = 0 /\ mem' = <<>>
      BY <1>1 DEF PhaseInv, Closed, EmptyEdit
    <3>4. TableEntries(edit.add)' = {}
      BY <3>3 DEF TableEntries
    <3> QED
      BY <1>1, <1>6, <2>1, <2>2, <3>1, <3>2, <3>3, <3>4 DEF LogsInv
  <2> QED
    BY <1>1, <1>4, <1>5, <1>8, <2>4, <2>5, <2>6, <2>7 DEF IInv, StepInv, Applying, Settling, Closed
<1> QED
  BY <1>1, <1>7, <1>8

\* The new tables of a log hold its entries.
LEMMA NewTables ==
    ASSUME NEW entries \in Seq(Entry), NEW base \in Nat, NEW new,
           new = base..(base + MemTables(Len(entries)) - 1),
           \A m \in new : tables'[m] = {entries[j] : j \in {k \in 1..Len(entries) :
                                                         (k - 1) \div (RoomInMem + 1) = m - base}}
    PROVE  TableEntries(new)' = ToSet(entries)
<1>1. /\ Len(entries) \in Nat
      /\ \A x : x \in ToSet(entries) <=> \E i \in 1..Len(entries) : entries[i] = x
  BY LenProperties, InSequence
<1>2. /\ MemTables(Len(entries)) \in Nat
      /\ \A j \in 1..Len(entries) :
            (j - 1) \div (RoomInMem + 1) \in 0..(MemTables(Len(entries)) - 1)
  BY <1>1, Chunks
<1>3. TableEntries(new)' \subseteq ToSet(entries)
  BY <1>1 DEF TableEntries
<1>4. ASSUME NEW x \in ToSet(entries)
      PROVE  x \in TableEntries(new)'
  <2>1. PICK j \in 1..Len(entries) : entries[j] = x
    BY <1>1
  <2>2. PICK q \in 0..(MemTables(Len(entries)) - 1) : q = (j - 1) \div (RoomInMem + 1)
    BY <1>2
  <2>3. base + q \in new /\ (base + q) - base = q
    BY <1>2
  <2>4. PICK m \in new : m = base + q
    BY <2>3
  <2>5. x \in tables'[m]
    BY <2>1, <2>2, <2>3, <2>4
  <2> QED
    BY <2>5 DEF TableEntries
<1> QED
  BY <1>3, <1>4

\* RecoverLogFile: the entries of the log are in the new tables or in mem.
LEMMA RecoverLogFileStep == ASSUME IInv, RecoverLogFile PROVE IInv' /\ Held' = Held
<1> DEFINE n == Min(todo)
           entries == logs[n].recs
           full == Len(entries) \div (RoomInMem + 1)
           keep == reuse /\ todo = {n} /\ full = 0
           chunks == IF keep THEN 0 ELSE MemTables(Len(entries))
           new == vs.next..(vs.next + chunks - 1)
<1>1. /\ DiskTypes /\ FilesSound /\ MemoryTypes /\ PhaseInv /\ StepInv /\ DiskInv /\ OrderInv
      /\ NextInv /\ LogsInv /\ pc = "logs" /\ todo # {}
  BY DEF IInv, RecoverLogFile, Open
<1>2. n \in todo /\ \A t \in todo : n <= t
  <2>1. todo \in SUBSET Nat /\ todo # {}
    BY <1>1 DEF MemoryTypes
  <2> QED
    BY <2>1, LeastOf
<1>3. n \in LogsFrom(vs.log) /\ n \in DOMAIN logs /\ n >= vs.log /\ n \in Nat /\ n # 0
  BY <1>1, <1>2 DEF LogsInv, LogsFrom, DiskTypes
<1>4. logs[n] \in FileOf(Entry) /\ Sound(logs[n])
  BY <1>1, <1>3 DEF DiskTypes, FilesSound
<1>5. Readable(logs[n]) = entries /\ entries \in Seq(Entry) /\ Len(entries) \in Nat
  BY <1>4, ReadableIs, LenProperties DEF FileOf
<1>6. /\ tables' = [m \in DOMAIN tables \cup new |->
                     IF m \in new
                       THEN {entries[j] : j \in {k \in 1..Len(entries) : (k - 1) \div (RoomInMem + 1) = m - vs.next}}
                       ELSE tables[m]]
      /\ edit' = [edit EXCEPT !.add = @ \cup new]
      /\ vs' = [vs EXCEPT !.next = Used(@ + chunks, n)]
      /\ save' = (save \/ chunks > 0)
      /\ maxSeq' = Max({maxSeq} \cup {entries[i].seq : i \in 1..Len(entries)})
      /\ mem' = IF keep THEN entries ELSE mem
      /\ logNumber' = IF keep THEN n ELSE logNumber
      /\ todo' = todo \ {n}
  BY <1>5 DEF RecoverLogFile
<1>7. UNCHANGED <<current, manifests, logs, pc, bg, job, imm, hasImm, record, out, pending, pinned,
                  reuse, bgError, written, safe, pins>>
  BY DEF RecoverLogFile, ghosts
<1>8. chunks \in Nat /\ (Len(entries) = 0 => chunks = 0)
  BY <1>5, Chunks
<1>9. logNumber = 0 /\ mem = <<>>
  BY <1>1 DEF LogsInv
<1> HIDE DEF n, entries, full, keep, chunks, new
<1>10. /\ vs \in Versions /\ vs.next \in Nat /\ vs.next + chunks \in Nat
       /\ new \subseteq Nat /\ \A m \in new : vs.next <= m /\ m < vs.next + chunks
       /\ chunks = 0 => new = {}
  BY <1>1, <1>8, SMTT(30) DEF MemoryTypes, Versions, new
<1>11. /\ \A m \in DOMAIN tables : m < vs.next => tables'[m] = tables[m]
       /\ DOMAIN tables' = DOMAIN tables \cup new
       /\ \A m \in new : tables'[m] = {entries[j] : j \in {k \in 1..Len(entries) :
                                                         (k - 1) \div (RoomInMem + 1) = m - vs.next}}
  BY <1>1, <1>6, <1>10 DEF DiskTypes
<1>12. ManifestKept /\ current # 0
  BY <1>1, <1>7 DEF ManifestKept, DiskInv, PhaseInv
<1>13. ASSUME NEW s \in States
       PROVE  Same(s)
  <2>1. /\ s.files \subseteq DOMAIN tables /\ s.next \in Nat /\ s.next <= Now.next
        /\ \A f \in s.files : f < s.next
    BY <1>1, <1>12 DEF DiskInv, Good
  <2>2. Now.next <= vs.next /\ Now.next \in Nat
    BY <1>1, <1>12, ManifestGood DEF NextInv, LogsInv, Good
  <2>3. \A f \in s.files : f \in DOMAIN tables /\ f \in Nat /\ f < vs.next
    BY <1>1, <1>10, <2>1, <2>2 DEF DiskTypes
  <2>4. LogEntries(s.log)' = LogEntries(s.log) /\ LogSynced(s.log)' = LogSynced(s.log)
    BY <1>7, LogsSame
  <2> QED
    BY <1>1, <1>7, <1>11, <2>3, <2>4 DEF Same
<1>14. Fresh => Blank'
  <2> SUFFICES ASSUME Fresh
               PROVE  Blank'
    OBVIOUS
  <2>1. Blank
    BY <1>1 DEF DiskInv
  <2>2. new = {}
    BY <1>3, <1>8, <1>10, <2>1 DEF Blank, entries
  <2> QED
    BY <1>7, <1>11, <2>1, <2>2 DEF Blank
<1>15. DiskInv' /\ Held' = Held
  BY <1>1, <1>7, <1>12, <1>13, <1>14, DiskKept
<1>16. OrderInv'
  BY <1>1, <1>7, <1>15, OrderKept
<1>17. DiskTypes' /\ FilesSound'
  <2>1. \A m \in new : tables'[m] \in SUBSET Entry
    BY <1>5, <1>11, ElementOfSeq
  <2>2. \A m \in DOMAIN tables' : tables'[m] \in SUBSET Entry
    BY <1>1, <1>6, <1>11, <2>1 DEF DiskTypes
  <2>3. tables' = [m \in DOMAIN tables' |-> tables'[m]]
    BY <1>6
  <2>4. tables' \in [DOMAIN tables' -> SUBSET Entry] /\ DOMAIN tables' \subseteq Nat
    BY <1>1, <1>10, <1>11, <2>2, <2>3 DEF DiskTypes
  <2> QED
    BY <1>1, <1>7, <2>4 DEF DiskTypes, FilesSound
<1>18. /\ maxSeq' \in Nat /\ maxSeq <= maxSeq'
       /\ \A e \in ToSet(entries) : e.seq <= maxSeq'
  <2> DEFINE S == {maxSeq} \cup {entries[i].seq : i \in 1..Len(entries)}
             f == [i \in 1..Len(entries) |-> entries[i].seq]
  <2>1. maxSeq \in Nat /\ \A i \in 1..Len(entries) : entries[i] \in Entry /\ entries[i].seq \in Nat
    <3>1. \A i \in 1..Len(entries) : entries[i] \in Entry
      BY <1>5, ElementOfSeq
    <3> QED
      BY <1>1, <3>1 DEF MemoryTypes, Entry
  <2>2. PICK b \in Nat : \A i \in 1..Len(entries) : f[i] <= b
    <3>1. \A i \in 1..Len(entries) : f[i] \in Nat
      BY <2>1
    <3> HIDE DEF f
    <3> QED
      BY <1>5, <3>1, BoundOf
  <2>3. /\ S \in SUBSET Nat /\ S # {} /\ maxSeq + b \in Nat
        /\ \A x \in S : x <= maxSeq + b
    BY <2>1, <2>2
  <2>4. Max(S) \in S /\ \A x \in S : x <= Max(S)
    <3> HIDE DEF S
    <3> QED
      BY <2>3, GreatestOf
  <2>5. \A e \in ToSet(entries) : e.seq \in S
    BY <1>5, InSequence
  <2> QED
    BY <1>6, <2>3, <2>4, <2>5
<1>19. /\ vs' \in Versions /\ vs'.next \in Nat /\ vs.next + chunks <= vs'.next /\ n < vs'.next
       /\ vs'.files = vs.files /\ vs'.log = vs.log /\ vs'.last = vs.last
       /\ vs'.manifest = vs.manifest /\ vs'.open = vs.open
  <2>1. PICK x \in Nat : x = Used(vs.next + chunks, n)
    BY <1>3, <1>10 DEF Used
  <2>2. vs.next + chunks <= x /\ n < x
    BY <1>3, <1>10, <2>1 DEF Used
  <2>3. vs' = [vs EXCEPT !.next = x]
    BY <1>6, <2>1
  <2> QED
    BY <1>10, <2>2, <2>3 DEF Versions
<1>20. /\ edit' \in Edit /\ edit'.add = edit.add \cup new
       /\ edit'.del = edit.del /\ edit'.log = edit.log
  <2>1. edit \in Edit /\ edit.add \cup new \in SUBSET Nat
    BY <1>1, <1>10 DEF MemoryTypes, Edit
  <2>2. PICK x \in SUBSET Nat : x = edit.add \cup new
    BY <2>1
  <2>3. edit' = [edit EXCEPT !.add = x]
    BY <1>6, <2>2
  <2> QED
    BY <2>1, <2>2, <2>3 DEF Edit
<1>21. MemoryTypes'
  <2>1. mem' \in Seq(Entry) /\ logNumber' \in Nat /\ todo' \in SUBSET Nat
    BY <1>1, <1>3, <1>5, <1>6 DEF MemoryTypes
  <2>2. save' \in BOOLEAN
    BY <1>6, Zenon
  <2> QED
    BY <1>1, <1>7, <1>18, <1>19, <1>20, <2>1, <2>2 DEF MemoryTypes
<1>22. PhaseInv' /\ StepInv'
  BY <1>1, <1>7 DEF PhaseInv, StepInv, Closed, Whole, Manifest
<1>23. Manifest' = Manifest /\ Now' = Now
  BY <1>12, StatesKept
<1>24. NextInv'
  <2>1. current \in Nat /\ vs.manifest \in Nat /\ Now.next \in Nat
    BY <1>1, <1>10, <1>12, ManifestGood DEF DiskTypes, Versions, LogsInv, Good
  <2> QED
    BY <1>1, <1>7, <1>8, <1>10, <1>19, <1>23, <2>1 DEF NextInv
<1>25. /\ LogsFrom(vs.log)' = LogsFrom(vs.log) /\ Done' = Done \cup {n} /\ n \notin Done
       /\ Done \subseteq DOMAIN logs /\ 0 \notin Done
  BY <1>1, <1>2, <1>3, <1>6, <1>7, <1>19 DEF LogsFrom, Done, DiskTypes
<1>26. TableEntries(edit.add)' = DoneEntries'
  <2>1. TableEntries(edit.add) = UNION {ToSet(logs[d].recs) : d \in Done}
    BY <1>1, <1>9, <1>25 DEF LogsInv, DoneEntries
  <2>2. PICK old, ns, es, base, k, done :
           old = edit.add /\ ns = new /\ es = entries /\ base = vs.next /\ k = n /\ done = Done
    OBVIOUS
  <2>3. TableEntries(old)' = UNION {ToSet(logs[d].recs) : d \in done}
    <3>1. \A f \in old : f \in DOMAIN tables /\ f < vs.next
      BY <1>1, <2>2 DEF LogsInv
    <3>2. TableEntries(old)' = TableEntries(old)
      BY <1>11, <3>1, TablesSame
    <3> QED
      BY <2>1, <2>2, <3>2
  <2>4. TableEntries(edit.add)' = TableEntries(old)' \cup TableEntries(ns)'
    <3>1. edit'.add = old \cup ns
      BY <1>20, <2>2
    <3> QED
      BY <3>1 DEF TableEntries
  <2>5. CASE keep
    <3>1. ns = {} /\ logNumber' = n
      BY <1>6, <1>10, <2>2, <2>5 DEF chunks
    <3>2. TableEntries(ns)' = {}
      BY <3>1 DEF TableEntries
    <3>3. Done' \ {logNumber'} = done
      BY <1>25, <2>2, <3>1
    <3>4. DoneEntries' = UNION {ToSet(logs[d].recs) : d \in done}
      BY <1>7, <3>3 DEF DoneEntries
    <3> QED
      BY <2>3, <2>4, <3>2, <3>4
  <2>6. CASE ~keep
    <3>1. logNumber' = 0
      BY <1>6, <1>9, <2>6
    <3>2. Done' \ {logNumber'} = done \cup {k}
      BY <1>3, <1>25, <2>2, <3>1
    <3>3. DoneEntries' = UNION {ToSet(logs[d].recs) : d \in done \cup {k}}
      BY <1>7, <3>2 DEF DoneEntries
    <3>4. TableEntries(ns)' = ToSet(es)
      <4>1. ns = base..(base + MemTables(Len(es)) - 1)
        BY <2>2, <2>6 DEF new, chunks
      <4>2. es \in Seq(Entry) /\ base \in Nat
        BY <1>5, <1>10, <2>2
      <4>3. \A m \in ns : tables'[m] = {es[j] : j \in {i \in 1..Len(es) :
                                                         (i - 1) \div (RoomInMem + 1) = m - base}}
        BY <1>11, <2>2
      <4> QED
        BY <4>1, <4>2, <4>3, NewTables
    <3>5. es = logs[k].recs
      BY <2>2 DEF entries
    <3> QED
      BY <2>3, <2>4, <3>3, <3>4, <3>5
  <2> QED
    BY <2>5, <2>6
<1>27. LogsInv'
  <2>1. edit'.add \subseteq DOMAIN tables' /\ \A f \in edit'.add : f < vs'.next
    <3>1. \A f \in edit.add : f \in DOMAIN tables /\ f \in Nat /\ f < vs.next
      BY <1>1 DEF LogsInv, DiskTypes
    <3>2. ASSUME NEW f \in edit'.add
          PROVE  f \in DOMAIN tables' /\ f < vs'.next
      <4>1. f \in edit.add \/ f \in new
        BY <1>20
      <4>2. f \in DOMAIN tables' /\ f \in Nat /\ f < vs.next + chunks
        <5>1. CASE f \in edit.add
          <6>1. f \in DOMAIN tables /\ f \in Nat /\ f < vs.next
            BY <3>1, <5>1
          <6> QED
            BY <1>8, <1>10, <1>11, <6>1
        <5>2. CASE f \in new
          BY <1>10, <1>11, <5>2
        <5> QED
          BY <4>1, <5>1, <5>2
      <4> QED
        BY <1>10, <1>19, <4>2
    <3> QED
      BY <3>2
  <2>2. ~save' => reuse' /\ edit'.add = {}
    <3>1. ~save' => ~save /\ ~(chunks > 0)
      BY <1>6, Zenon
    <3>2. ~(chunks > 0) => new = {}
      BY <1>8, <1>10
    <3>3. ~save => reuse /\ edit.add = {}
      BY <1>1 DEF LogsInv
    <3> QED
      BY <1>7, <1>20, <3>1, <3>2, <3>3
  <2>3. todo' \subseteq LogsFrom(vs.log)'
    BY <1>1, <1>6, <1>25 DEF LogsInv
  <2>4. \A d \in Done' : d < vs'.next /\ \A t \in todo' : d < t
    <3>1. \A d \in Done : d \in Nat /\ d < vs.next /\ \A t \in todo : d < t
      BY <1>1, <1>25 DEF LogsInv, DiskTypes
    <3>2. \A t \in todo' : t \in todo /\ t \in Nat /\ n < t
      BY <1>1, <1>2, <1>3, <1>6 DEF MemoryTypes
    <3> QED
      BY <1>8, <1>10, <1>19, <1>25, <3>1, <3>2
  <2>5. \A d \in Done' : \A e \in ToSet(logs'[d].recs) : e.seq <= maxSeq'
    <3>1. ASSUME NEW d \in Done, NEW e \in ToSet(logs[d].recs)
          PROVE  e.seq <= maxSeq'
      <4>1. logs[d].recs \in Seq(Entry)
        BY <1>1, <1>25 DEF DiskTypes, FileOf
      <4>2. e.seq \in Nat /\ e.seq <= maxSeq
        <5>1. e \in Entry
          BY <4>1, InSequence
        <5> QED
          BY <1>1, <5>1 DEF LogsInv, Entry
      <4> QED
        BY <1>1, <1>18, <4>2 DEF MemoryTypes
    <3> QED
      BY <1>7, <1>18, <1>25, <3>1 DEF entries
  <2>6. logNumber' = 0 => mem' = <<>>
    BY <1>3, <1>6, <1>9
  <2>7. ASSUME logNumber' # 0
        PROVE  /\ logNumber' \in Done' /\ todo' = {} /\ reuse'
               /\ mem' = logs'[logNumber'].recs
               /\ \A m \in DOMAIN logs' : m <= logNumber'
    <3>1. keep /\ logNumber' = n /\ mem' = entries
      BY <1>6, <1>9, <2>7
    <3>2. reuse /\ todo = {n}
      BY <3>1 DEF keep
    <3>3. ASSUME NEW m \in DOMAIN logs
          PROVE  m <= n
      <4>1. m \in Nat /\ vs.log \in Nat
        BY <1>1, <1>10 DEF DiskTypes, Versions
      <4>2. CASE m >= vs.log
        <5>1. m \in Done \/ m = n
          BY <3>2, <4>2 DEF Done, LogsFrom
        <5>2. m \in Done => m < n
          BY <1>1, <1>2 DEF LogsInv
        <5> QED
          BY <1>3, <4>1, <5>1, <5>2
      <4>3. CASE m < vs.log
        BY <1>3, <4>1, <4>3
      <4> QED
        BY <4>1, <4>2, <4>3
    <3> QED
      BY <1>6, <1>7, <1>25, <3>1, <3>2, <3>3 DEF entries
  <2>8. /\ Manifest.recs # <<>>
        /\ vs.files = Now.files /\ vs.log = Now.log /\ vs.last = Now.last
        /\ vs.manifest = IF reuse THEN current ELSE Now.next
        /\ vs.open = reuse
        /\ edit.del = {} /\ edit.log = -1
    BY <1>1 DEF LogsInv
  <2> QED
    BY <1>7, <1>19, <1>20, <1>23, <1>26, <2>1, <2>2, <2>3, <2>4, <2>5, <2>6, <2>7, <2>8 DEF LogsInv
<1> QED
  BY <1>1, <1>7, <1>15, <1>16, <1>17, <1>21, <1>22, <1>24, <1>27
     DEF IInv, StepInv, Applying, Settling

\* The greater of two numbers.
LEMMA MaxOfTwo ==
    ASSUME NEW a \in Nat, NEW b \in Nat
    PROVE  Max({a, b}) \in Nat /\ a <= Max({a, b}) /\ b <= Max({a, b})
<1> DEFINE T == {a, b}
<1>1. T \in SUBSET Nat /\ T # {} /\ a + b \in Nat /\ \A x \in T : x <= a + b
  OBVIOUS
<1>2. a \in T /\ b \in T
  OBVIOUS
<1>3. Max(T) \in T /\ \A x \in T : x <= Max(T)
  <2> HIDE DEF T
  <2> QED
    BY <1>1, GreatestOf
<1> QED
  BY <1>1, <1>2, <1>3

\* All logs are read: what is in memory and in the new tables is what they hold.
LEMMA LogsDone ==
    ASSUME IInv, pc = "logs", todo = {}
    PROVE  /\ Held = TableEntries(vs.files) \cup LogEntries(vs.log)
           /\ LogEntries(vs.log) = TableEntries(edit.add) \cup ToSet(mem)
           /\ \A e \in TableEntries(vs.files) : e.seq \in Nat /\ e.seq <= vs.last
           /\ \A e \in LogEntries(vs.log) : e.seq \in Nat /\ e.seq <= maxSeq
           /\ \A m \in DOMAIN logs : m < vs.next
           /\ vs.files \subseteq DOMAIN tables /\ \A f \in vs.files : f < vs.next
           /\ vs.log < vs.next
<1>1. /\ DiskTypes /\ FilesSound /\ MemoryTypes /\ PhaseInv /\ DiskInv /\ NextInv /\ LogsInv
  BY DEF IInv, Open
<1>2. current # 0 /\ Manifest.recs # <<>>
  BY <1>1 DEF PhaseInv, LogsInv
<1>3. PICK s : s = Now
  OBVIOUS
<1>4. Good(s) /\ s.files = vs.files /\ s.log = vs.log /\ s.last = vs.last /\ s.next <= vs.next
  BY <1>1, <1>2, <1>3, ManifestGood DEF LogsInv, NextInv
<1>5. /\ vs.next \in Nat /\ vs.log \in Nat /\ vs.last \in Nat /\ s.next \in Nat /\ vs.log < vs.next
      /\ vs.files \subseteq DOMAIN tables
  BY <1>1, <1>4 DEF MemoryTypes, Versions, Good
<1>6. Held = Holds(s)
  BY <1>4 DEF Good
<1>7. Done = LogsFrom(vs.log)
  BY DEF Done
<1>8. \A m \in DOMAIN logs : m \in Nat /\ m < vs.next
  BY <1>1, <1>5, <1>7 DEF DiskTypes, LogsInv, LogsFrom
<1>9. LogEntries(vs.log) = TableEntries(edit.add) \cup ToSet(mem)
  <2>1. TableEntries(edit.add) = UNION {ToSet(logs[d].recs) : d \in LogsFrom(vs.log) \ {logNumber}}
    BY <1>1, <1>7 DEF LogsInv, DoneEntries
  <2>2. CASE logNumber = 0
    <3>1. logNumber \notin LogsFrom(vs.log) /\ ToSet(mem) = {}
      BY <1>1, <2>2 DEF LogsFrom, DiskTypes, LogsInv, ToSet
    <3> QED
      BY <2>1, <3>1 DEF LogEntries
  <2>3. CASE logNumber # 0
    <3>1. logNumber \in LogsFrom(vs.log) /\ mem = logs[logNumber].recs
      BY <1>1, <1>7, <2>3 DEF LogsInv
    <3> QED
      BY <2>1, <3>1 DEF LogEntries
  <2> QED
    BY <2>2, <2>3
<1>10. \A e \in TableEntries(vs.files) : e.seq \in Nat /\ e.seq <= vs.last
  <2>1. \A e \in TableEntries(vs.files) : e \in Entry
    BY <1>1, <1>5 DEF TableEntries, DiskTypes
  <2> QED
    BY <1>4, <2>1 DEF Good, Entry
<1>11. ASSUME NEW e \in LogEntries(vs.log)
       PROVE  e.seq \in Nat /\ e.seq <= maxSeq
  <2>1. PICK d \in LogsFrom(vs.log) : e \in ToSet(logs[d].recs)
    BY DEF LogEntries
  <2>2. logs[d].recs \in Seq(Entry)
    BY <1>1 DEF DiskTypes, FileOf, LogsFrom
  <2>3. e \in Entry
    BY <2>1, <2>2, InSequence
  <2> QED
    BY <1>1, <1>7, <2>1, <2>3 DEF LogsInv, Entry
<1>12. \A f \in vs.files : f < vs.next
  <2>1. \A f \in vs.files : f \in Nat /\ f < s.next
    BY <1>1, <1>4, <1>5 DEF Good, DiskTypes
  <2> QED
    BY <1>4, <1>5, <2>1
<1> QED
  BY <1>4, <1>5, <1>6, <1>8, <1>9, <1>10, <1>11, <1>12 DEF Holds

\* The rest of Open: what LogAndApply will write leads to the same contents.
LEMMA OpenLogStep == ASSUME IInv, OpenLog PROVE IInv' /\ Held' = Held
<1>1. /\ DiskTypes /\ FilesSound /\ MemoryTypes /\ PhaseInv /\ StepInv /\ DiskInv /\ OrderInv
      /\ NextInv /\ LogsInv /\ pc = "logs" /\ todo = {} /\ bg = "idle"
  BY DEF IInv, OpenLog, Open, StepInv
<1>2. /\ Held = TableEntries(vs.files) \cup LogEntries(vs.log)
      /\ LogEntries(vs.log) = TableEntries(edit.add) \cup ToSet(mem)
      /\ \A e \in TableEntries(vs.files) : e.seq \in Nat /\ e.seq <= vs.last
      /\ \A e \in LogEntries(vs.log) : e.seq \in Nat /\ e.seq <= maxSeq
      /\ \A m \in DOMAIN logs : m < vs.next
      /\ vs.files \subseteq DOMAIN tables /\ \A f \in vs.files : f < vs.next
      /\ vs.log < vs.next
  BY <1>1, LogsDone
<1>3. PICK n, last, next, L :
         /\ n = IF logNumber = 0 THEN vs.next ELSE logNumber
         /\ last = Max({vs.last, maxSeq})
         /\ next = IF logNumber = 0 THEN vs.next + 1 ELSE vs.next
         /\ L = vs.log
  OBVIOUS
<1>4. /\ logs' = (IF logNumber = 0 THEN Put(logs, n, EmptyFile) ELSE logs)
      /\ logNumber' = n
      /\ vs' = [vs EXCEPT !.last = last, !.next = next]
      /\ edit' = [edit EXCEPT !.log = n]
  BY <1>3 DEF OpenLog
<1>5. /\ UNCHANGED <<current, manifests, tables, mem, imm, hasImm, record, out, pending, pinned,
                  todo, reuse, save, maxSeq, bgError, written, safe, pins>>
      /\ save => pc' = "saving" /\ bg' = "apply" /\ job' = "open"
      /\ ~save => pc' = "up" /\ bg' = "delete" /\ job' = job
  BY DEF OpenLog, ghosts, openVars
<1>6. /\ vs \in Versions /\ vs.next \in Nat /\ vs.last \in Nat /\ maxSeq \in Nat /\ logNumber \in Nat
      /\ vs.manifest \in Nat /\ L \in Nat /\ edit \in Edit
  BY <1>1, <1>3 DEF MemoryTypes, Versions
<1>7. last \in Nat /\ vs.last <= last /\ maxSeq <= last
  BY <1>3, <1>6, MaxOfTwo
<1>8. n \in Nat /\ next \in Nat /\ n < next /\ vs.next <= next /\ n # 0 /\ L <= n
  <2>1. CASE logNumber = 0
    BY <1>2, <1>3, <1>6, <2>1
  <2>2. CASE logNumber # 0
    <3>1. logNumber \in LogsFrom(L) /\ logNumber < vs.next
      BY <1>1, <1>3, <2>2 DEF LogsInv, Done
    <3> QED
      BY <1>3, <1>6, <2>2, <3>1 DEF LogsFrom
  <2> QED
    BY <2>1, <2>2
<1>9. /\ vs' \in Versions /\ vs'.last = last /\ vs'.next = next
      /\ vs'.files = vs.files /\ vs'.log = L /\ vs'.manifest = vs.manifest /\ vs'.open = vs.open
  <2>1. PICK v \in Versions : v = vs
    BY <1>6
  <2>2. PICK w : w = vs'
    OBVIOUS
  <2>3. w = [v EXCEPT !.last = last, !.next = next]
    BY <1>4, <2>1, <2>2
  <2>4. /\ w \in Versions /\ w.last = last /\ w.next = next
        /\ w.files = v.files /\ w.log = v.log /\ w.manifest = v.manifest /\ w.open = v.open
    BY <1>7, <1>8, <2>3 DEF Versions
  <2> QED
    BY <1>3, <2>1, <2>2, <2>4
<1>10. /\ edit' \in Edit /\ edit'.log = n /\ edit'.add = edit.add /\ edit'.del = edit.del
  BY <1>4, <1>6, <1>8 DEF Edit
<1>11. \A m : LogEntries(m)' = LogEntries(m) /\ LogSynced(m)' = LogSynced(m)
  <2>1. CASE logNumber = 0
    <3>1. n \notin DOMAIN logs /\ logs' = Put(logs, n, EmptyFile)
      BY <1>2, <1>3, <1>4, <1>6, <2>1
    <3> QED
      BY <3>1, LogBegins
  <2>2. CASE logNumber # 0
    BY <1>4, <2>2, LogsSame
  <2> QED
    BY <2>1, <2>2
<1>12. /\ DOMAIN logs' = DOMAIN logs \cup {n} /\ \A m \in DOMAIN logs : logs'[m] = logs[m]
       /\ \A m \in DOMAIN logs' : m <= n
       /\ logs'[n].recs = mem /\ logs'[n].torn = -1
       /\ logs'[n] \in FileOf(Entry) /\ Sound(logs'[n])
  <2>1. CASE logNumber = 0
    <3>1. n \notin DOMAIN logs /\ logs' = Put(logs, n, EmptyFile) /\ mem = <<>>
      BY <1>1, <1>2, <1>3, <1>4, <1>6, <2>1 DEF LogsInv
    <3>2. /\ DOMAIN logs' = DOMAIN logs \cup {n} /\ \A m \in DOMAIN logs : logs'[m] = logs[m]
          /\ logs'[n] = EmptyFile
      BY <3>1 DEF Put
    <3>3. \A m \in DOMAIN logs : m \in Nat /\ m < n
      BY <1>1, <1>2, <1>3, <2>1 DEF DiskTypes
    <3> QED
      BY <1>8, <3>1, <3>2, <3>3, EmptyFileIs
  <2>2. CASE logNumber # 0
    <3>1. /\ logNumber \in DOMAIN logs /\ mem = logs[logNumber].recs /\ reuse
          /\ \A m \in DOMAIN logs : m <= logNumber
      BY <1>1, <2>2 DEF LogsInv, Done, LogsFrom
    <3>2. logs[logNumber].torn = -1
      BY <1>1, <3>1 DEF PhaseInv, Whole
    <3> QED
      BY <1>1, <1>3, <1>4, <2>2, <3>1, <3>2 DEF DiskTypes, FilesSound
  <2> QED
    BY <2>1, <2>2
<1>13. DiskTypes' /\ FilesSound'
  <2>1. logs' = [m \in DOMAIN logs' |-> logs'[m]]
    BY <1>1, <1>4 DEF Put, DiskTypes
  <2>2. \A m \in DOMAIN logs' : logs'[m] \in FileOf(Entry) /\ Sound(logs'[m]) /\ m \in Nat \ {0}
    BY <1>1, <1>8, <1>12 DEF DiskTypes, FilesSound
  <2>3. logs' \in [DOMAIN logs' -> FileOf(Entry)]
    BY <2>1, <2>2
  <2> QED
    BY <1>1, <1>5, <2>2, <2>3 DEF DiskTypes, FilesSound
<1>14. MemoryTypes'
  BY <1>1, <1>4, <1>5, <1>8, <1>9, <1>10 DEF MemoryTypes
<1>15. \A F : TableEntries(F)' = TableEntries(F)
  BY <1>5 DEF TableEntries
<1>16. ManifestKept /\ current # 0 /\ Manifest' = Manifest /\ Now' = Now /\ States' = States
  <2>1. ManifestKept /\ current # 0
    BY <1>1, <1>5 DEF ManifestKept, DiskInv, PhaseInv
  <2> QED
    BY <2>1, StatesKept
<1>17. save \in BOOLEAN /\ reuse \in BOOLEAN /\ (~save => reuse /\ edit.add = {})
  BY <1>1 DEF MemoryTypes, LogsInv
<1>18. reuse => Whole
  BY <1>1 DEF PhaseInv
<1>19. ASSUME NEW s \in States
       PROVE  Same(s)
  <2>1. s.files \subseteq DOMAIN tables
    BY <1>1, <1>16 DEF DiskInv, Good
  <2>2. pc' = "up" => s.log <= n
    <3> SUFFICES ASSUME pc' = "up"
                 PROVE  s.log <= n
      OBVIOUS
    <3>1. reuse /\ Whole
      BY <1>5, <1>17, <1>18
    <3>2. s = Now
      BY <1>1, <1>16, <3>1, OneState DEF Whole, DiskInv
    <3> QED
      BY <1>1, <1>3, <1>8, <3>2 DEF LogsInv
  <2> QED
    BY <1>4, <1>5, <1>11, <2>1, <2>2 DEF Same
<1>20. Fresh => Blank'
  <2> SUFFICES ASSUME Fresh
               PROVE  Blank'
    OBVIOUS
  <2>1. Blank
    BY <1>1 DEF DiskInv
  <2>2. logs'[n].recs = <<>>
    <3>1. CASE logNumber = 0
      BY <1>1, <1>12, <3>1 DEF LogsInv
    <3>2. CASE logNumber # 0
      BY <1>1, <1>3, <1>12, <2>1, <3>2 DEF LogsInv, Done, LogsFrom, Blank
    <3> QED
      BY <3>1, <3>2
  <2> QED
    BY <1>5, <1>12, <2>1, <2>2 DEF Blank
<1>21. pc' = "up" => Held' = Held
  <2> SUFFICES ASSUME pc' = "up"
               PROVE  Held' = Held
    OBVIOUS
  <2>1. edit.add = {}
    BY <1>5, <1>17
  <2>2. TableEntries(edit.add) = {} /\ ToSet(imm) = {}
    BY <1>1, <2>1 DEF TableEntries, PhaseInv, ToSet
  <2>3. Held' = TableEntries(vs.files) \cup ToSet(imm) \cup ToSet(mem)
    BY <1>5, <1>9 DEF Held, TableEntries
  <2> QED
    BY <1>2, <2>2, <2>3
<1>22. DiskInv' /\ Held' = Held
  BY <1>1, <1>5, <1>16, <1>19, <1>20, <1>21, DiskKept
<1>23. OrderInv'
  BY <1>1, <1>5, <1>22, OrderKept
<1>24. NextInv'
  <2>1. current \in Nat /\ Now.next \in Nat
    BY <1>1, <1>16, ManifestGood DEF DiskTypes, LogsInv, Good
  <2> QED
    BY <1>1, <1>5, <1>6, <1>8, <1>9, <1>16, <2>1 DEF NextInv
<1>25. \A e \in Held : e.seq <= last
  BY <1>2, <1>6, <1>7
<1>26. MemInv'
  BY <1>4, <1>5, <1>8, <1>9, <1>12, <1>22, <1>25 DEF MemInv
<1>27. PhaseInv' /\ StepInv'
  BY <1>1, <1>5, <1>17 DEF PhaseInv, StepInv, Closed, Open, Applying
<1>28. pc' \in {"saving", "up"} /\ vs'.open => Settled'
  <2> SUFFICES ASSUME vs'.open
               PROVE  Settled'
    OBVIOUS
  <2>1. Whole
    BY <1>1, <1>9, <1>18 DEF LogsInv
  <2>2. vs.files = Now.files /\ L = Now.log /\ Manifest.recs # <<>>
    BY <1>1, <1>3 DEF LogsInv
  <2> QED
    BY <1>9, <1>16, <2>1, <2>2 DEF Settled, Whole
<1>29. CASE save
  <2>1. pc' = "saving" /\ bg' = "apply" /\ job' = "open"
    BY <1>5, <1>29
  <2>2. PICK F, A : F = vs.files /\ A = edit.add
    OBVIOUS
  <2>3. PICK s : s = [files |-> F \cup A, log |-> n, next |-> next, last |-> last]
    OBVIOUS
  <2>4. Target' = s
    <3>1. edit'.del = {} /\ edit'.add = A /\ edit'.log = n /\ n # -1
      BY <1>1, <1>8, <1>10, <2>2 DEF LogsInv
    <3>2. vs'.files = F /\ (F \ {}) \cup A = F \cup A
      BY <1>9, <2>2
    <3> QED
      BY <1>9, <2>1, <2>3, <3>1, <3>2 DEF Target
  <2>5. s.files = F \cup A /\ s.log = n /\ s.next = next /\ s.last = last
    BY <2>3
  <2>6. TableEntries(s.files)' = TableEntries(F) \cup TableEntries(A)
    BY <1>15, <2>5 DEF TableEntries
  <2>7. LogEntries(n)' = ToSet(mem)
    <3>1. LogsFrom(n)' = {n}
      BY <1>8, <1>12, <1>13 DEF LogsFrom, DiskTypes
    <3> QED
      BY <1>12, <3>1 DEF LogEntries
  <2>8. Holds(s)' = Held'
    BY <1>2, <1>3, <1>22, <2>2, <2>5, <2>6, <2>7 DEF Holds
  <2>9. safe' \subseteq {e.w : e \in TableEntries(s.files) \cup LogSynced(s.log)}'
    <3>1. safe \subseteq {e.w : e \in TableEntries(F) \cup LogSynced(L)}
      BY <1>1, <1>3, <1>16, <2>2, ManifestGood DEF LogsInv, Good
    <3>2. LogSynced(L) \subseteq TableEntries(A) \cup LogSynced(n)
      <4> SUFFICES ASSUME NEW m \in LogsFrom(L), NEW e \in ToSet(SubSeq(logs[m].recs, 1, logs[m].synced))
                   PROVE  e \in TableEntries(A) \cup LogSynced(n)
        BY DEF LogSynced
      <4>1. m \in DOMAIN logs /\ logs[m] \in FileOf(Entry) /\ Sound(logs[m])
        BY <1>1 DEF DiskTypes, FilesSound, LogsFrom
      <4>2. e \in ToSet(logs[m].recs)
        BY <4>1, TakeFirst DEF FileOf, Sound
      <4>3. CASE m = logNumber
        <5>1. m = n /\ m \in LogsFrom(n)
          BY <1>1, <1>3, <1>8, <4>1, <4>3 DEF LogsFrom, DiskTypes
        <5> QED
          BY <5>1 DEF LogSynced
      <4>4. CASE m # logNumber
        <5>1. m \in Done \ {logNumber}
          BY <1>1, <1>3, <4>4 DEF Done
        <5> QED
          BY <1>1, <2>2, <4>2, <5>1 DEF LogsInv, DoneEntries
      <4> QED
        BY <4>3, <4>4
    <3>3. LogSynced(s.log)' = LogSynced(n)
      BY <1>11, <2>5
    <3>4. TableEntries(F) \cup LogSynced(L) \subseteq (TableEntries(s.files) \cup LogSynced(s.log))'
      BY <2>6, <3>2, <3>3
    <3> QED
      BY <1>5, <3>1, <3>4
  <2>10. Good(s)'
    <3>1. s.files \subseteq DOMAIN tables' /\ \A f \in s.files : f < next
      <4>1. \A f \in F \cup A : f \in DOMAIN tables /\ f \in Nat /\ f < vs.next
        BY <1>1, <1>2, <2>2 DEF LogsInv, DiskTypes
      <4> QED
        BY <1>5, <1>6, <1>8, <2>5, <4>1
    <3>2. \A e \in TableEntries(s.files)' : e.seq <= last
      BY <1>2, <1>3, <1>6, <1>7, <2>2, <2>6
    <3> QED
      BY <1>7, <1>8, <2>1, <2>5, <2>8, <2>9, <3>1, <3>2 DEF Good
  <2>11. ApplyInv'
    <3>1. vs.manifest < next /\ vs.manifest # 0
      BY <1>1, <1>6, <1>8, <1>16, ManifestGood, SMTT(30) DEF NextInv, LogsInv, Good, DiskTypes
    <3>2. vs.open => vs.manifest = current
      BY <1>1 DEF LogsInv
    <3>3. ~vs.open => vs.manifest # current
      <4>1. Now.next \in Nat /\ current < Now.next /\ current \in Nat
        BY <1>1, <1>16, ManifestGood DEF LogsInv, Good, DiskTypes
      <4> QED
        BY <1>1, <4>1 DEF LogsInv
    <3>4. \A t \in {Target'} : t = s /\ vs'.manifest < t.next /\ t.next <= vs'.next
      BY <1>8, <1>9, <2>4, <2>5, <3>1
    <3>5. (\A t \in {Target} : Good(t) /\ vs.manifest < t.next /\ t.next <= vs.next)'
      BY <2>10, <3>4
    <3> QED
      BY <1>5, <1>9, <2>1, <3>1, <3>2, <3>3, <3>5 DEF ApplyInv
  <2>12. SavingInv'
    BY <1>1, <1>4, <1>10, <1>26 DEF SavingInv, LogsInv
  <2> QED
    BY <1>13, <1>14, <1>22, <1>23, <1>24, <1>27, <1>28, <2>1, <2>11, <2>12 DEF IInv, Settling
<1>30. CASE ~save
  <2>1. pc' = "up" /\ bg' = "delete" /\ reuse /\ edit.add = {}
    BY <1>5, <1>17, <1>30
  <2>2. ~Fresh'
    <3>1. Whole /\ Manifest.recs # <<>> /\ Manifest.recs \in Seq(Edit)
      BY <1>1, <1>16, <1>18, <2>1, ManifestGood DEF LogsInv
    <3>2. Manifest.synced # 0
      BY <3>1, EmptySeq DEF Whole
    <3> QED
      BY <1>5, <1>16, <3>2 DEF Fresh
  <2>3. ImmInv'
    <3>1. DoneEntries = {} /\ imm = <<>> /\ ~hasImm /\ ToSet(imm) = {}
      BY <1>1, <2>1 DEF LogsInv, TableEntries, PhaseInv, ToSet
    <3>2. LogsFrom(L)' \ {n} = Done \ {logNumber}
      <4>1. CASE logNumber = 0
        <5>1. n \notin DOMAIN logs /\ logNumber \notin DOMAIN logs
          BY <1>1, <1>2, <1>3, <1>6, <4>1 DEF DiskTypes
        <5> QED
          BY <1>1, <1>3, <1>12, <5>1 DEF LogsFrom, Done
      <4>2. CASE logNumber # 0
        BY <1>1, <1>3, <1>4, <4>2 DEF LogsFrom, Done
      <4> QED
        BY <4>1, <4>2
    <3>3. \A m \in Done \ {logNumber} : m \in DOMAIN logs /\ logs'[m] = logs[m] /\ ToSet(logs[m].recs) = {}
      BY <1>12, <3>1 DEF Done, LogsFrom, DoneEntries
    <3>4. (UNION {ToSet(logs[m].recs) : m \in LogsFrom(vs.log) \ {logNumber}})' = {}
      <4>1. LogsFrom(vs.log)' = LogsFrom(L)'
        BY <1>9 DEF LogsFrom
      <4> QED
        BY <1>4, <3>2, <3>3, <4>1
    <3> QED
      BY <1>4, <1>5, <1>8, <1>9, <3>1, <3>4 DEF ImmInv
  <2>4. LiveInv'
    <3>1. \A f \in vs.files : f \in DOMAIN tables /\ f \in Nat /\ f < next
      <4>1. \A f \in vs.files : f \in DOMAIN tables /\ f \in Nat /\ f < vs.next
        BY <1>1, <1>2 DEF DiskTypes
      <4> QED
        BY <1>6, <1>8, <4>1
    <3> QED
      BY <1>1, <1>5, <1>9, <2>1, <3>1 DEF LiveInv, PhaseInv
  <2>5. BuildInv'
    BY <2>1 DEF BuildInv, Applying
  <2>6. UpInv'
    BY <1>1, <1>5, <1>9, <1>26, <2>1, <2>2, <2>3, <2>4, <2>5 DEF UpInv, LogsInv
  <2> QED
    BY <1>13, <1>14, <1>22, <1>23, <1>24, <1>27, <1>28, <2>1, <2>6 DEF IInv, Applying, Settling
<1> QED
  BY <1>17, <1>29, <1>30

-----------------------------------------------------------------------------
\* Writing.

\* Greater numbers do no harm.
LEMMA GoodLater ==
    ASSUME DiskTypes, NEW s, NEW t, Good(s), t.files = s.files, t.log = s.log,
           t.next \in Nat, s.next <= t.next, t.last \in Nat, s.last <= t.last
    PROVE  Good(t)
<1>1. s.log \in Nat /\ s.next \in Nat /\ s.last \in Nat /\ s.log < t.next
  BY DEF Good
<1>2. \A f \in s.files : f \in Nat /\ f < t.next
  <2>1. \A f \in s.files : f \in Nat /\ f < s.next
    BY DEF Good, DiskTypes
  <2> QED
    BY <1>1, <2>1
<1>3. TableEntries(t.files) = TableEntries(s.files) /\ Holds(t) = Holds(s)
  BY DEF Holds
<1>4. \A e \in TableEntries(s.files) : e.seq <= t.last
  <2>1. \A e \in TableEntries(s.files) : e \in Entry /\ e.seq <= s.last
    BY DEF Good, DiskTypes, TableEntries
  <2> QED
    BY <1>1, <2>1 DEF Entry
<1> QED
  BY <1>1, <1>2, <1>3, <1>4 DEF Good

\* An open database has a manifest that can be read.
LEMMA UpManifest ==
    ASSUME IInv, pc = "up"
    PROVE  /\ current # 0 /\ current \in DOMAIN manifests /\ Manifest.recs # <<>>
           /\ Manifest.recs \in Seq(Edit) /\ Manifest \in FileOf(Edit) /\ Sound(Manifest)
           /\ Now \in States
           /\ \A s \in States : Good(s) /\ s.log <= logNumber
<1>1. DiskTypes /\ FilesSound /\ PhaseInv /\ DiskInv /\ UpInv
  BY DEF IInv
<1>2. current # 0 /\ ~Fresh
  BY <1>1 DEF PhaseInv, UpInv
<1>3. current \in DOMAIN manifests /\ Manifest.synced # 0
  BY <1>1, <1>2 DEF DiskInv, Fresh
<1>4. Manifest \in FileOf(Edit) /\ Sound(Manifest)
  BY <1>1, <1>3 DEF DiskTypes, FilesSound, Manifest
<1>5. Manifest.recs # <<>> /\ Manifest.recs \in Seq(Edit)
  BY <1>3, <1>4 DEF Sound, FileOf
<1>6. Now \in States
  BY <1>1, <1>3, <1>5, NowIsState
<1> QED
  BY <1>1, <1>2, <1>3, <1>4, <1>5, <1>6 DEF DiskInv, Good

\* A step of an open database that leaves the manifest and its versions alone.
LEMMA UpKept ==
    ASSUME IInv, pc = "up", UNCHANGED <<pc, bg, current, manifests, edit, record, out, pending, job, bgError>>,
           vs'.files = vs.files, vs'.log = vs.log, vs'.manifest = vs.manifest, vs'.open = vs.open,
           vs.next <= vs'.next, vs.last <= vs'.last, hasImm => hasImm',
           \A s : Good(s) => Good(s)',
           (DiskTypes /\ FilesSound /\ MemoryTypes /\ OrderInv)',
           (MemInv /\ ImmInv /\ LiveInv /\ BuildInv)'
    PROVE  IInv'
<1>1. /\ DiskTypes /\ FilesSound /\ MemoryTypes /\ PhaseInv /\ StepInv /\ DiskInv /\ NextInv /\ UpInv
      /\ (bg \in Applying => ApplyInv) /\ (Settling => Settled)
  BY DEF IInv, Open
<1>2. current # 0 /\ current \in DOMAIN manifests /\ Now \in States
  BY UpManifest
<1>3. Manifest' = Manifest /\ Now' = Now /\ States' = States
  <2>1. ManifestKept
    BY <1>2 DEF ManifestKept
  <2> QED
    BY <1>2, <2>1, StatesKept
<1>4. PhaseInv' /\ StepInv'
  BY <1>1, <1>2 DEF PhaseInv, StepInv, Closed, Open
<1>5. ~Fresh'
  BY <1>1, <1>3 DEF UpInv, Fresh
<1>6. DiskInv'
  BY <1>1, <1>2, <1>3, <1>5 DEF DiskInv
<1>7. UpInv'
  BY <1>1, <1>5 DEF UpInv
<1>8. /\ vs.next \in Nat /\ vs.last \in Nat /\ vs'.next \in Nat /\ vs'.last \in Nat
      /\ vs.manifest \in Nat /\ current \in Nat
  BY <1>1 DEF MemoryTypes, Versions, DiskTypes
<1>9. NextInv'
  <2>1. Now.next \in Nat
    BY <1>1, <1>2 DEF DiskInv, Good
  <2> QED
    BY <1>1, <1>3, <1>8, <2>1 DEF NextInv
<1>10. bg \in Applying => ApplyInv'
  <2> SUFFICES ASSUME bg \in Applying
               PROVE  ApplyInv'
    OBVIOUS
  <2>1. PICK s, t : s = Target /\ t = Target'
    OBVIOUS
  <2>2. Good(s) /\ vs.manifest < s.next /\ s.next <= vs.next /\ ApplyInv
    BY <1>1, <2>1 DEF ApplyInv
  <2>3. s.next \in Nat /\ s.last \in Nat
    BY <2>2 DEF Good
  <2>4. t.files = s.files /\ t.log = s.log /\ (bg # "apply" => t = s)
    BY <2>1 DEF Target
  <2>5. bg = "apply" => s.next = vs.next /\ s.last = vs.last /\ t.next = vs'.next /\ t.last = vs'.last
    BY <2>1 DEF Target
  <2>6. t.next \in Nat /\ t.last \in Nat /\ s.next <= t.next /\ s.last <= t.last /\ t.next <= vs'.next
    BY <1>8, <2>2, <2>3, <2>4, <2>5
  <2>7. Good(t)
    BY <1>1, <2>2, <2>4, <2>6, GoodLater
  <2>8. Good(t)' /\ vs.manifest < t.next
    BY <1>8, <2>2, <2>3, <2>6, <2>7
  <2>9. (\A x \in {Target} : Good(x) /\ vs.manifest < x.next /\ x.next <= vs.next)'
    BY <2>1, <2>6, <2>8
  <2>10. Target.log' = Target.log /\ (bg # "apply" => Target' = Target)
    BY <2>1, <2>4
  <2>11. Written' = Written
    BY DEF Written
  <2> QED
    BY <1>3, <2>2, <2>9, <2>10, <2>11 DEF ApplyInv
<1>11. Settling' => Settled'
  BY <1>1, <1>3 DEF Settling, Settled
<1> QED
  BY <1>4, <1>6, <1>7, <1>9, <1>10, <1>11 DEF IInv

\* A record of a log.
LEMMA LogWritten ==
    ASSUME DiskTypes, FilesSound, NEW n \in DOMAIN logs, NEW e \in Entry, logs[n].torn = -1,
           NEW sync \in BOOLEAN,
           logs' = [logs EXCEPT ![n] = IF sync THEN Synced(AppendTo(logs[n], e)) ELSE AppendTo(logs[n], e)]
    PROVE  /\ DOMAIN logs' = DOMAIN logs /\ \A m \in DOMAIN logs : m # n => logs'[m] = logs[m]
           /\ logs'[n].recs = Append(logs[n].recs, e) /\ logs'[n].torn = -1
           /\ logs'[n] \in FileOf(Entry) /\ Sound(logs'[n])
           /\ \A L : n >= L => /\ LogEntries(L)' = LogEntries(L) \cup {e}
                               /\ LogSynced(L) \subseteq LogSynced(L)'
                               /\ sync => e \in LogSynced(L)'
<1> DEFINE old == logs[n]
           file == AppendTo(old, e)
           recs == Append(old.recs, e)
<1>1. /\ old \in FileOf(Entry) /\ Sound(old) /\ old.recs \in Seq(Entry) /\ Len(old.recs) \in Nat
      /\ old.synced \in 0..Len(old.recs)
  BY LenProperties DEF DiskTypes, FilesSound, FileOf, Sound
<1>2. /\ file = [recs |-> recs, synced |-> old.synced, torn |-> old.torn]
      /\ file \in FileOf(Entry) /\ Sound(file)
  BY <1>1, Appended
<1>3. /\ recs \in Seq(Entry) /\ Len(recs) = Len(old.recs) + 1
      /\ ToSet(recs) = ToSet(old.recs) \cup {e}
      /\ \A k \in 0..Len(old.recs) : SubSeq(recs, 1, k) = SubSeq(old.recs, 1, k)
  BY <1>1, OneMore
<1> HIDE DEF old, file, recs
<1>4. /\ Synced(file) = [recs |-> recs, synced |-> Len(recs), torn |-> old.torn]
      /\ Synced(file) \in FileOf(Entry) /\ Sound(Synced(file))
  <2>1. file.recs = recs /\ file.torn = old.torn
    BY <1>2
  <2> QED
    BY <1>2, <2>1, SyncedIs
<1>5. /\ DOMAIN logs' = DOMAIN logs /\ \A m \in DOMAIN logs : m # n => logs'[m] = logs[m]
      /\ logs'[n] = IF sync THEN Synced(file) ELSE file
  BY DEF DiskTypes, old, file
<1>6. /\ logs'[n].recs = recs /\ logs'[n].torn = -1
      /\ logs'[n] \in FileOf(Entry) /\ Sound(logs'[n])
      /\ logs'[n].synced = IF sync THEN Len(recs) ELSE old.synced
  BY <1>2, <1>4, <1>5 DEF old
<1>7. /\ ToSet(SubSeq(old.recs, 1, old.synced)) \subseteq ToSet(SubSeq(logs'[n].recs, 1, logs'[n].synced))
      /\ sync => e \in ToSet(SubSeq(logs'[n].recs, 1, logs'[n].synced))
  <2>1. ToSet(SubSeq(old.recs, 1, old.synced)) \subseteq ToSet(old.recs)
    BY <1>1, TakeFirst
  <2>2. SubSeq(recs, 1, Len(recs)) = recs
    <3>1. Len(recs) \in 0..Len(recs)
      BY <1>1, <1>3
    <3> QED
      BY <1>3, <3>1, TakeFirst
  <2> QED
    BY <1>1, <1>3, <1>6, <2>1, <2>2
<1>8. ASSUME NEW L, n >= L
      PROVE  /\ LogEntries(L)' = LogEntries(L) \cup {e}
             /\ LogSynced(L) \subseteq LogSynced(L)'
             /\ sync => e \in LogSynced(L)'
  <2>1. LogsFrom(L)' = LogsFrom(L) /\ n \in LogsFrom(L) /\ LogsFrom(L) \subseteq DOMAIN logs
    BY <1>5, <1>8 DEF LogsFrom
  <2>2. LogEntries(L)' = LogEntries(L) \cup {e}
    <3>1. \A m \in LogsFrom(L) : ToSet(logs'[m].recs) = ToSet(logs[m].recs) \cup (IF m = n THEN {e} ELSE {})
      BY <1>3, <1>5, <1>6, <2>1 DEF old
    <3> QED
      BY <2>1, <3>1 DEF LogEntries
  <2>3. \A m \in LogsFrom(L) : ToSet(SubSeq(logs[m].recs, 1, logs[m].synced))
                                 \subseteq ToSet(SubSeq(logs'[m].recs, 1, logs'[m].synced))
    BY <1>5, <1>7, <2>1 DEF old
  <2>4. LogSynced(L) \subseteq LogSynced(L)'
    BY <2>1, <2>3 DEF LogSynced
  <2>5. sync => e \in LogSynced(L)'
    BY <1>7, <2>1 DEF LogSynced
  <2> QED
    BY <2>2, <2>4, <2>5
<1> QED
  BY <1>5, <1>6, <1>8 DEF recs, old

\* Write adds one entry, to the log and to the memtable.
LEMMA WriteStep ==
    ASSUME IInv, NEW sync \in BOOLEAN, Write(sync)
    PROVE  IInv' /\ {x.w : x \in Held'} = {x.w : x \in Held} \cup {written + 1}
<1>1. /\ DiskTypes /\ FilesSound /\ MemoryTypes /\ StepInv /\ OrderInv /\ UpInv /\ pc = "up"
      /\ MemInv /\ ImmInv /\ LiveInv /\ BuildInv
  BY DEF IInv, Write, UpInv
<1>2. PICK n, e : n = logNumber /\ e = [w |-> written + 1, seq |-> vs.last + 1]
  OBVIOUS
<1>3. /\ logs' = [logs EXCEPT ![n] = IF sync THEN Synced(AppendTo(logs[n], e)) ELSE AppendTo(logs[n], e)]
      /\ mem' = Append(mem, e)
      /\ safe' = IF sync THEN safe \cup {e.w} ELSE safe
      /\ written' = written + 1
      /\ vs' = [vs EXCEPT !.last = vs.last + 1]
      /\ UNCHANGED <<current, manifests, tables, temps, pc, bg, job, imm, hasImm, logNumber, editVars, pinned,
                     openVars, bgError, pins>>
  BY <1>2 DEF Write
<1> USE DEF editVars, openVars
<1>4. /\ vs \in Versions /\ vs.last \in Nat /\ vs.next \in Nat /\ written \in Nat /\ mem \in Seq(Entry)
      /\ n \in Nat /\ imm \in Seq(Entry)
  BY <1>1, <1>2 DEF MemoryTypes, Versions
<1>5. e \in Entry /\ e.w = written + 1 /\ e.seq = vs.last + 1
  BY <1>2, <1>4 DEF Entry
<1>6. n \in DOMAIN logs /\ mem = logs[n].recs /\ logs[n].torn = -1 /\ n < vs.next
      /\ \A m \in DOMAIN logs : m <= n
  BY <1>1, <1>2 DEF MemInv
<1>7. /\ DOMAIN logs' = DOMAIN logs /\ \A m \in DOMAIN logs : m # n => logs'[m] = logs[m]
      /\ logs'[n].recs = Append(logs[n].recs, e) /\ logs'[n].torn = -1
      /\ logs'[n] \in FileOf(Entry) /\ Sound(logs'[n])
      /\ \A L : n >= L => /\ LogEntries(L)' = LogEntries(L) \cup {e}
                          /\ LogSynced(L) \subseteq LogSynced(L)'
                          /\ sync => e \in LogSynced(L)'
  BY <1>1, <1>3, <1>5, <1>6, LogWritten
<1>8. /\ vs' \in Versions /\ vs'.last = vs.last + 1 /\ vs'.next = vs.next
      /\ vs'.files = vs.files /\ vs'.log = vs.log /\ vs'.manifest = vs.manifest /\ vs'.open = vs.open
  <2>1. PICK x \in Nat : x = vs.last + 1
    BY <1>4
  <2>2. vs' = [vs EXCEPT !.last = x]
    BY <1>3, <2>1
  <2> QED
    BY <1>4, <2>1, <2>2 DEF Versions
<1>9. mem' \in Seq(Entry) /\ ToSet(mem') = ToSet(mem) \cup {e}
  BY <1>3, <1>4, <1>5, OneMore
<1>10. DiskTypes' /\ FilesSound'
  <2>1. \A m \in DOMAIN logs' : logs'[m] \in FileOf(Entry) /\ Sound(logs'[m])
    BY <1>1, <1>7 DEF DiskTypes, FilesSound
  <2>2. logs' = [m \in DOMAIN logs' |-> logs'[m]]
    BY <1>3, <1>7
  <2>3. logs' \in [DOMAIN logs' -> FileOf(Entry)]
    BY <2>1, <2>2
  <2> QED
    BY <1>1, <1>3, <1>7, <2>1, <2>3 DEF DiskTypes, FilesSound
<1>11. MemoryTypes'
  <2>1. written' \in Nat
    BY <1>3, <1>4
  <2> QED
    BY <1>1, <1>3, <1>8, <1>9, <2>1 DEF MemoryTypes
<1>12. Held' = Held \cup {e}
  <2>1. Held = TableEntries(vs.files) \cup ToSet(imm) \cup ToSet(mem)
    BY <1>1 DEF Held
  <2>2. Held' = TableEntries(vs.files) \cup ToSet(imm) \cup ToSet(mem')
    BY <1>1, <1>3, <1>8 DEF Held, TableEntries
  <2> QED
    BY <1>9, <2>1, <2>2
<1>13. ASSUME NEW s, Good(s)
       PROVE  Good(s)'
  <2>1. s.log <= n /\ s.log \in Nat
    BY <1>1, <1>2, <1>13 DEF Good
  <2>2. /\ LogEntries(s.log)' = LogEntries(s.log) \cup {e}
        /\ LogSynced(s.log) \subseteq LogSynced(s.log)'
        /\ sync => e \in LogSynced(s.log)'
    <3>1. n >= s.log
      BY <1>4, <2>1
    <3> QED
      BY <1>7, <3>1
  <2>3. TableEntries(s.files)' = TableEntries(s.files)
    BY <1>3 DEF TableEntries
  <2>4. Holds(s)' = Held'
    BY <1>12, <1>13, <2>2, <2>3 DEF Good, Holds
  <2>5. safe' \subseteq {x.w : x \in TableEntries(s.files)' \cup LogSynced(s.log)'}
    <3>1. safe \subseteq {x.w : x \in TableEntries(s.files) \cup LogSynced(s.log)}
      BY <1>13 DEF Good
    <3>2. safe \subseteq {x.w : x \in TableEntries(s.files)' \cup LogSynced(s.log)'}
      BY <2>2, <2>3, <3>1
    <3> QED
      BY <1>3, <2>2, <3>2
  <2>6. s.log <= logNumber'
    BY <1>2, <1>3, <2>1
  <2> QED
    BY <1>3, <1>13, <2>3, <2>4, <2>5, <2>6 DEF Good
<1>14. OrderInv'
  <2>1. \A x \in Held : x \in Entry /\ x.w <= written /\ x.seq <= vs.last
    <3>1. \A x \in Held : x \in Entry
      <4>1. ToSet(imm) \subseteq Entry /\ ToSet(mem) \subseteq Entry
        BY <1>4, InSequence
      <4>2. TableEntries(vs.files) \subseteq Entry
        BY <1>1 DEF TableEntries, LiveInv, DiskTypes
      <4> QED
        BY <1>1, <4>1, <4>2 DEF Held
    <3> QED
      BY <1>1, <3>1 DEF OrderInv, MemInv
  <2>2. \A x \in Held : /\ x.w \in Nat /\ x.seq \in Nat /\ x.w < e.w /\ x.seq < e.seq
                        /\ x.w <= written' /\ ~(e.w < x.w) /\ ~(e.seq < x.seq)
    BY <1>3, <1>4, <1>5, <2>1, SMTT(30) DEF Entry
  <2>3. e.w <= written' /\ ~(e.w < e.w) /\ ~(e.seq < e.seq)
    BY <1>3, <1>4, <1>5
  <2>4. \A x \in Held : \A y \in Held : x.seq < y.seq <=> x.w < y.w
    BY <1>1 DEF OrderInv
  <2> QED
    BY <1>12, <2>2, <2>3, <2>4 DEF OrderInv
<1>15. MemInv'
  <2>1. \A x \in Held' : x.seq <= vs'.last
    <3>1. \A x \in Held : x.seq <= vs.last
      BY <1>1 DEF MemInv
    <3>2. \A x \in Held : x.seq \in Nat
      <4>1. ToSet(imm) \subseteq Entry /\ ToSet(mem) \subseteq Entry
        BY <1>4, InSequence
      <4>2. TableEntries(vs.files) \subseteq Entry
        BY <1>1 DEF TableEntries, LiveInv, DiskTypes
      <4> QED
        BY <1>1, <4>1, <4>2 DEF Held, Entry
    <3>3. \A x \in Held : x.seq <= vs.last + 1
      BY <1>4, <3>1, <3>2
    <3>4. e.seq <= vs.last + 1
      BY <1>4, <1>5
    <3> QED
      BY <1>8, <1>12, <3>3, <3>4
  <2> QED
    BY <1>2, <1>3, <1>6, <1>7, <1>8, <2>1 DEF MemInv
<1>16. ImmInv'
  <2>1. LogsFrom(vs.log)' = LogsFrom(vs.log) /\ \A m \in LogsFrom(vs.log) \ {n} : logs'[m] = logs[m]
    BY <1>7, <1>8 DEF LogsFrom
  <2>2. (UNION {ToSet(logs[m].recs) : m \in LogsFrom(vs.log) \ {logNumber}})'
           = UNION {ToSet(logs[m].recs) : m \in LogsFrom(vs.log) \ {logNumber}}
    BY <1>2, <1>3, <2>1
  <2> QED
    BY <1>1, <1>3, <1>8, <2>2 DEF ImmInv
<1>17. LiveInv'
  BY <1>1, <1>3, <1>8 DEF LiveInv
<1>18. BuildInv'
  <2>1. Manifest' = Manifest /\ Now' = Now
    BY <1>3 DEF Manifest, Now
  <2> QED
    BY <1>1, <1>3, <1>8, <2>1 DEF BuildInv
<1>19. vs.next <= vs'.next /\ vs.last <= vs'.last
  BY <1>4, <1>8
<1>20. {x.w : x \in Held'} = {x.w : x \in Held} \cup {written + 1}
  BY <1>5, <1>12
<1> QED
  BY <1>1, <1>3, <1>8, <1>10, <1>11, <1>13, <1>14, <1>15, <1>16, <1>17, <1>18, <1>19, <1>20, UpKept

\* MakeRoomForWrite: the entries of the memtable are now those of imm.
LEMMA SwitchMemStep == ASSUME IInv, SwitchMem PROVE IInv' /\ Held' = Held
<1>1. /\ DiskTypes /\ FilesSound /\ MemoryTypes /\ StepInv /\ OrderInv /\ UpInv /\ pc = "up"
      /\ MemInv /\ ImmInv /\ LiveInv /\ BuildInv /\ ~hasImm
  BY DEF IInv, SwitchMem, UpInv
<1>2. PICK n, k : n = vs.next /\ k = logNumber
  OBVIOUS
<1>3. /\ logs' = Put(logs, n, EmptyFile) /\ logNumber' = n
      /\ vs' = [vs EXCEPT !.next = vs.next + 1]
      /\ imm' = mem /\ hasImm' = TRUE /\ mem' = <<>>
      /\ UNCHANGED <<current, manifests, tables, temps, pc, bg, job, editVars, pinned, openVars, bgError,
                     written, safe, pins>>
  BY <1>2 DEF SwitchMem, ghosts
<1> USE DEF editVars, openVars
<1>4. /\ vs \in Versions /\ vs.last \in Nat /\ vs.next \in Nat /\ mem \in Seq(Entry)
      /\ n \in Nat /\ k \in Nat /\ vs.log \in Nat
  BY <1>1, <1>2 DEF MemoryTypes, Versions
<1>5. /\ k \in DOMAIN logs /\ mem = logs[k].recs /\ k < n /\ vs.log <= k /\ imm = <<>>
      /\ \A m \in DOMAIN logs : m \in Nat /\ m <= k /\ m < n
  BY <1>1, <1>2, <1>4 DEF MemInv, ImmInv, DiskTypes
<1>6. n \notin DOMAIN logs
  BY <1>4, <1>5
<1>7. /\ DOMAIN logs' = DOMAIN logs \cup {n} /\ logs'[n] = EmptyFile
      /\ \A m \in DOMAIN logs : logs'[m] = logs[m]
      /\ \A L : LogEntries(L)' = LogEntries(L) /\ LogSynced(L)' = LogSynced(L)
  BY <1>3, <1>6, LogBegins DEF Put
<1>8. /\ vs' \in Versions /\ vs'.last = vs.last /\ vs'.next = vs.next + 1
      /\ vs'.files = vs.files /\ vs'.log = vs.log /\ vs'.manifest = vs.manifest /\ vs'.open = vs.open
  <2>1. PICK x \in Nat : x = vs.next + 1
    BY <1>4
  <2>2. vs' = [vs EXCEPT !.next = x]
    BY <1>3, <2>1
  <2> QED
    BY <1>4, <2>1, <2>2 DEF Versions
<1>9. DiskTypes' /\ FilesSound'
  <2>1. \A m \in DOMAIN logs' : logs'[m] \in FileOf(Entry) /\ Sound(logs'[m]) /\ m \in Nat \ {0}
    BY <1>1, <1>4, <1>5, <1>7, EmptyFileIs DEF DiskTypes, FilesSound
  <2>2. logs' = [m \in DOMAIN logs' |-> logs'[m]]
    BY <1>3 DEF Put
  <2>3. logs' \in [DOMAIN logs' -> FileOf(Entry)]
    BY <2>1, <2>2
  <2> QED
    BY <1>1, <1>3, <2>1, <2>3 DEF DiskTypes, FilesSound
<1>10. MemoryTypes'
  <2>1. mem' \in Seq(Entry) /\ imm' \in Seq(Entry) /\ logNumber' \in Nat
    BY <1>3, <1>4
  <2>2. hasImm' \in BOOLEAN
    BY <1>3
  <2> QED
    BY <1>1, <1>3, <1>8, <2>1, <2>2 DEF MemoryTypes
<1>11. ToSet(<<>>) = {}
  BY DEF ToSet
<1>12. Held' = Held
  <2>1. Held = TableEntries(vs.files) \cup ToSet(imm) \cup ToSet(mem)
    BY <1>1 DEF Held
  <2>2. Held' = TableEntries(vs.files) \cup ToSet(imm') \cup ToSet(mem')
    BY <1>1, <1>3, <1>8 DEF Held, TableEntries
  <2> QED
    BY <1>3, <1>5, <1>11, <2>1, <2>2
<1>13. ASSUME NEW s, Good(s)
       PROVE  Good(s)'
  <2>1. s.log <= logNumber'
    <3>1. s.log <= k /\ s.log \in Nat
      BY <1>1, <1>2, <1>13 DEF Good
    <3> QED
      BY <1>3, <1>4, <1>5, <3>1
  <2>2. Same(s)
    BY <1>3, <1>7, <1>13, <2>1 DEF Same, Good
  <2> QED
    BY <1>3, <1>12, <1>13, <2>2, GoodKept
<1>14. OrderInv'
  BY <1>1, <1>3, <1>12, OrderKept
<1>15. MemInv'
  <2>1. \A m \in DOMAIN logs' : m <= n
    BY <1>4, <1>5, <1>7
  <2>2. logs'[n].recs = <<>> /\ logs'[n].torn = -1
    BY <1>7, EmptyFileIs
  <2>3. n < vs'.next
    BY <1>2, <1>4, <1>8
  <2> QED
    BY <1>1, <1>3, <1>7, <1>8, <1>12, <2>1, <2>2, <2>3 DEF MemInv
<1>16. ImmInv'
  <2>1. LogsFrom(vs.log)' \ {n} = (LogsFrom(vs.log) \ {k}) \cup {k}
    BY <1>4, <1>5, <1>6, <1>7, <1>8 DEF LogsFrom
  <2>2. \A m \in LogsFrom(vs.log) \ {k} : ToSet(logs[m].recs) = {}
    BY <1>1, <1>2, <1>5, <1>11 DEF ImmInv
  <2>3. \A m \in LogsFrom(vs.log) : logs'[m] = logs[m]
    BY <1>7 DEF LogsFrom
  <2>4. (UNION {ToSet(logs[m].recs) : m \in LogsFrom(vs.log) \ {logNumber}})' = ToSet(mem)
    <3>1. (UNION {ToSet(logs[m].recs) : m \in LogsFrom(vs.log) \ {logNumber}})'
             = UNION {ToSet(logs'[m].recs) : m \in (LogsFrom(vs.log) \ {k}) \cup {k}}
      BY <1>3, <2>1
    <3>2. logs'[k] = logs[k]
      BY <1>5, <1>7
    <3>3. ToSet(logs'[k].recs) = ToSet(mem) /\ \A m \in LogsFrom(vs.log) \ {k} : ToSet(logs'[m].recs) = {}
      BY <1>5, <2>2, <2>3, <3>2
    <3> QED
      BY <3>1, <3>3
  <2>5. vs'.log <= n
    BY <1>4, <1>5, <1>8
  <2> QED
    BY <1>3, <2>4, <2>5 DEF ImmInv
<1>17. LiveInv'
  <2>1. \A f : f \in Nat /\ f < vs.next => f < vs'.next
    BY <1>4, <1>8
  <2>2. DOMAIN tables \subseteq Nat
    BY <1>1 DEF DiskTypes
  <2> QED
    BY <1>1, <1>3, <1>8, <2>1, <2>2 DEF LiveInv
<1>18. BuildInv'
  <2>1. Manifest' = Manifest /\ Now' = Now
    BY <1>3 DEF Manifest, Now
  <2>2. bg \in Applying => job = "compact"
    BY <1>1 DEF StepInv
  <2>3. out \in Nat /\ (out < vs.next => out < vs'.next)
    BY <1>1, <1>4, <1>8 DEF MemoryTypes
  <2> QED
    BY <1>1, <1>3, <1>8, <2>1, <2>2, <2>3 DEF BuildInv
<1>19. vs.next <= vs'.next /\ vs.last <= vs'.last
  BY <1>4, <1>8
<1> QED
  BY <1>1, <1>3, <1>8, <1>9, <1>10, <1>12, <1>13, <1>14, <1>15, <1>16, <1>17, <1>18, <1>19, UpKept

\* Iterators change nothing but which tables are in use.
LEMMA PinKept ==
    ASSUME IInv, pc = "up",
           UNCHANGED <<current, manifests, logs, tables, pc, bg, job, memVars, vs, editVars, openVars, bgError,
                       written, safe>>,
           pins' \in Nat, LiveInv', BuildInv'
    PROVE  IInv' /\ Held' = Held
<1> USE DEF memVars, editVars, openVars
<1>1. /\ DiskTypes /\ FilesSound /\ MemoryTypes /\ OrderInv /\ UpInv /\ MemInv /\ ImmInv
  BY DEF IInv, UpInv
<1>2. Held' = Held
  BY DEF Held, TableEntries
<1>3. ASSUME NEW s, Good(s)
      PROVE  Good(s)'
  <2>1. LogEntries(s.log)' = LogEntries(s.log) /\ LogSynced(s.log)' = LogSynced(s.log)
    BY LogsSame
  <2>2. Same(s)
    BY <1>3, <2>1 DEF Same, Good
  <2> QED
    BY <1>2, <1>3, <2>2, GoodKept
<1>4. DiskTypes' /\ FilesSound' /\ MemoryTypes'
  BY <1>1 DEF DiskTypes, FilesSound, MemoryTypes
<1>5. OrderInv'
  BY <1>1, <1>2, OrderKept
<1>6. MemInv'
  BY <1>1, <1>2 DEF MemInv
<1>7. ImmInv'
  BY <1>1 DEF ImmInv, LogsFrom
<1>8. vs.next <= vs'.next /\ vs.last <= vs'.last
  BY <1>1 DEF MemoryTypes, Versions
<1> QED
  BY <1>2, <1>3, <1>4, <1>5, <1>6, <1>7, <1>8, UpKept

\* NewIterator holds the tables of the current version, all of which are there.
LEMMA PinStep == ASSUME IInv, Pin PROVE IInv' /\ Held' = Held
<1>1. /\ UpInv /\ LiveInv /\ BuildInv /\ pc = "up" /\ pins \in Nat
      /\ pinned' = pinned \cup {vs.files} /\ pins' = pins + 1
      /\ UNCHANGED <<diskVars, pc, bg, job, memVars, vs, editVars, openVars, bgError, written, safe>>
  BY DEF IInv, Pin, UpInv, MemoryTypes
<1>2. LiveInv'
  BY <1>1 DEF LiveInv, diskVars
<1>3. BuildInv'
  BY <1>1 DEF BuildInv, diskVars, editVars, memVars, Now, Manifest
<1> QED
  BY <1>1, <1>2, <1>3, PinKept DEF diskVars

\* An iterator is released.
LEMMA UnpinStep == ASSUME IInv, Unpin PROVE IInv' /\ Held' = Held
<1>1. /\ PhaseInv /\ StepInv /\ (pc = "up" => LiveInv /\ BuildInv) /\ pins \in Nat
      /\ \E v \in pinned : pinned' = pinned \ {v}
      /\ UNCHANGED <<diskVars, pc, bg, job, memVars, vs, editVars, openVars, bgError, ghosts>>
  BY DEF IInv, Unpin, UpInv, MemoryTypes
<1> USE DEF diskVars, editVars, memVars, openVars, ghosts
<1>2. CASE pc = "up"
  <2>1. LiveInv'
    BY <1>1, <1>2 DEF LiveInv
  <2>2. BuildInv'
    BY <1>1, <1>2 DEF BuildInv, Now, Manifest
  <2> QED
    BY <1>1, <1>2, <2>1, <2>2, PinKept
<1>3. CASE pc # "up"
  <2>1. pc = "failed"
    BY <1>1, <1>3 DEF PhaseInv, Open
  <2>2. (DiskTypes /\ FilesSound /\ DiskInv /\ OrderInv)' /\ Held' = Held
    BY <1>1, <1>3, DiskQuiet
  <2>3. PhaseInv' /\ StepInv'
    BY <1>1, <2>1 DEF PhaseInv, StepInv, Closed
  <2>4. MemoryTypes'
    BY <1>1 DEF IInv, MemoryTypes
  <2> QED
    BY <1>1, <2>1, <2>2, <2>3, <2>4, ClosedInv
<1> QED
  BY <1>2, <1>3

-----------------------------------------------------------------------------
\* The background thread.

\* The tables that the manifest may name have numbers the version set has given out.
LEMMA NamedTables ==
    ASSUME IInv, pc = "up"
    PROVE  /\ Now.next \in Nat /\ Now.next <= vs.next /\ vs.next \in Nat
           /\ \A s \in States : \A f \in s.files : f \in DOMAIN tables /\ f \in Nat /\ f < Now.next /\ f < vs.next
           /\ \A f \in vs.files : f \in DOMAIN tables /\ f \in Nat /\ f < vs.next
<1>1. DiskTypes /\ MemoryTypes /\ DiskInv /\ NextInv /\ LiveInv
  BY DEF IInv, Open, UpInv
<1>2. current # 0 /\ Now \in States /\ \A s \in States : Good(s)
  BY UpManifest
<1>3. Now.next \in Nat /\ Now.next <= vs.next /\ vs.next \in Nat
  BY <1>1, <1>2 DEF Good, NextInv, MemoryTypes, Versions
<1>4. ASSUME NEW s \in States, NEW f \in s.files
      PROVE  f \in DOMAIN tables /\ f \in Nat /\ f < Now.next /\ f < vs.next
  <2>1. f \in DOMAIN tables /\ f \in Nat /\ f < s.next /\ s.next \in Nat /\ s.next <= Now.next
    BY <1>1, <1>2 DEF Good, DiskInv, DiskTypes
  <2> QED
    BY <1>3, <2>1
<1>5. \A f \in vs.files : f \in DOMAIN tables /\ f \in Nat /\ f < vs.next
  BY <1>1 DEF LiveInv, DiskTypes
<1> QED
  BY <1>3, <1>4, <1>5

\* A step that leaves the logs and memtables alone.
LEMMA MemKept ==
    ASSUME IInv, pc = "up", UNCHANGED <<logs, memVars>>, Held' = Held, vs' \in Versions,
           vs'.log = vs.log, vs'.last = vs.last, vs.next <= vs'.next
    PROVE  MemInv' /\ ImmInv'
<1> USE DEF memVars
<1>1. MemInv /\ ImmInv /\ logNumber \in Nat /\ vs.next \in Nat /\ vs'.next \in Nat
  BY DEF IInv, UpInv, MemoryTypes, Versions
<1>2. MemInv'
  BY <1>1 DEF MemInv
<1>3. ImmInv'
  BY <1>1 DEF ImmInv, LogsFrom
<1> QED
  BY <1>2, <1>3

\* A step of the open database that leaves its contents and the manifest alone.
LEMMA UpMoves ==
    ASSUME IInv, pc = "up", pc' = "up", ManifestKept, \A s \in States : Same(s), Held' = Held,
           UNCHANGED <<safe, written>>,
           vs'.files = vs.files, vs'.log = vs.log, vs'.manifest = vs.manifest, vs'.open = vs.open,
           vs.next <= vs'.next,
           (DiskTypes /\ FilesSound /\ MemoryTypes /\ StepInv)',
           (MemInv /\ ImmInv /\ LiveInv /\ BuildInv)',
           bg' \in Applying => ApplyInv', Settling' => Settling
    PROVE  IInv'
<1>1. /\ DiskTypes /\ FilesSound /\ MemoryTypes /\ PhaseInv /\ DiskInv /\ OrderInv /\ NextInv /\ UpInv
      /\ (Settling => Settled)
  BY DEF IInv, Open
<1>2. current # 0 /\ current \in DOMAIN manifests /\ Now \in States
  BY UpManifest
<1>3. Manifest' = Manifest /\ Now' = Now /\ States' = States /\ current' = current
  BY <1>2, StatesKept DEF ManifestKept
<1>4. ~Fresh /\ ~Fresh'
  BY <1>1, <1>3 DEF UpInv, Fresh
<1>5. DiskInv'
  BY <1>1, <1>4, DiskKept
<1>6. OrderInv'
  BY <1>1, OrderKept
<1>7. PhaseInv'
  BY <1>1, <1>2, <1>3 DEF PhaseInv, Closed, Open
<1>8. UpInv'
  BY <1>1, <1>3, <1>4 DEF UpInv
<1>9. NextInv'
  <2>1. /\ vs.next \in Nat /\ vs'.next \in Nat /\ vs.manifest \in Nat /\ current \in Nat /\ Now.next \in Nat
    BY <1>1, NamedTables DEF MemoryTypes, Versions, DiskTypes
  <2> QED
    BY <1>1, <1>3, <2>1 DEF NextInv
<1>10. Settling' => Settled'
  BY <1>1, <1>3 DEF Settled
<1> QED
  BY <1>5, <1>6, <1>7, <1>8, <1>9, <1>10 DEF IInv

\* A flush or a compaction creates a file with a number nobody uses.
LEMMA StartTableStep ==
    ASSUME IInv, NEW forJob \in {"flush", "compact"}, StartTable(forJob), forJob = "flush" => hasImm
    PROVE  IInv' /\ Held' = Held
<1>1. /\ DiskTypes /\ FilesSound /\ MemoryTypes /\ StepInv /\ LiveInv /\ pc = "up" /\ bg = "idle" /\ ~bgError
  BY DEF IInv, StartTable, UpInv
<1>2. PICK n \in Nat : n = vs.next
  BY <1>1 DEF MemoryTypes, Versions
<1>3. /\ job' = forJob /\ out' = n /\ pending' = pending \cup {n}
      /\ tables' = Put(tables, n, {})
      /\ vs' = [vs EXCEPT !.next = n + 1]
      /\ edit' = EmptyEdit /\ bg' = "build"
      /\ UNCHANGED <<current, manifests, logs, temps, pc, memVars, record, pinned, openVars, bgError, ghosts>>
  BY <1>2 DEF StartTable
<1> USE DEF openVars, ghosts
<1>4. /\ vs' \in Versions /\ vs'.last = vs.last /\ vs'.next = n + 1
      /\ vs'.files = vs.files /\ vs'.log = vs.log /\ vs'.manifest = vs.manifest /\ vs'.open = vs.open
  <2>1. PICK x \in Nat : x = n + 1
    OBVIOUS
  <2>2. vs' = [vs EXCEPT !.next = x]
    BY <1>3, <2>1
  <2> QED
    BY <1>1, <2>1, <2>2 DEF MemoryTypes, Versions
<1>5. /\ DOMAIN tables' = DOMAIN tables \cup {n} /\ tables'[n] = {}
      /\ \A f \in DOMAIN tables : f # n => tables'[f] = tables[f]
      /\ tables' = [f \in DOMAIN tables' |-> tables'[f]]
  BY <1>3 DEF Put
<1>6. DiskTypes' /\ FilesSound'
  <2>1. \A f \in DOMAIN tables' : tables'[f] \in SUBSET Entry /\ f \in Nat
    BY <1>1, <1>5 DEF DiskTypes
  <2>2. tables' \in [DOMAIN tables' -> SUBSET Entry]
    BY <1>5, <2>1
  <2> QED
    BY <1>1, <1>3, <2>1, <2>2 DEF DiskTypes, FilesSound
<1>7. EmptyEdit \in Edit
  BY DEF EmptyEdit, Edit
<1>8. MemoryTypes'
  BY <1>1, <1>3, <1>4, <1>7 DEF MemoryTypes, memVars
<1>9. StepInv'
  BY <1>1, <1>3 DEF StepInv, Closed, Applying, memVars
<1>10. /\ Now.next <= n
       /\ \A s \in States : \A f \in s.files : f \in DOMAIN tables /\ f # n
       /\ \A f \in vs.files : f \in DOMAIN tables /\ f \in Nat /\ f < n /\ f # n
  BY <1>1, <1>2, NamedTables
<1>11. ManifestKept
  BY <1>1, <1>3, UpManifest DEF ManifestKept
<1>12. ASSUME NEW s \in States
       PROVE  Same(s)
  <2>1. LogEntries(s.log)' = LogEntries(s.log) /\ LogSynced(s.log)' = LogSynced(s.log)
    BY <1>3, LogsSame
  <2>2. s.log <= logNumber
    BY <1>1, UpManifest
  <2> QED
    BY <1>3, <1>5, <1>10, <2>1, <2>2 DEF Same, memVars
<1>13. Held' = Held
  <2>1. PICK F : F = vs.files
    OBVIOUS
  <2>2. TableEntries(F)' = TableEntries(F)
    BY <1>5, <1>10, <2>1, TablesSame
  <2>3. Held = TableEntries(F) \cup ToSet(imm) \cup ToSet(mem)
    BY <1>1, <2>1 DEF Held
  <2>4. Held' = TableEntries(F)' \cup ToSet(imm) \cup ToSet(mem)
    BY <1>1, <1>3, <1>4, <2>1 DEF Held, memVars, TableEntries
  <2> QED
    BY <2>2, <2>3, <2>4
<1>14. vs.next <= vs'.next
  BY <1>2, <1>4
<1>15. MemInv' /\ ImmInv'
  BY <1>1, <1>3, <1>4, <1>13, <1>14, MemKept
<1>16. LiveInv'
  <2>1. \A f : f \in Nat /\ f < vs.next => f < vs'.next
    BY <1>2, <1>4
  <2>2. DOMAIN tables \subseteq Nat
    BY <1>1 DEF DiskTypes
  <2> QED
    BY <1>1, <1>3, <1>4, <1>5, <2>1, <2>2 DEF LiveInv
<1>17. BuildInv'
  <2>1. Manifest' = Manifest /\ Now' = Now
    BY <1>3 DEF Manifest, Now
  <2>2. \A v \in pinned : n \notin v
    <3>1. \A v \in pinned : \A f \in v : f < n
      BY <1>1, <1>2 DEF LiveInv
    <3> QED
      BY <3>1
  <2>3. n < vs'.next
    BY <1>2, <1>4
  <2> QED
    BY <1>3, <1>4, <1>5, <1>10, <2>1, <2>2, <2>3 DEF BuildInv, Applying
<1>18. bg' \notin Applying /\ (Settling' => Settling)
  BY <1>1, <1>3, <1>4 DEF Applying, Settling
<1> QED
  BY <1>1, <1>3, <1>4, <1>6, <1>8, <1>9, <1>11, <1>12, <1>13, <1>14, <1>15, <1>16, <1>17, <1>18, UpMoves

\* Only the log that is written to is as new as the memtable.
LEMMA NewestLog ==
    ASSUME DiskTypes, MemInv, logNumber \in Nat
    PROVE  /\ LogEntries(logNumber) = ToSet(mem)
           /\ \A L \in Nat : L <= logNumber => logNumber \in LogsFrom(L)
<1>1. LogsFrom(logNumber) = {logNumber}
  BY DEF MemInv, LogsFrom, DiskTypes
<1>2. LogEntries(logNumber) = ToSet(mem)
  BY <1>1 DEF LogEntries, MemInv
<1> QED
  BY <1>2 DEF MemInv, LogsFrom

\* Apart from it, the logs of the current version are what is in imm.
LEMMA OlderLogs ==
    ASSUME IInv, pc = "up"
    PROVE  /\ LogEntries(vs.log) = ToSet(imm) \cup ToSet(mem)
           /\ LogSynced(vs.log) \subseteq ToSet(imm) \cup LogSynced(logNumber)
<1>1. DiskTypes /\ FilesSound /\ MemInv /\ ImmInv /\ vs.log \in Nat /\ logNumber \in Nat
  BY DEF IInv, UpInv, MemoryTypes, Versions
<1>2. logNumber \in LogsFrom(vs.log) /\ logNumber \in LogsFrom(logNumber) /\ mem = logs[logNumber].recs
  BY <1>1, NewestLog DEF ImmInv, MemInv
<1>3. LogEntries(vs.log) = ToSet(imm) \cup ToSet(mem)
  <2>1. ToSet(imm) = UNION {ToSet(logs[n].recs) : n \in LogsFrom(vs.log) \ {logNumber}}
    BY <1>1 DEF ImmInv
  <2> QED
    BY <1>2, <2>1 DEF LogEntries
<1>4. ASSUME NEW m \in LogsFrom(vs.log), NEW e \in ToSet(SubSeq(logs[m].recs, 1, logs[m].synced))
      PROVE  e \in ToSet(imm) \cup LogSynced(logNumber)
  <2>1. m \in DOMAIN logs /\ logs[m] \in FileOf(Entry) /\ Sound(logs[m])
    BY <1>1 DEF DiskTypes, FilesSound, LogsFrom
  <2>2. e \in ToSet(logs[m].recs)
    BY <2>1, TakeFirst DEF FileOf, Sound
  <2>3. CASE m = logNumber
    BY <1>2, <2>3 DEF LogSynced
  <2>4. CASE m # logNumber
    BY <1>1, <2>2, <2>4 DEF ImmInv
  <2> QED
    BY <2>3, <2>4
<1>5. LogSynced(vs.log) \subseteq ToSet(imm) \cup LogSynced(logNumber)
  BY <1>4 DEF LogSynced
<1> QED
  BY <1>3, <1>5

\* The new table is complete: with it the edit leads to the same contents.
LEMMA BuildTableStep == ASSUME IInv, BuildTable PROVE IInv' /\ Held' = Held
<1>1. /\ DiskTypes /\ FilesSound /\ MemoryTypes /\ StepInv /\ PhaseInv /\ bg = "build"
      /\ (pc = "up" => UpInv) /\ (Settling => Settled)
  BY DEF IInv, BuildTable
<1>2. /\ pc = "up" /\ UpInv /\ MemInv /\ ImmInv /\ LiveInv /\ BuildInv /\ job \in {"flush", "compact"}
      /\ job = "flush" => hasImm
  BY <1>1 DEF PhaseInv, StepInv, Closed, Open, Applying, UpInv
<1>3. bgError \in BOOLEAN /\ ~bgError /\ Settling /\ Settled
  BY <1>1, <1>2 DEF StepInv, Settling, UpInv, MemoryTypes
<1>4. PICK n, k, F, L : n = out /\ k = logNumber /\ F = vs.files /\ L = vs.log
  OBVIOUS
<1>5. PICK X : X = IF job = "flush" THEN ToSet(imm) ELSE TableEntries(F)
  OBVIOUS
<1>6. /\ tables' = [tables EXCEPT ![n] = X]
      /\ edit' = IF job = "flush" THEN [edit EXCEPT !.add = {n}, !.log = k]
                                  ELSE [edit EXCEPT !.add = {n}, !.del = F]
      /\ pending' = (IF job = "flush" THEN pending \ {n} ELSE pending)
      /\ bg' = "apply"
      /\ UNCHANGED <<current, manifests, logs, temps, pc, job, memVars, vs, record, out, pinned, openVars,
                     bgError, ghosts>>
  BY <1>4, <1>5 DEF BuildTable, TableEntries
<1> USE DEF openVars, ghosts
<1>7. /\ n \in DOMAIN tables /\ n \in Nat /\ n < vs.next /\ n \notin F /\ edit = EmptyEdit
      /\ k \in Nat /\ vs \in Versions /\ vs.next \in Nat /\ vs.last \in Nat /\ F \in SUBSET Nat /\ L \in Nat
      /\ imm \in Seq(Entry) /\ mem \in Seq(Entry) /\ vs.manifest \in Nat
  BY <1>1, <1>2, <1>4 DEF BuildInv, MemoryTypes, Versions
<1>8. /\ edit' \in Edit /\ edit'.add = {n}
      /\ edit'.del = (IF job = "flush" THEN {} ELSE F)
      /\ edit'.log = (IF job = "flush" THEN k ELSE -1)
  <2>1. PICK r \in Edit : r = edit /\ r.del = {} /\ r.log = -1
    BY <1>7 DEF EmptyEdit, Edit
  <2>2. PICK N \in SUBSET Nat : N = {n}
    BY <1>7
  <2>3. CASE job = "flush"
    <3>1. PICK x \in Int : x = k
      BY <1>7
    <3>2. edit' = [r EXCEPT !.add = N, !.log = x]
      BY <1>6, <2>1, <2>2, <2>3, <3>1
    <3> QED
      BY <2>1, <2>2, <2>3, <3>1, <3>2 DEF Edit
  <2>4. CASE job # "flush"
    <3>1. edit' = [r EXCEPT !.add = N, !.del = F]
      BY <1>6, <2>1, <2>2, <2>4
    <3> QED
      BY <1>7, <2>1, <2>2, <2>4, <3>1 DEF Edit
  <2> QED
    BY <2>3, <2>4
<1>9. /\ DOMAIN tables' = DOMAIN tables /\ tables'[n] = X
      /\ \A f \in DOMAIN tables : f # n => tables'[f] = tables[f]
      /\ tables' = [f \in DOMAIN tables' |-> tables'[f]]
  BY <1>1, <1>6, <1>7 DEF DiskTypes
<1>10. TableEntries(F) \subseteq Entry /\ ToSet(imm) \subseteq Entry /\ X \subseteq Entry
  <2>1. TableEntries(F) \subseteq Entry
    BY <1>1, <1>2, <1>4 DEF TableEntries, LiveInv, DiskTypes
  <2>2. ToSet(imm) \subseteq Entry
    BY <1>7, InSequence
  <2> QED
    BY <1>5, <2>1, <2>2
<1>11. DiskTypes' /\ FilesSound'
  <2>1. \A f \in DOMAIN tables' : tables'[f] \in SUBSET Entry
    BY <1>1, <1>9, <1>10 DEF DiskTypes
  <2>2. tables' \in [DOMAIN tables' -> SUBSET Entry]
    BY <1>9, <2>1
  <2> QED
    BY <1>1, <1>6, <1>9, <2>2 DEF DiskTypes, FilesSound
<1>12. MemoryTypes'
  BY <1>1, <1>6, <1>8 DEF MemoryTypes, memVars
<1>13. StepInv'
  BY <1>1, <1>2, <1>6 DEF StepInv, Closed, Applying, memVars
<1>14. /\ \A s \in States : \A f \in s.files : f \in DOMAIN tables /\ f # n
       /\ \A f \in F : f \in DOMAIN tables /\ f # n
  <2>1. Now.next <= n /\ Now.next \in Nat
    BY <1>2, <1>4, <1>1, NamedTables DEF BuildInv
  <2> QED
    BY <1>2, <1>4, <1>7, <2>1, NamedTables
<1>15. ManifestKept
  BY <1>2, <1>6, UpManifest DEF ManifestKept
<1>16. \A m : LogEntries(m)' = LogEntries(m) /\ LogSynced(m)' = LogSynced(m)
  BY <1>6, LogsSame
<1>17. ASSUME NEW s \in States
       PROVE  Same(s)
  <2>1. s.log <= logNumber
    BY <1>2, UpManifest
  <2> QED
    BY <1>6, <1>9, <1>14, <1>16, <2>1 DEF Same, memVars
<1>18. TableEntries(F)' = TableEntries(F)
  BY <1>9, <1>14, TablesSame
<1>19. Held = TableEntries(F) \cup ToSet(imm) \cup ToSet(mem) /\ Held' = Held
  <2>1. Held = TableEntries(F) \cup ToSet(imm) \cup ToSet(mem)
    BY <1>2, <1>4 DEF Held
  <2>2. Held' = TableEntries(F)' \cup ToSet(imm) \cup ToSet(mem)
    BY <1>2, <1>4, <1>6 DEF Held, memVars, TableEntries
  <2> QED
    BY <1>18, <2>1, <2>2
<1>20. MemInv' /\ ImmInv'
  BY <1>2, <1>6, <1>7, <1>19, MemKept
<1>21. LiveInv'
  BY <1>2, <1>6, <1>9 DEF LiveInv
<1>22. BuildInv'
  BY <1>2, <1>4, <1>6, <1>8 DEF BuildInv, Applying, memVars
<1>23. PICK G, M : /\ G = IF job = "flush" THEN F \cup {n} ELSE {n}
                   /\ M = IF job = "flush" THEN k ELSE L
  OBVIOUS
<1>24. PICK t : t = [files |-> G, log |-> M, next |-> vs.next, last |-> vs.last]
  OBVIOUS
<1>25. Target' = t
  <2>1. (F \ {}) \cup {n} = F \cup {n} /\ (F \ F) \cup {n} = {n} /\ k # -1
    BY <1>7
  <2>2. (vs'.files \ edit'.del) \cup edit'.add = G /\ (IF edit'.log = -1 THEN vs'.log ELSE edit'.log) = M
    BY <1>4, <1>6, <1>8, <1>23, <2>1
  <2>3. Target' = [files |-> (vs'.files \ edit'.del) \cup edit'.add,
                   log |-> IF edit'.log = -1 THEN vs'.log ELSE edit'.log,
                   next |-> vs'.next, last |-> vs'.last]
    BY <1>6 DEF Target
  <2> QED
    BY <1>6, <1>24, <2>2, <2>3, SMTT(30)
<1>26. t.files = G /\ t.log = M /\ t.next = vs.next /\ t.last = vs.last
  BY <1>24
<1>27. /\ TableEntries(G)' = TableEntries(F) \cup X
       /\ TableEntries(t.files)' = TableEntries(G)'
  <2>1. CASE job = "flush"
    BY <1>9, <1>18, <1>23, <1>26, <2>1 DEF TableEntries
  <2>2. CASE job # "flush"
    BY <1>5, <1>9, <1>23, <1>26, <2>2 DEF TableEntries
  <2> QED
    BY <2>1, <2>2
<1>28. /\ LogEntries(M)' = IF job = "flush" THEN ToSet(mem) ELSE ToSet(imm) \cup ToSet(mem)
       /\ LogSynced(L) \subseteq X \cup LogSynced(M)
  <2>1. LogEntries(k) = ToSet(mem)
    BY <1>1, <1>2, <1>4, <1>7, NewestLog
  <2>2. LogEntries(L) = ToSet(imm) \cup ToSet(mem) /\ LogSynced(L) \subseteq ToSet(imm) \cup LogSynced(k)
    BY <1>2, <1>4, OlderLogs
  <2>3. LogEntries(M)' = LogEntries(M)
    BY <1>16
  <2> QED
    BY <1>5, <1>23, <2>1, <2>2, <2>3
<1>29. Holds(t)' = Held'
  BY <1>5, <1>19, <1>26, <1>27, <1>28 DEF Holds
<1>30. safe' \subseteq {e.w : e \in TableEntries(t.files) \cup LogSynced(t.log)}'
  <2>1. safe \subseteq {e.w : e \in TableEntries(F) \cup LogSynced(L)}
    <3>1. Now.files = F /\ Now.log = L
      BY <1>3, <1>4 DEF Settled
    <3> QED
      BY <1>2, <3>1, UpManifest DEF Good
  <2>2. LogSynced(t.log)' = LogSynced(M)
    BY <1>16, <1>26
  <2>3. TableEntries(F) \cup LogSynced(L) \subseteq (TableEntries(t.files) \cup LogSynced(t.log))'
    BY <1>27, <1>28, <2>2
  <2> QED
    BY <1>6, <2>1, <2>3
<1>31. Good(t)'
  <2>1. M \in Nat /\ M < vs.next /\ M <= logNumber'
    BY <1>2, <1>4, <1>6, <1>7, <1>23 DEF MemInv, ImmInv, memVars
  <2>2. G \subseteq DOMAIN tables' /\ \A f \in G : f < vs.next
    BY <1>2, <1>4, <1>7, <1>9, <1>23 DEF LiveInv
  <2>3. \A e \in TableEntries(t.files)' : e.seq <= vs.last
    <3>1. TableEntries(t.files)' \subseteq Held
      BY <1>5, <1>19, <1>27
    <3> QED
      BY <1>2, <3>1 DEF MemInv
  <2> QED
    BY <1>6, <1>7, <1>26, <1>29, <1>30, <2>1, <2>2, <2>3 DEF Good
<1>32. ApplyInv'
  <2>1. vs.manifest < vs.next /\ vs.open /\ vs.manifest = current /\ current # 0
    BY <1>2, UpManifest DEF IInv, Open, NextInv, UpInv
  <2>2. (\A x \in {Target} : Good(x) /\ vs.manifest < x.next /\ x.next <= vs.next)'
    BY <1>6, <1>7, <1>25, <1>26, <1>31, <2>1
  <2> QED
    BY <1>6, <2>1, <2>2 DEF ApplyInv
<1>33. Settling' => Settling
  BY <1>3
<1> QED
  BY <1>2, <1>6, <1>7, <1>11, <1>12, <1>13, <1>15, <1>17, <1>19, <1>20, <1>21, <1>22, <1>32, <1>33, UpMoves

\* The table is not used: no version names it.
LEMMA BuildFailsStep == ASSUME IInv, BuildFails PROVE IInv' /\ Held' = Held
<1>1. /\ DiskTypes /\ FilesSound /\ MemoryTypes /\ StepInv /\ PhaseInv /\ bg = "build"
      /\ (pc = "up" => UpInv)
  BY DEF IInv, BuildFails
<1>2. pc = "up" /\ UpInv /\ MemInv /\ ImmInv /\ LiveInv /\ BuildInv
  BY <1>1 DEF PhaseInv, StepInv, Closed, Open, Applying, UpInv
<1>3. PICK n \in Nat : n = out
  BY <1>1 DEF MemoryTypes
<1>4. /\ tables' = (IF job = "flush" THEN Drop(tables, {n}) ELSE tables)
      /\ pending' = pending \ {n} /\ bgError' = TRUE /\ bg' = "idle"
      /\ UNCHANGED <<current, manifests, logs, temps, pc, job, memVars, vs, edit, record, out, pinned, openVars,
                     written, safe, pins>>
  BY <1>3 DEF BuildFails
<1> USE DEF openVars
<1>5. /\ DOMAIN tables \ {n} \subseteq DOMAIN tables' /\ DOMAIN tables' \subseteq DOMAIN tables
      /\ \A f \in DOMAIN tables \ {n} : tables'[f] = tables[f]
      /\ \A f \in DOMAIN tables' : tables'[f] = tables[f]
      /\ tables' = [f \in DOMAIN tables' |-> tables'[f]]
  BY <1>1, <1>4 DEF Drop, DiskTypes
<1>6. DiskTypes' /\ FilesSound'
  <2>1. tables' \in [DOMAIN tables' -> SUBSET Entry]
    BY <1>1, <1>5 DEF DiskTypes
  <2> QED
    BY <1>1, <1>4, <1>5, <2>1 DEF DiskTypes, FilesSound
<1>7. MemoryTypes'
  BY <1>1, <1>4 DEF MemoryTypes, memVars
<1>8. StepInv'
  <2>1. pending' = {}
    BY <1>1, <1>3, <1>4 DEF StepInv
  <2> QED
    BY <1>1, <1>2, <1>4, <2>1 DEF StepInv, Closed, Applying, memVars
<1>9. /\ \A s \in States : \A f \in s.files : f \in DOMAIN tables \ {n}
      /\ \A f \in vs.files : f \in DOMAIN tables \ {n}
  <2>1. Now.next <= n /\ Now.next \in Nat /\ n \notin vs.files
    BY <1>1, <1>2, <1>3, NamedTables DEF BuildInv
  <2> QED
    BY <1>2, <2>1, NamedTables
<1>10. ManifestKept
  BY <1>2, <1>4, UpManifest DEF ManifestKept
<1>11. ASSUME NEW s \in States
       PROVE  Same(s)
  <2>1. LogEntries(s.log)' = LogEntries(s.log) /\ LogSynced(s.log)' = LogSynced(s.log)
    BY <1>4, LogsSame
  <2>2. s.log <= logNumber
    BY <1>2, UpManifest
  <2> QED
    BY <1>4, <1>5, <1>9, <2>1, <2>2 DEF Same, memVars
<1>12. Held' = Held
  <2>1. PICK F : F = vs.files
    OBVIOUS
  <2>2. TableEntries(F)' = TableEntries(F)
    BY <1>5, <1>9, <2>1, TablesSame
  <2>3. Held' = TableEntries(F)' \cup ToSet(imm) \cup ToSet(mem)
    BY <1>2, <1>4, <2>1 DEF Held, memVars, TableEntries
  <2> QED
    BY <1>2, <2>1, <2>2, <2>3 DEF Held
<1>13. vs \in Versions /\ vs.next <= vs.next
  BY <1>1 DEF MemoryTypes, Versions
<1>14. MemInv' /\ ImmInv'
  BY <1>2, <1>4, <1>12, <1>13, MemKept
<1>15. LiveInv'
  <2>1. \A v \in pinned : v \subseteq DOMAIN tables \ {n}
    BY <1>1, <1>2, <1>3 DEF LiveInv, BuildInv
  <2> QED
    BY <1>2, <1>4, <1>5, <1>9, <2>1 DEF LiveInv
<1>16. BuildInv' /\ bg' \notin Applying /\ ~Settling'
  BY <1>4 DEF BuildInv, Applying, Settling
<1> QED
  BY <1>2, <1>4, <1>6, <1>7, <1>8, <1>10, <1>11, <1>12, <1>13, <1>14, <1>15, <1>16, UpMoves

\* Deleting obsolete files: one that no version needs, of an open database.
LEMMA DeleteBegins ==
    ASSUME IInv, bg = "delete"
    PROVE  /\ pc = "up" /\ UpInv /\ Settling /\ Settled /\ pending = {} /\ bgError \in BOOLEAN /\ ~bgError
           /\ \A s \in States : s = Now
           /\ Now.files = vs.files /\ Now.log = vs.log
<1>1. /\ DiskTypes /\ FilesSound /\ MemoryTypes /\ StepInv /\ PhaseInv
      /\ (pc = "up" => UpInv) /\ (Settling => Settled)
  BY DEF IInv
<1>2. pc = "up" /\ UpInv /\ pending = {} /\ ~bgError /\ bgError \in BOOLEAN
  BY <1>1 DEF PhaseInv, StepInv, Closed, Open, Applying, MemoryTypes
<1>3. Settling /\ Settled
  BY <1>1, <1>2 DEF Settling, UpInv
<1>4. \A s \in States : s = Now
  BY <1>1, <1>2, <1>3, OneState, UpManifest DEF Settled
<1> QED
  BY <1>2, <1>3, <1>4 DEF Settled

\* DeleteObsoleteFiles removes a file that neither the manifest nor a reader needs.
LEMMA DeleteOneStep == ASSUME IInv, DeleteOne PROVE IInv' /\ Held' = Held
<1>1. /\ bg = "delete"
      /\ UNCHANGED <<current, pc, bg, job, memVars, vs, editVars, pinned, openVars, bgError, ghosts>>
  BY DEF DeleteOne
<1> USE DEF openVars, ghosts, editVars
<1>2. /\ pc = "up" /\ UpInv /\ Settling /\ pending = {} /\ \A s \in States : s = Now
      /\ Now.files = vs.files /\ Now.log = vs.log
  BY <1>1, DeleteBegins
<1>3. DiskTypes /\ FilesSound /\ MemoryTypes /\ StepInv /\ MemInv /\ ImmInv /\ LiveInv
  BY <1>2 DEF IInv, UpInv
<1>4. PICK L, M, A, B, C :
         /\ L = vs.log /\ M = vs.manifest
         /\ \/ A \in Obsolete.logs /\ logs' = Drop(logs, {A}) /\ UNCHANGED <<manifests, tables, temps>>
            \/ B \in Obsolete.manifests /\ manifests' = Drop(manifests, {B}) /\ UNCHANGED <<logs, tables, temps>>
            \/ C \in Obsolete.tables /\ tables' = Drop(tables, {C}) /\ UNCHANGED <<logs, manifests, temps>>
            \/ UNCHANGED <<logs, manifests, tables>>
  BY DEF DeleteOne
<1>5. /\ DOMAIN logs' \subseteq DOMAIN logs /\ \A n \in DOMAIN logs' : logs'[n] = logs[n]
      /\ \A n \in DOMAIN logs : n >= L => n \in DOMAIN logs'
      /\ logs' = [n \in DOMAIN logs' |-> logs'[n]]
  <2>1. L \in Nat /\ DOMAIN logs \subseteq Nat
    BY <1>3, <1>4 DEF MemoryTypes, Versions, DiskTypes
  <2>2. Obsolete.logs = {n \in DOMAIN logs : n < L}
    BY <1>4 DEF Obsolete
  <2>3. CASE A \in Obsolete.logs /\ logs' = Drop(logs, {A})
    BY <2>1, <2>2, <2>3 DEF Drop
  <2>4. CASE logs' = logs
    BY <1>3, <2>4 DEF DiskTypes
  <2> QED
    BY <1>4, <2>3, <2>4
<1>6. /\ DOMAIN manifests' \subseteq DOMAIN manifests /\ \A n \in DOMAIN manifests' : manifests'[n] = manifests[n]
      /\ M \in DOMAIN manifests => M \in DOMAIN manifests'
      /\ manifests' = [n \in DOMAIN manifests' |-> manifests'[n]]
  <2>1. M \in Nat
    BY <1>3, <1>4 DEF MemoryTypes, Versions
  <2>2. Obsolete.manifests = {n \in DOMAIN manifests : n < M}
    BY <1>4 DEF Obsolete
  <2>3. CASE B \in Obsolete.manifests /\ manifests' = Drop(manifests, {B})
    BY <2>1, <2>2, <2>3 DEF Drop
  <2>4. CASE manifests' = manifests
    BY <1>3, <2>4 DEF DiskTypes
  <2> QED
    BY <1>4, <2>3, <2>4
<1>7. /\ DOMAIN tables' \subseteq DOMAIN tables /\ \A n \in DOMAIN tables' : tables'[n] = tables[n]
      /\ \A n \in DOMAIN tables : n \in Live => n \in DOMAIN tables'
      /\ tables' = [n \in DOMAIN tables' |-> tables'[n]]
  <2>1. Obsolete.tables = DOMAIN tables \ Live
    BY DEF Obsolete
  <2>2. CASE C \in Obsolete.tables /\ tables' = Drop(tables, {C})
    BY <2>1, <2>2 DEF Drop
  <2>3. CASE tables' = tables
    BY <1>3, <2>3 DEF DiskTypes
  <2> QED
    BY <1>4, <2>2, <2>3
<1>8. DiskTypes' /\ FilesSound'
  <2>1. /\ logs' \in [DOMAIN logs' -> FileOf(Entry)] /\ manifests' \in [DOMAIN manifests' -> FileOf(Edit)]
        /\ tables' \in [DOMAIN tables' -> SUBSET Entry]
    BY <1>3, <1>5, <1>6, <1>7 DEF DiskTypes
  <2> QED
    BY <1>1, <1>3, <1>5, <1>6, <1>7, <2>1 DEF DiskTypes, FilesSound
<1>9. MemoryTypes'
  BY <1>1, <1>3 DEF MemoryTypes, memVars
<1>10. StepInv'
  BY <1>1, <1>3 DEF StepInv, memVars
<1>11. ManifestKept
  <2>1. current \in DOMAIN manifests /\ current = M
    BY <1>2, <1>4, UpManifest DEF UpInv
  <2> QED
    BY <1>1, <1>6, <2>1 DEF ManifestKept
<1>12. \A f \in vs.files : f \in DOMAIN tables' /\ tables'[f] = tables[f]
  BY <1>3, <1>7 DEF Live, LiveInv
<1>13. LogsFrom(L)' = LogsFrom(L)
  BY <1>5 DEF LogsFrom
<1>14. LogEntries(L)' = LogEntries(L) /\ LogSynced(L)' = LogSynced(L)
  <2>1. \A n \in LogsFrom(L) : logs'[n] = logs[n]
    BY <1>5, <1>13 DEF LogsFrom
  <2> QED
    BY <1>13, <2>1 DEF LogEntries, LogSynced
<1>15. ASSUME NEW s \in States
       PROVE  Same(s)
  <2>1. s.log <= logNumber /\ s.log = L /\ s.files = vs.files
    BY <1>2, <1>4, UpManifest
  <2>2. PICK m : m = s.log
    OBVIOUS
  <2>3. LogEntries(m)' = LogEntries(m) /\ LogSynced(m)' = LogSynced(m)
    BY <1>14, <2>1, <2>2
  <2> QED
    BY <1>1, <1>12, <2>1, <2>2, <2>3 DEF Same, memVars
<1>16. Held' = Held
  <2>1. PICK F : F = vs.files
    OBVIOUS
  <2>2. TableEntries(F)' = TableEntries(F)
    BY <1>12, <2>1, TablesSame
  <2>3. Held' = TableEntries(F)' \cup ToSet(imm) \cup ToSet(mem)
    BY <1>1, <1>2, <2>1 DEF Held, memVars, TableEntries
  <2> QED
    BY <1>2, <2>1, <2>2, <2>3 DEF Held
<1>17. MemInv'
  <2>1. logNumber \in DOMAIN logs' /\ logs'[logNumber] = logs[logNumber]
    <3>1. logNumber >= L
      BY <1>3, <1>4 DEF ImmInv, MemoryTypes, Versions
    <3> QED
      BY <1>3, <1>5, <3>1 DEF MemInv
  <2> QED
    BY <1>1, <1>3, <1>5, <1>16, <2>1 DEF MemInv, memVars
<1>18. ImmInv'
  <2>1. LogsFrom(vs.log)' = LogsFrom(vs.log) /\ \A n \in LogsFrom(vs.log) : logs'[n] = logs[n]
    BY <1>1, <1>4, <1>5, <1>13 DEF LogsFrom
  <2> QED
    BY <1>1, <1>3, <2>1 DEF ImmInv, memVars
<1>19. LiveInv'
  <2>1. \A v \in pinned : v \subseteq DOMAIN tables'
    BY <1>3, <1>7 DEF Live, LiveInv
  <2> QED
    BY <1>1, <1>3, <1>12, <2>1 DEF LiveInv
<1>20. BuildInv' /\ bg' \notin Applying /\ (Settling' => Settling)
  BY <1>1, <1>2 DEF BuildInv, Applying
<1>21. vs.next <= vs'.next
  BY <1>1, <1>3 DEF MemoryTypes, Versions
<1> QED
  BY <1>1, <1>2, <1>8, <1>9, <1>10, <1>11, <1>15, <1>16, <1>17, <1>18, <1>19, <1>20, <1>21, UpMoves

\* DeleteObsoleteFiles found nothing left to remove.
LEMMA DeleteDoneStep == ASSUME IInv, DeleteDone PROVE IInv' /\ Held' = Held
<1>1. /\ bg = "delete" /\ bg' = "idle"
      /\ bgError \/ UNION {Obsolete[k] : k \in DOMAIN Obsolete} = {}
      /\ UNCHANGED <<diskVars, pc, job, memVars, vs, editVars, pinned, openVars, bgError, ghosts>>
  BY DEF DeleteDone
<1> USE DEF diskVars, openVars, ghosts, editVars
<1>2. pc = "up" /\ UpInv /\ Settling /\ pending = {} /\ bgError \in BOOLEAN /\ ~bgError
  BY <1>1, DeleteBegins
<1>3. DiskTypes /\ FilesSound /\ MemoryTypes /\ StepInv /\ MemInv /\ ImmInv /\ LiveInv
  BY <1>2 DEF IInv, UpInv
<1>4. DOMAIN tables \subseteq Live
  <2>1. "tables" \in DOMAIN Obsolete /\ Obsolete["tables"] = DOMAIN tables \ Live
    BY DEF Obsolete
  <2>2. UNION {Obsolete[k] : k \in DOMAIN Obsolete} = {}
    BY <1>1, <1>2
  <2>3. Obsolete["tables"] = {}
    BY <2>1, <2>2
  <2> QED
    BY <2>1, <2>3
<1>5. DiskTypes' /\ FilesSound' /\ MemoryTypes'
  BY <1>1, <1>3 DEF DiskTypes, FilesSound, MemoryTypes, memVars
<1>6. StepInv'
  BY <1>1, <1>2, <1>3 DEF StepInv, memVars, Closed, Applying
<1>7. ManifestKept
  BY <1>1, <1>2, UpManifest DEF ManifestKept
<1>8. ASSUME NEW s \in States
      PROVE  Same(s)
  <2>1. LogEntries(s.log)' = LogEntries(s.log) /\ LogSynced(s.log)' = LogSynced(s.log)
    BY <1>1, LogsSame
  <2>2. s.log <= logNumber /\ s.files \subseteq DOMAIN tables
    BY <1>2, UpManifest DEF Good
  <2> QED
    BY <1>1, <2>1, <2>2 DEF Same, memVars
<1>9. Held' = Held
  BY <1>1 DEF Held, memVars, TableEntries, Holds, LogEntries, LogsFrom, Now, Manifest
<1>10. vs.next <= vs'.next /\ vs' \in Versions
  BY <1>1, <1>3 DEF MemoryTypes, Versions
<1>11. MemInv' /\ ImmInv'
  BY <1>1, <1>2, <1>9, <1>10, MemKept
<1>12. LiveInv'
  BY <1>1, <1>2, <1>3, <1>4 DEF LiveInv, Live
<1>13. BuildInv' /\ bg' \notin Applying /\ (Settling' => Settling)
  BY <1>1, <1>2 DEF BuildInv, Applying
<1> QED
  BY <1>1, <1>2, <1>5, <1>6, <1>7, <1>8, <1>9, <1>10, <1>11, <1>12, <1>13, UpMoves

-----------------------------------------------------------------------------
\* LogAndApply.

\* A step that leaves logs, tables and memory alone keeps what a state leads to.
LEMMA GoodStays ==
    ASSUME UNCHANGED <<logs, tables, pc, logNumber, safe>>, Held' = Held
    PROVE  \A s : Good(s) => Good(s)'
<1> SUFFICES ASSUME NEW s, Good(s)
             PROVE  Good(s)'
  OBVIOUS
<1>1. LogEntries(s.log)' = LogEntries(s.log) /\ LogSynced(s.log)' = LogSynced(s.log)
  BY LogsSame
<1>2. Same(s)
  BY <1>1 DEF Same, Good
<1> QED
  BY <1>2, GoodKept

\* A manifest on the disk leads to one state.
LEMMA OneGood ==
    ASSUME DiskTypes', FilesSound', current' # 0, current' \in DOMAIN manifests',
           Manifest'.synced = Len(Manifest'.recs), Manifest'.recs # <<>>,
           NEW t, Now' = t, Good(t)', current' < t.next
    PROVE  DiskInv' /\ ~Fresh'
<1>1. States' \subseteq {t}
  <2>1. (DiskTypes /\ FilesSound /\ current \in DOMAIN manifests /\ Manifest.synced = Len(Manifest.recs)
           => States \subseteq {Now})'
    BY OneState, PTL
  <2> QED
    BY <2>1
<1>2. Manifest' \in FileOf(Edit)
  BY DEF DiskTypes, Manifest
<1>3. Manifest'.synced # 0
  BY <1>2, EmptySeq DEF FileOf
<1>4. ~Fresh'
  BY <1>3 DEF Fresh
<1>5. t.next <= t.next
  BY DEF Good
<1> QED
  BY <1>1, <1>3, <1>4, <1>5 DEF DiskInv

\* What LogAndApply does to the manifest and the record, with the versions as they are.
LEMMA ApplyMoves ==
    ASSUME IInv, bg \in Applying, bg' \in Applying, pc = "up" => bg' # "current",
           UNCHANGED <<logs, tables, pc, job, memVars, vs, edit, out, pending, pinned, openVars, bgError,
                       written, safe, pins>>,
           (DiskTypes /\ FilesSound /\ DiskInv /\ NextInv /\ ApplyInv)', record' \in Edit,
           Held' = Held, ~Fresh => ~Fresh', current' # 0, pc = "up" => current' = current,
           (Settling => Settled)'
    PROVE  IInv'
<1> USE DEF memVars, openVars
<1>1. /\ MemoryTypes /\ PhaseInv /\ StepInv /\ OrderInv /\ pc \in {"saving", "up"}
      /\ (pc = "saving" => SavingInv) /\ (pc = "up" => UpInv)
  BY DEF IInv, StepInv, PhaseInv, Closed, Open, Applying
<1>2. MemoryTypes'
  BY <1>1 DEF MemoryTypes
<1>3. PhaseInv'
  BY <1>1 DEF PhaseInv, Closed, Open
<1>4. StepInv'
  BY <1>1 DEF StepInv, Closed, Applying
<1>5. OrderInv'
  BY <1>1, OrderKept
<1>6. pc = "saving" => SavingInv'
  BY <1>1 DEF SavingInv, MemInv
<1>7. pc = "up" => UpInv'
  <2> SUFFICES ASSUME pc = "up"
               PROVE  UpInv'
    OBVIOUS
  <2>1. MemInv' /\ ImmInv'
    BY <1>1 DEF UpInv, MemInv, ImmInv, LogsFrom
  <2>2. LiveInv'
    BY <1>1 DEF UpInv, LiveInv, Applying
  <2>3. BuildInv'
    BY <1>1 DEF UpInv, BuildInv, Applying
  <2> QED
    BY <1>1, <2>1, <2>2, <2>3 DEF UpInv
<1> QED
  BY <1>1, <1>2, <1>3, <1>4, <1>5, <1>6, <1>7 DEF IInv, Open

\* Where LogAndApply is.
LEMMA ApplyBegins ==
    ASSUME IInv, bg \in Applying
    PROVE  /\ DiskTypes /\ FilesSound /\ MemoryTypes /\ StepInv /\ PhaseInv /\ DiskInv /\ NextInv /\ ApplyInv
           /\ pc \in {"saving", "up"} /\ (pc = "up" => vs.open /\ UpInv) /\ (pc = "saving" => SavingInv)
           /\ current # 0 /\ current \in DOMAIN manifests /\ current \in Nat
           /\ bgError \in BOOLEAN /\ ~bgError
           /\ vs \in Versions /\ edit \in Edit /\ record \in Edit
           /\ vs.next \in Nat /\ vs.last \in Nat /\ vs.manifest \in Nat /\ vs.log \in Nat
           /\ (vs.open /\ bg \notin {"sync", "install"} => Settled)
<1>1. /\ DiskTypes /\ FilesSound /\ MemoryTypes /\ StepInv /\ PhaseInv /\ DiskInv /\ ApplyInv
      /\ (pc \in Open => NextInv) /\ (Settling => Settled)
      /\ (pc = "saving" => SavingInv) /\ (pc = "up" => UpInv)
  BY DEF IInv
<1>2. pc \in {"saving", "up"}
  BY <1>1 DEF StepInv, PhaseInv, Closed, Open, Applying
<1>3. current # 0 /\ current \in DOMAIN manifests /\ current \in Nat
  BY <1>1, <1>2 DEF PhaseInv, DiskInv, DiskTypes
<1>4. bgError \in BOOLEAN /\ ~bgError
  BY <1>1 DEF StepInv, Applying, MemoryTypes
<1>5. /\ vs \in Versions /\ edit \in Edit /\ record \in Edit
      /\ vs.next \in Nat /\ vs.last \in Nat /\ vs.manifest \in Nat /\ vs.log \in Nat
  BY <1>1 DEF MemoryTypes, Versions
<1> QED
  BY <1>1, <1>2, <1>3, <1>4, <1>5 DEF UpInv, Settling, Open

\* The first record of a new manifest.
LEMMA SnapshotIs ==
    ASSUME vs \in Versions, NEW file, file = AppendTo(EmptyFile, WriteSnapshot)
    PROVE  /\ file \in FileOf(Edit) /\ Sound(file) /\ file.torn = -1
           /\ Recovered(file.recs).files = vs.files
<1>1. PICK r : r = WriteSnapshot
  OBVIOUS
<1>2. r \in Edit /\ r.add = vs.files /\ r.del = {}
  <2>1. PICK F \in SUBSET Nat : F = vs.files
    BY DEF Versions
  <2>2. PICK x \in Edit : x = EmptyEdit /\ x.del = {}
    <3>1. EmptyEdit \in Edit
      BY DEF EmptyEdit, Edit
    <3>2. EmptyEdit.del = {}
      BY DEF EmptyEdit
    <3> QED
      BY <3>1, <3>2
  <2>3. r = [x EXCEPT !.add = F]
    BY <1>1, <2>1, <2>2 DEF WriteSnapshot
  <2> QED
    BY <2>1, <2>2, <2>3 DEF Edit
<1>3. /\ file = [recs |-> Append(<<>>, r), synced |-> 0, torn |-> -1]
      /\ file \in FileOf(Edit) /\ Sound(file)
  BY <1>1, <1>2, EmptyFileIs, Appended
<1>4. <<>> \in Seq(Edit)
  OBVIOUS
<1>5. Recovered(Append(<<>>, r)) = ApplyRecord(NoRecord, r)
  BY <1>2, <1>4, RecoveredEmpty, RecoveredAppend
<1>6. ApplyRecord(NoRecord, r).files = vs.files
  BY <1>2 DEF ApplyRecord, NoRecord
<1> QED
  BY <1>3, <1>5, <1>6

\* LogAndApply fixes its record; a new manifest begins with a snapshot.
LEMMA ApplyStep == ASSUME IInv, Apply PROVE IInv' /\ Held' = Held
<1>1. bg = "apply" /\ bg \in Applying
  BY DEF Apply, Applying
<1>2. /\ DiskTypes /\ FilesSound /\ MemoryTypes /\ StepInv /\ PhaseInv /\ DiskInv /\ NextInv /\ ApplyInv
      /\ pc \in {"saving", "up"} /\ (pc = "up" => vs.open /\ UpInv)
      /\ current # 0 /\ current \in DOMAIN manifests /\ current \in Nat
      /\ vs \in Versions /\ edit \in Edit
      /\ vs.next \in Nat /\ vs.last \in Nat /\ vs.manifest \in Nat /\ vs.log \in Nat
      /\ (vs.open => Settled)
  BY <1>1, ApplyBegins
<1>3. PICK M, file : M = vs.manifest /\ file = AppendTo(EmptyFile, WriteSnapshot)
  OBVIOUS
<1>4. /\ record' = [add |-> edit.add, del |-> edit.del, log |-> IF edit.log = -1 THEN vs.log ELSE edit.log,
                    next |-> vs.next, last |-> vs.last]
      /\ manifests' = IF vs.open THEN manifests ELSE Put(manifests, M, file)
      /\ bg' = "record"
      /\ UNCHANGED <<current, logs, tables, temps, pc, job, memVars, vs, edit, out, pending, pinned, openVars,
                     bgError, ghosts>>
  BY <1>3 DEF Apply
<1> USE DEF ghosts
<1>5. /\ file \in FileOf(Edit) /\ Sound(file) /\ file.torn = -1
      /\ Recovered(file.recs).files = vs.files
  BY <1>2, <1>3, SnapshotIs
<1>6. /\ record' \in Edit /\ record'.add = edit.add /\ record'.del = edit.del
      /\ record'.log = (IF edit.log = -1 THEN vs.log ELSE edit.log)
      /\ record'.next = vs.next /\ record'.last = vs.last
  BY <1>2, <1>4 DEF Edit
<1>7. Target' = Target
  BY <1>1, <1>4, <1>6 DEF Target
<1>8. ~vs.open => M # current
  BY <1>1, <1>2, <1>3 DEF ApplyInv
<1>9. /\ ManifestKept /\ \A n \in DOMAIN manifests' : manifests'[n] \in FileOf(Edit) /\ Sound(manifests'[n])
      /\ manifests' = [n \in DOMAIN manifests' |-> manifests'[n]]
  <2>1. CASE vs.open
    BY <1>2, <1>4, <2>1 DEF ManifestKept, DiskTypes, FilesSound
  <2>2. CASE ~vs.open
    <3>1. /\ DOMAIN manifests' = DOMAIN manifests \cup {M} /\ manifests'[M] = file
          /\ \A n \in DOMAIN manifests : n # M => manifests'[n] = manifests[n]
          /\ manifests' = [n \in DOMAIN manifests' |-> manifests'[n]]
      BY <1>4, <2>2 DEF Put
    <3>2. \A n \in DOMAIN manifests' : manifests'[n] \in FileOf(Edit) /\ Sound(manifests'[n])
      BY <1>2, <1>5, <3>1 DEF DiskTypes, FilesSound
    <3> QED
      BY <1>2, <1>4, <1>8, <2>2, <3>1, <3>2 DEF ManifestKept
  <2> QED
    BY <2>1, <2>2
<1>10. DiskTypes' /\ FilesSound'
  <2>1. manifests' \in [DOMAIN manifests' -> FileOf(Edit)]
    BY <1>9
  <2> QED
    BY <1>2, <1>4, <1>9, <2>1 DEF DiskTypes, FilesSound
<1>11. Manifest' = Manifest /\ Now' = Now /\ States' = States
  BY <1>2, <1>9, StatesKept
<1>12. \A s \in States : Same(s)
  <2> SUFFICES ASSUME NEW s \in States
               PROVE  Same(s)
    OBVIOUS
  <2>1. LogEntries(s.log)' = LogEntries(s.log) /\ LogSynced(s.log)' = LogSynced(s.log)
    BY <1>4, LogsSame
  <2>2. Good(s)
    BY <1>2 DEF DiskInv
  <2> QED
    BY <1>4, <2>1, <2>2 DEF Same, Good, memVars
<1>13. pc = "up" => Held' = Held
  BY <1>4 DEF Held, TableEntries, memVars
<1>14. Fresh => Blank'
  BY <1>2, <1>4 DEF DiskInv, Blank
<1>15. DiskInv' /\ Held' = Held
  BY <1>2, <1>4, <1>9, <1>12, <1>13, <1>14, DiskKept
<1>16. NextInv'
  BY <1>2, <1>4, <1>11 DEF NextInv
<1>17. ApplyInv'
  <2>1. PICK t : t = Target
    OBVIOUS
  <2>2. Good(t) /\ vs.manifest < t.next /\ t.next <= vs.next
    BY <1>2, <2>1 DEF ApplyInv
  <2>3. Good(t)'
    BY <1>4, <1>15, <2>2, GoodStays DEF memVars
  <2>4. (\A x \in {Target} : Good(x) /\ vs.manifest < x.next /\ x.next <= vs.next)'
    BY <1>4, <1>7, <2>1, <2>2, <2>3
  <2>5. record'.log = Target'.log
    BY <1>4, <1>6 DEF Target
  <2>6. M \in DOMAIN manifests' /\ manifests'[M].torn = -1 /\ Recovered(manifests'[M].recs).files = vs.files
    <3>1. CASE vs.open
      <4>1. M = current /\ Settled
        BY <1>2, <1>3, <3>1 DEF ApplyInv
      <4> QED
        BY <1>2, <1>4, <3>1, <4>1 DEF Settled, Manifest, Now
    <3>2. CASE ~vs.open
      <4>1. M \in DOMAIN manifests' /\ manifests'[M] = file
        BY <1>4, <3>2 DEF Put
      <4> QED
        BY <1>5, <4>1
    <3> QED
      BY <3>1, <3>2
  <2>7. Now.next <= vs.next
    BY <1>2 DEF NextInv
  <2>8. vs.manifest # 0 /\ (vs.open => vs.manifest = current) /\ (~vs.open => vs.manifest # current)
    BY <1>1, <1>2 DEF ApplyInv
  <2> QED
    BY <1>3, <1>4, <1>6, <1>11, <2>4, <2>5, <2>6, <2>7, <2>8 DEF ApplyInv, Written
<1>18. Settling' => Settled'
  BY <1>2, <1>4, <1>11 DEF Settling, Settled
<1>19. ~Fresh => ~Fresh'
  BY <1>4, <1>11 DEF Fresh
<1> QED
  BY <1>1, <1>2, <1>4, <1>6, <1>10, <1>15, <1>16, <1>17, <1>18, <1>19, ApplyMoves DEF Applying

\* The record makes of a manifest that led to the current version one that leads to the
\* new one.
LEMMA AddRecordStep == ASSUME IInv, AddRecord PROVE IInv' /\ Held' = Held
<1>1. bg = "record" /\ bg \in Applying
  BY DEF AddRecord, Applying
<1>2. /\ DiskTypes /\ FilesSound /\ MemoryTypes /\ StepInv /\ PhaseInv /\ DiskInv /\ NextInv /\ ApplyInv
      /\ pc \in {"saving", "up"} /\ (pc = "up" => vs.open /\ UpInv)
      /\ current # 0 /\ current \in DOMAIN manifests /\ current \in Nat
      /\ vs \in Versions /\ edit \in Edit /\ record \in Edit
      /\ vs.next \in Nat /\ vs.manifest \in Nat
      /\ (vs.open => Settled)
  BY <1>1, ApplyBegins
<1>3. PICK M, file, r, t : M = vs.manifest /\ file = Written /\ r = record /\ t = Target
  OBVIOUS
<1>4. /\ manifests' = [manifests EXCEPT ![M] = AppendTo(manifests[M], r)]
      /\ bg' = "sync"
      /\ UNCHANGED <<current, logs, tables, temps, pc, job, memVars, vs, edit, record, out, pending, pinned,
                     openVars, bgError, ghosts>>
  BY <1>3 DEF AddRecord, editVars
<1> USE DEF ghosts
<1>5. /\ Good(t) /\ M < t.next /\ t.next <= vs.next /\ r \in Edit
      /\ r.add = edit.add /\ r.del = edit.del /\ r.log = t.log
      /\ M \in DOMAIN manifests /\ file = manifests[M] /\ file.torn = -1
      /\ Recovered(file.recs).files = vs.files
      /\ (vs.open => Now.next <= r.next /\ M = current) /\ (~vs.open => M # current) /\ M # 0
  BY <1>1, <1>2, <1>3 DEF ApplyInv, Written
<1>6. /\ t.files = (vs.files \ r.del) \cup r.add /\ t.next = r.next /\ t.last = r.last
      /\ t = [files |-> t.files, log |-> t.log, next |-> t.next, last |-> t.last]
  BY <1>1, <1>3, <1>5 DEF Target
<1>7. file \in FileOf(Edit) /\ Sound(file) /\ file.recs \in Seq(Edit) /\ Len(file.recs) \in Nat
  BY <1>2, <1>5, LenProperties DEF DiskTypes, FilesSound, FileOf
<1>8. PICK new : new = AppendTo(file, r)
  OBVIOUS
<1>9. /\ new = [recs |-> Append(file.recs, r), synced |-> file.synced, torn |-> -1]
      /\ new \in FileOf(Edit) /\ Sound(new)
  BY <1>5, <1>7, <1>8, Appended
<1>10. /\ Append(file.recs, r) \in Seq(Edit) /\ Len(Append(file.recs, r)) = Len(file.recs) + 1
       /\ \A n \in 0..Len(file.recs) : SubSeq(Append(file.recs, r), 1, n) = SubSeq(file.recs, 1, n)
  BY <1>5, <1>7, OneMore
<1>11. /\ new.recs = Append(file.recs, r) /\ new.synced = file.synced /\ new.torn = -1 /\ new.recs # <<>>
       /\ Len(new.recs) = Len(file.recs) + 1
  BY <1>7, <1>9, <1>10
<1>12. Recovered(new.recs) = t
  <2>1. Recovered(new.recs) = ApplyRecord(Recovered(file.recs), r)
    BY <1>5, <1>7, <1>11, RecoveredAppend
  <2>2. r.log \in Nat /\ r.next \in Nat /\ r.last \in Nat
    BY <1>5, <1>6 DEF Good
  <2>3. ApplyRecord(Recovered(file.recs), r)
           = [files |-> (vs.files \ r.del) \cup r.add, log |-> r.log, next |-> r.next, last |-> r.last]
    <3>1. r.log # -1 /\ r.next # -1 /\ r.last # -1
      BY <2>2
    <3>2. PICK x : x = Recovered(file.recs)
      OBVIOUS
    <3>3. x.files = vs.files
      BY <1>5, <3>2
    <3>4. ApplyRecord(x, r)
             = [files |-> (vs.files \ r.del) \cup r.add, log |-> r.log, next |-> r.next, last |-> r.last]
      BY <3>1, <3>3 DEF ApplyRecord, Latest
    <3> QED
      BY <3>2, <3>4
  <2> QED
    BY <1>5, <1>6, <2>1, <2>3
<1>13. /\ DOMAIN manifests' = DOMAIN manifests /\ manifests'[M] = new
       /\ \A n \in DOMAIN manifests : n # M => manifests'[n] = manifests[n]
       /\ manifests' = [n \in DOMAIN manifests' |-> manifests'[n]]
  BY <1>2, <1>4, <1>5, <1>8 DEF DiskTypes
<1>14. DiskTypes' /\ FilesSound'
  <2>1. \A n \in DOMAIN manifests' : manifests'[n] \in FileOf(Edit) /\ Sound(manifests'[n])
    BY <1>2, <1>9, <1>13 DEF DiskTypes, FilesSound
  <2>2. manifests' \in [DOMAIN manifests' -> FileOf(Edit)]
    BY <1>13, <2>1
  <2> QED
    BY <1>2, <1>4, <2>1, <2>2 DEF DiskTypes, FilesSound
<1>15. Target' = Target
  BY <1>1, <1>4 DEF Target
<1>16. DiskInv' /\ Held' = Held /\ NextInv' /\ (~Fresh => ~Fresh')
  <2>1. CASE vs.open
    <3>1. M = current /\ file = Manifest /\ Manifest' = new /\ Settled
      BY <1>2, <1>4, <1>5, <1>13, <2>1 DEF Manifest
    <3>2. Now' = t
      BY <1>12, <3>1 DEF Now
    <3>3. PICK s : s = Now
      OBVIOUS
    <3>4. Good(s) /\ current < s.next /\ s.next <= t.next
      <4>1. Manifest.recs # <<>>
        BY <3>1 DEF Settled
      <4> QED
        BY <1>2, <1>5, <1>6, <2>1, <3>3, <4>1, ManifestGood
    <3>5. States' \subseteq {s, t}
      <4> SUFFICES ASSUME NEW x \in States'
                   PROVE  x = s \/ x = t
        OBVIOUS
      <4>1. PICK k \in new.synced..Len(new.recs) : x = Recovered(SubSeq(new.recs, 1, k))
        BY <3>1 DEF States
      <4>2. file.synced = Len(file.recs)
        BY <3>1 DEF Settled
      <4>3. k = Len(file.recs) \/ k = Len(file.recs) + 1
        BY <1>7, <1>11, <4>1, <4>2
      <4>4. SubSeq(file.recs, 1, Len(file.recs)) = file.recs
        <5>1. Len(file.recs) \in 0..Len(file.recs)
          BY <1>7
        <5> QED
          BY <1>7, <5>1, TakeFirst
      <4>5. SubSeq(new.recs, 1, Len(file.recs)) = file.recs
        <5>1. Len(file.recs) \in 0..Len(file.recs)
          BY <1>7
        <5> QED
          BY <1>10, <1>11, <4>4, <5>1
      <4>6. SubSeq(new.recs, 1, Len(file.recs) + 1) = new.recs
        <5>1. Len(new.recs) \in 0..Len(new.recs) /\ new.recs \in Seq(Edit)
          BY <1>7, <1>10, <1>11
        <5>2. SubSeq(new.recs, 1, Len(new.recs)) = new.recs
          BY <5>1, TakeFirst
        <5> QED
          BY <1>11, <5>2
      <4>7. CASE k = Len(file.recs)
        BY <3>1, <3>3, <4>1, <4>5, <4>7 DEF Now
      <4>8. CASE k = Len(file.recs) + 1
        BY <1>12, <4>1, <4>6, <4>8
      <4> QED
        BY <4>3, <4>7, <4>8
    <3>6. Held' = Held
      <4>1. CASE pc = "up"
        BY <1>4, <4>1 DEF Held, TableEntries, memVars
      <4>2. CASE pc # "up"
        <5>1. Held' = Holds(Now)'
          BY <1>2, <1>4, <1>11, <3>1, <4>2 DEF Held
        <5>2. Holds(Now)' = Holds(t)
          BY <1>4, <3>2 DEF Holds, TableEntries, LogEntries, LogsFrom
        <5> QED
          BY <1>5, <5>1, <5>2 DEF Good
      <4> QED
        BY <4>1, <4>2
    <3>7. Good(s)' /\ Good(t)'
      BY <1>4, <1>5, <3>4, <3>6, GoodStays DEF memVars
    <3>8. (Fresh' => Fresh) /\ (Fresh => Fresh')
      BY <1>4, <1>11, <3>1 DEF Fresh
    <3>9. Fresh' => Blank'
      BY <1>2, <1>4, <3>8 DEF DiskInv, Blank
    <3>10. Manifest'.synced = 0 => current' = 1
      BY <1>2, <1>4, <1>11, <3>1 DEF DiskInv
    <3>11. t.next \in Nat /\ t.next <= t.next
      BY <1>5 DEF Good
    <3>12. DiskInv'
      BY <1>2, <1>4, <1>5, <1>13, <3>1, <3>2, <3>4, <3>5, <3>7, <3>9, <3>10, <3>11 DEF DiskInv
    <3>13. NextInv'
      BY <1>2, <1>4, <1>5, <3>2 DEF NextInv
    <3> QED
      BY <3>6, <3>8, <3>12, <3>13
  <2>2. CASE ~vs.open
    <3>1. ManifestKept /\ pc # "up"
      BY <1>2, <1>4, <1>5, <1>13, <2>2 DEF ManifestKept
    <3>2. Manifest' = Manifest /\ Now' = Now /\ States' = States
      BY <1>2, <3>1, StatesKept
    <3>3. \A s \in States : Same(s)
      <4> SUFFICES ASSUME NEW s \in States
                   PROVE  Same(s)
        OBVIOUS
      <4>1. LogEntries(s.log)' = LogEntries(s.log) /\ LogSynced(s.log)' = LogSynced(s.log)
        BY <1>4, LogsSame
      <4>2. Good(s)
        BY <1>2 DEF DiskInv
      <4> QED
        BY <1>4, <3>1, <4>1, <4>2 DEF Same, Good
    <3>4. Fresh => Blank'
      BY <1>2, <1>4 DEF DiskInv, Blank
    <3>5. DiskInv' /\ Held' = Held
      BY <1>2, <1>4, <3>1, <3>3, <3>4, DiskKept
    <3> QED
      BY <1>2, <1>4, <3>2, <3>5 DEF NextInv, Fresh
  <2> QED
    BY <2>1, <2>2
<1>17. ApplyInv'
  <2>1. Good(t)'
    BY <1>4, <1>5, <1>16, GoodStays DEF memVars
  <2>2. (\A x \in {Target} : Good(x) /\ vs.manifest < x.next /\ x.next <= vs.next)'
    BY <1>3, <1>4, <1>5, <1>15, <2>1
  <2>3. Written' = new
    BY <1>3, <1>4, <1>13 DEF Written
  <2> QED
    BY <1>3, <1>4, <1>5, <1>11, <1>12, <1>13, <1>15, <2>2, <2>3 DEF ApplyInv
<1>18. ~Settling'
  BY <1>4 DEF Settling
<1> QED
  BY <1>1, <1>2, <1>4, <1>14, <1>16, <1>17, <1>18, ApplyMoves DEF Applying

\* The manifest is on the disk: it leads to the new version only.
LEMMA SyncManifestStep == ASSUME IInv, SyncManifest PROVE IInv' /\ Held' = Held
<1>1. bg = "sync" /\ bg \in Applying
  BY DEF SyncManifest, Applying
<1>2. /\ DiskTypes /\ FilesSound /\ MemoryTypes /\ StepInv /\ PhaseInv /\ DiskInv /\ NextInv /\ ApplyInv
      /\ pc \in {"saving", "up"} /\ (pc = "up" => vs.open /\ UpInv)
      /\ current # 0 /\ current \in DOMAIN manifests /\ current \in Nat /\ record \in Edit
  BY <1>1, ApplyBegins
<1>3. PICK M, file, t : M = vs.manifest /\ file = Written /\ t = Target
  OBVIOUS
<1>4. /\ manifests' = [manifests EXCEPT ![M] = Synced(manifests[M])]
      /\ bg' = (IF vs.open THEN "install" ELSE "current")
      /\ UNCHANGED <<current, logs, tables, temps, pc, job, memVars, vs, edit, record, out, pending, pinned,
                     openVars, bgError, ghosts>>
  BY <1>3 DEF SyncManifest, editVars
<1> USE DEF ghosts
<1>5. /\ Good(t) /\ M < t.next /\ t.next <= vs.next
      /\ record.add = edit.add /\ record.del = edit.del /\ record.log = t.log
      /\ M \in DOMAIN manifests /\ file = manifests[M] /\ file.torn = -1
      /\ Recovered(file.recs) = t /\ file.recs # <<>>
      /\ (vs.open => M = current) /\ (~vs.open => M # current) /\ M # 0
  BY <1>1, <1>2, <1>3 DEF ApplyInv, Written
<1>6. file \in FileOf(Edit) /\ Sound(file)
  BY <1>2, <1>5 DEF DiskTypes, FilesSound
<1>7. PICK new : new = Synced(file)
  OBVIOUS
<1>8. /\ new.recs = file.recs /\ new.synced = Len(file.recs) /\ new.torn = -1
      /\ new \in FileOf(Edit) /\ Sound(new)
  BY <1>5, <1>6, <1>7, SyncedIs
<1>9. /\ DOMAIN manifests' = DOMAIN manifests /\ manifests'[M] = new
      /\ \A n \in DOMAIN manifests : n # M => manifests'[n] = manifests[n]
      /\ manifests' = [n \in DOMAIN manifests' |-> manifests'[n]]
  BY <1>2, <1>4, <1>5, <1>7 DEF DiskTypes
<1>10. DiskTypes' /\ FilesSound'
  <2>1. \A n \in DOMAIN manifests' : manifests'[n] \in FileOf(Edit) /\ Sound(manifests'[n])
    BY <1>2, <1>8, <1>9 DEF DiskTypes, FilesSound
  <2>2. manifests' \in [DOMAIN manifests' -> FileOf(Edit)]
    BY <1>9, <2>1
  <2> QED
    BY <1>2, <1>4, <2>1, <2>2 DEF DiskTypes, FilesSound
<1>11. Target' = Target
  BY <1>1, <1>4 DEF Target
<1>12. DiskInv' /\ Held' = Held /\ NextInv' /\ (~Fresh => ~Fresh')
  <2>1. CASE vs.open
    <3>1. M = current /\ file = Manifest /\ Manifest' = new
      BY <1>2, <1>4, <1>5, <1>9, <2>1 DEF Manifest
    <3>2. Now' = t /\ Now = t
      BY <1>5, <1>8, <3>1 DEF Now
    <3>3. Held' = Held
      <4>1. CASE pc = "up"
        BY <1>4, <4>1 DEF Held, TableEntries, memVars
      <4>2. CASE pc # "up"
        <5>1. Held' = Holds(Now)'
          BY <1>2, <1>4, <1>5, <1>8, <3>1, <4>2 DEF Held
        <5>2. Holds(Now)' = Holds(t)
          BY <1>4, <3>2 DEF Holds, TableEntries, LogEntries, LogsFrom
        <5> QED
          BY <1>5, <5>1, <5>2 DEF Good
      <4> QED
        BY <4>1, <4>2
    <3>4. Good(t)'
      BY <1>4, <1>5, <3>3, GoodStays DEF memVars
    <3>5. DiskInv' /\ ~Fresh'
      BY <1>2, <1>4, <1>5, <1>8, <1>9, <1>10, <3>1, <3>2, <3>4, OneGood
    <3> QED
      BY <1>2, <1>4, <3>2, <3>3, <3>5 DEF NextInv
  <2>2. CASE ~vs.open
    <3>1. ManifestKept /\ pc # "up"
      BY <1>2, <1>4, <1>5, <1>9, <2>2 DEF ManifestKept
    <3>2. Manifest' = Manifest /\ Now' = Now /\ States' = States
      BY <1>2, <3>1, StatesKept
    <3>3. \A s \in States : Same(s)
      <4> SUFFICES ASSUME NEW s \in States
                   PROVE  Same(s)
        OBVIOUS
      <4>1. LogEntries(s.log)' = LogEntries(s.log) /\ LogSynced(s.log)' = LogSynced(s.log)
        BY <1>4, LogsSame
      <4>2. Good(s)
        BY <1>2 DEF DiskInv
      <4> QED
        BY <1>4, <3>1, <4>1, <4>2 DEF Same, Good
    <3>4. Fresh => Blank'
      BY <1>2, <1>4 DEF DiskInv, Blank
    <3>5. DiskInv' /\ Held' = Held
      BY <1>2, <1>4, <3>1, <3>3, <3>4, DiskKept
    <3> QED
      BY <1>2, <1>4, <3>2, <3>5 DEF NextInv, Fresh
  <2> QED
    BY <2>1, <2>2
<1>13. ApplyInv'
  <2>1. Good(t)'
    BY <1>4, <1>5, <1>12, GoodStays DEF memVars
  <2>2. (\A x \in {Target} : Good(x) /\ vs.manifest < x.next /\ x.next <= vs.next)'
    BY <1>3, <1>4, <1>5, <1>11, <2>1
  <2>3. Written' = new
    BY <1>3, <1>4, <1>9 DEF Written
  <2> QED
    BY <1>3, <1>4, <1>5, <1>8, <1>9, <1>11, <2>2, <2>3 DEF ApplyInv
<1>14. ~Settling'
  BY <1>4 DEF Settling
<1>15. bg' \in Applying /\ (pc = "up" => bg' # "current")
  BY <1>2, <1>4 DEF Applying
<1> QED
  BY <1>1, <1>2, <1>4, <1>10, <1>12, <1>13, <1>14, <1>15, ApplyMoves

\* CURRENT moves from a manifest to one that leads to the same contents.
LEMMA SetCurrentFileStep == ASSUME IInv, SetCurrentFile PROVE IInv' /\ Held' = Held
<1>1. bg = "current" /\ bg \in Applying
  BY DEF SetCurrentFile, Applying
<1>2. /\ DiskTypes /\ FilesSound /\ MemoryTypes /\ StepInv /\ PhaseInv /\ DiskInv /\ NextInv /\ ApplyInv
      /\ pc \in {"saving", "up"} /\ (pc = "up" => vs.open)
      /\ current # 0 /\ current \in DOMAIN manifests /\ current \in Nat /\ record \in Edit
      /\ vs.manifest \in Nat /\ vs.next \in Nat
  BY <1>1, ApplyBegins
<1>3. ~vs.open /\ pc = "saving"
  BY <1>1, <1>2 DEF ApplyInv
<1>4. UNCHANGED <<manifests, logs, tables, pc, job, memVars, vs, edit, record, out, pending, pinned, openVars,
                  bgError, ghosts>>
  BY DEF SetCurrentFile, editVars
<1> USE DEF ghosts
<1>5. CASE WriteTemp(vs.manifest) /\ UNCHANGED bg
  <2>1. UNCHANGED <<current, bg>>
    BY <1>5 DEF WriteTemp
  <2>2. DiskTypes' /\ FilesSound' /\ DiskInv' /\ Held' = Held
    BY <1>3, <1>4, <2>1, DiskQuiet
  <2>3. Manifest' = Manifest /\ Now' = Now /\ Target' = Target /\ Written' = Written
    BY <1>4, <2>1 DEF Manifest, Now, Target, Written
  <2>4. NextInv' /\ (~Fresh => ~Fresh')
    BY <1>2, <1>4, <2>1, <2>3 DEF NextInv, Fresh
  <2>5. ApplyInv'
    <3>1. PICK t : t = Target
      OBVIOUS
    <3>2. Good(t)'
      BY <1>2, <1>4, <2>2, <3>1, GoodStays DEF ApplyInv, memVars
    <3>3. (\A x \in {Target} : Good(x) /\ vs.manifest < x.next /\ x.next <= vs.next)'
      BY <1>2, <1>4, <2>3, <3>1, <3>2 DEF ApplyInv
    <3> QED
      BY <1>1, <1>2, <1>4, <2>1, <2>3, <3>3 DEF ApplyInv
  <2>6. ~Settling'
    BY <1>3, <1>4 DEF Settling
  <2> QED
    BY <1>1, <1>2, <1>3, <1>4, <2>1, <2>2, <2>4, <2>5, <2>6, ApplyMoves
<1>6. CASE RenameTemp(vs.manifest) /\ bg' = "install"
  <2>1. current' = vs.manifest /\ bg' = "install"
    BY <1>6 DEF RenameTemp
  <2>2. PICK t : t = Target
    OBVIOUS
  <2>3. /\ Good(t) /\ vs.manifest < t.next /\ t.next <= vs.next
        /\ record.add = edit.add /\ record.del = edit.del /\ record.log = t.log
        /\ vs.manifest \in DOMAIN manifests /\ Written.torn = -1 /\ vs.manifest # 0
        /\ Recovered(Written.recs) = t /\ Written.recs # <<>> /\ Written.synced = Len(Written.recs)
    BY <1>1, <1>2, <2>2 DEF ApplyInv
  <2>4. Manifest' = Written /\ Written' = Written /\ Now' = t /\ Target' = Target
    BY <1>1, <1>4, <2>1, <2>3 DEF Manifest, Written, Now, Target
  <2>5. DiskTypes' /\ FilesSound'
    BY <1>2, <1>4, <2>1 DEF DiskTypes, FilesSound
  <2>6. Held' = Held
    <3>1. Held' = Holds(Now)'
      BY <1>3, <1>4, <2>1, <2>3, <2>4 DEF Held
    <3>2. Holds(Now)' = Holds(t)
      BY <1>4, <2>4 DEF Holds, TableEntries, LogEntries, LogsFrom
    <3> QED
      BY <2>3, <3>1, <3>2 DEF Good
  <2>7. Good(t)'
    BY <1>4, <2>3, <2>6, GoodStays DEF memVars
  <2>8. DiskInv' /\ ~Fresh'
    BY <1>4, <2>1, <2>3, <2>4, <2>5, <2>7, OneGood
  <2>9. NextInv'
    <3>1. vs.manifest < vs.next
      BY <1>2 DEF NextInv
    <3> QED
      BY <1>4, <2>1, <2>3, <2>4, <3>1 DEF NextInv
  <2>10. ApplyInv'
    <3>1. (\A x \in {Target} : Good(x) /\ vs.manifest < x.next /\ x.next <= vs.next)'
      BY <1>4, <2>2, <2>3, <2>4, <2>7
    <3> QED
      BY <1>4, <2>1, <2>2, <2>3, <2>4, <3>1 DEF ApplyInv
  <2>11. ~Settling'
    BY <1>3, <1>4 DEF Settling
  <2>12. bg' \in Applying /\ current' # 0
    BY <2>1, <2>3 DEF Applying
  <2> QED
    BY <1>1, <1>2, <1>3, <1>4, <2>1, <2>5, <2>6, <2>8, <2>9, <2>10, <2>11, <2>12, ApplyMoves
<1> QED
  BY <1>5, <1>6 DEF SetCurrentFile

\* A failure leaves the current manifest, which holds the record or not.
LEMMA ApplyFailsStep == ASSUME IInv, ApplyFails PROVE IInv' /\ Held' = Held
<1>1. bg \in {"record", "sync", "current"} /\ bg \in Applying
  BY DEF ApplyFails, Applying
<1>2. /\ DiskTypes /\ FilesSound /\ MemoryTypes /\ StepInv /\ PhaseInv /\ DiskInv /\ NextInv /\ ApplyInv
      /\ pc \in {"saving", "up"} /\ (pc = "up" => vs.open /\ UpInv)
      /\ current # 0 /\ current \in DOMAIN manifests /\ current \in Nat
      /\ vs \in Versions /\ vs.next \in Nat
  BY <1>1, ApplyBegins
<1>3. PICK M : M = vs.manifest
  OBVIOUS
<1>4. /\ manifests' = (IF vs.open THEN manifests ELSE Drop(manifests, {M}))
      /\ pending' = pending \ {out} /\ bg' = "idle" /\ bgError' = TRUE
      /\ pc' = (IF job = "open" THEN "failed" ELSE pc)
      /\ UNCHANGED <<current, logs, tables, job, memVars, vs, edit, record, out, pinned, openVars, written, safe,
                     pins>>
  BY <1>3 DEF ApplyFails
<1>5. pending' = {}
  BY <1>2, <1>4 DEF StepInv
<1>6. pc' = (IF pc = "up" THEN "up" ELSE "failed")
  BY <1>1, <1>2, <1>4 DEF StepInv
<1>7. ~vs.open => M # current
  BY <1>1, <1>2, <1>3 DEF ApplyInv
<1>8. /\ DOMAIN manifests' \subseteq DOMAIN manifests /\ \A n \in DOMAIN manifests' : manifests'[n] = manifests[n]
      /\ current \in DOMAIN manifests'
      /\ manifests' = [n \in DOMAIN manifests' |-> manifests'[n]]
  BY <1>2, <1>4, <1>7 DEF Drop, DiskTypes
<1>9. DiskTypes' /\ FilesSound'
  <2>1. manifests' \in [DOMAIN manifests' -> FileOf(Edit)]
    BY <1>2, <1>8 DEF DiskTypes
  <2> QED
    BY <1>2, <1>4, <1>8, <2>1 DEF DiskTypes, FilesSound
<1>10. MemoryTypes'
  BY <1>2, <1>4 DEF MemoryTypes, memVars, openVars
<1>11. StepInv'
  BY <1>2, <1>4, <1>5, <1>6 DEF StepInv, Closed, Applying
<1>12. ManifestKept
  BY <1>4, <1>8 DEF ManifestKept
<1>13. ASSUME NEW s \in States
       PROVE  Same(s)
  <2>1. LogEntries(s.log)' = LogEntries(s.log) /\ LogSynced(s.log)' = LogSynced(s.log)
    BY <1>4, LogsSame
  <2>2. Good(s)
    BY <1>2 DEF DiskInv
  <2> QED
    BY <1>4, <1>6, <2>1, <2>2 DEF Same, Good, memVars
<1>14. CASE pc = "up"
  <2>1. Held' = Held
    BY <1>4, <1>6, <1>14 DEF Held, TableEntries, memVars
  <2>2. vs.next <= vs'.next /\ vs' \in Versions
    BY <1>2, <1>4
  <2>3. MemInv' /\ ImmInv'
    BY <1>4, <1>14, <2>1, <2>2, MemKept
  <2>4. LiveInv' /\ BuildInv'
    BY <1>2, <1>4, <1>14 DEF UpInv, LiveInv, BuildInv, Applying
  <2>5. ~Settling' /\ bg' \notin Applying
    BY <1>4 DEF Settling, Applying
  <2> QED
    BY <1>4, <1>6, <1>9, <1>10, <1>11, <1>12, <1>13, <1>14, <2>1, <2>2, <2>3, <2>4, <2>5, UpMoves
<1>15. CASE pc # "up"
  <2>1. pc' = "failed"
    BY <1>6, <1>15
  <2>2. Fresh => Blank'
    BY <1>2, <1>4 DEF DiskInv, Blank
  <2>3. DiskInv' /\ Held' = Held
    BY <1>2, <1>4, <1>12, <1>13, <1>15, <2>1, <2>2, DiskKept
  <2>4. OrderInv'
    BY <1>4, <2>3, OrderKept DEF IInv
  <2>5. PhaseInv'
    BY <1>2, <1>4, <2>1 DEF PhaseInv, Closed, Open
  <2> QED
    BY <1>9, <1>10, <1>11, <2>1, <2>3, <2>4, <2>5, ClosedInv
<1> QED
  BY <1>14, <1>15

\* The new version is the one the manifest leads to.
LEMMA InstallStep == ASSUME IInv, Install PROVE IInv' /\ Held' = Held
<1>1. bg = "install" /\ bg \in Applying
  BY DEF Install, Applying
<1>2. /\ DiskTypes /\ FilesSound /\ MemoryTypes /\ StepInv /\ PhaseInv /\ DiskInv /\ NextInv /\ ApplyInv
      /\ pc \in {"saving", "up"} /\ (pc = "up" => vs.open /\ UpInv) /\ (pc = "saving" => SavingInv)
      /\ current # 0 /\ current \in DOMAIN manifests /\ current \in Nat
      /\ vs \in Versions /\ record \in Edit /\ vs.next \in Nat /\ vs.last \in Nat /\ vs.log \in Nat
      /\ ~bgError /\ MemInv /\ logNumber \in Nat /\ OrderInv
  BY <1>1, ApplyBegins DEF SavingInv, UpInv, MemoryTypes, IInv
<1>3. PICK t, k, L : t = Target /\ k = logNumber /\ L = vs.log
  OBVIOUS
<1>4. /\ Good(t) /\ vs.manifest < t.next /\ t.next <= vs.next
      /\ record.add = edit.add /\ record.del = edit.del /\ record.log = t.log
      /\ vs.manifest = current
      /\ Now = t /\ Manifest.recs # <<>> /\ Manifest.synced = Len(Manifest.recs) /\ Manifest.torn = -1
  BY <1>1, <1>2, <1>3 DEF ApplyInv, Written, Manifest, Now
<1>5. t.files = (vs.files \ record.del) \cup record.add /\ t.files \in SUBSET Nat /\ t.log \in Nat
  BY <1>2, <1>3, <1>4 DEF Target, Good, DiskTypes
<1>6. /\ vs' = [vs EXCEPT !.files = t.files, !.log = t.log, !.open = TRUE]
      /\ hasImm' = (IF job = "flush" THEN FALSE ELSE hasImm)
      /\ imm' = (IF job = "flush" THEN <<>> ELSE imm)
      /\ pending' = pending \ {out} /\ pc' = "up" /\ edit' = EmptyEdit /\ bg' = "delete"
      /\ UNCHANGED <<current, manifests, logs, tables, job, mem, logNumber, record, out, pinned, openVars, bgError,
                     written, safe, pins>>
  BY <1>4, <1>5 DEF Install, diskVars, ghosts
<1>7. /\ vs' \in Versions /\ vs'.files = t.files /\ vs'.log = t.log /\ vs'.open = TRUE
      /\ vs'.next = vs.next /\ vs'.last = vs.last /\ vs'.manifest = vs.manifest
  <2>1. PICK F \in SUBSET Nat, l \in Nat : F = t.files /\ l = t.log
    BY <1>5
  <2>2. vs' = [vs EXCEPT !.files = F, !.log = l, !.open = TRUE]
    BY <1>6, <2>1
  <2> QED
    BY <1>2, <2>1, <2>2 DEF Versions
<1>8. /\ t.log <= k /\ LogEntries(t.log) = ToSet(imm') \cup ToSet(mem)
      /\ UNION {ToSet(logs[n].recs) : n \in LogsFrom(t.log) \ {k}} = ToSet(imm')
      /\ (~hasImm' => imm' = <<>>)
  <2>1. LogEntries(k) = ToSet(mem) /\ LogsFrom(k) \ {k} = {} /\ ToSet(<<>>) = {}
    <3>1. LogEntries(k) = ToSet(mem)
      BY <1>2, <1>3, NewestLog
    <3>2. LogsFrom(k) \ {k} = {}
      BY <1>2, <1>3 DEF MemInv, LogsFrom, DiskTypes
    <3> QED
      BY <3>1, <3>2 DEF ToSet
  <2>2. CASE t.log = k /\ imm' = <<>>
    BY <1>2, <1>3, <2>1, <2>2
  <2>3. CASE pc = "saving"
    <3>1. edit.log = k /\ imm = <<>> /\ k # -1
      BY <1>2, <1>3, <2>3 DEF SavingInv, PhaseInv
    <3>2. t.log = k
      BY <1>3, <3>1 DEF Target
    <3>3. imm' = <<>>
      BY <1>6, <3>1
    <3> QED
      BY <2>2, <3>2, <3>3
  <2>4. CASE pc = "up" /\ job = "flush"
    <3>1. edit.log = k /\ k # -1
      BY <1>1, <1>2, <1>3, <2>4 DEF UpInv, BuildInv
    <3>2. t.log = k
      BY <1>3, <3>1 DEF Target
    <3>3. imm' = <<>>
      BY <1>6, <2>4
    <3> QED
      BY <2>2, <3>2, <3>3
  <2>5. CASE pc = "up" /\ job # "flush"
    <3>1. edit.log = -1
      BY <1>1, <1>2, <1>3, <2>5 DEF UpInv, BuildInv
    <3>2. t.log = L
      BY <1>3, <3>1 DEF Target
    <3>3. imm' = imm /\ hasImm' = hasImm
      BY <1>6, <2>5
    <3>4. LogEntries(L) = ToSet(imm) \cup ToSet(mem)
      BY <1>3, <2>5, OlderLogs
    <3> QED
      BY <1>2, <1>3, <2>5, <3>2, <3>3, <3>4 DEF UpInv, ImmInv
  <2> QED
    BY <1>2, <2>3, <2>4, <2>5
<1>9. Held' = Held
  <2>1. Held' = TableEntries(t.files) \cup ToSet(imm') \cup ToSet(mem)
    BY <1>6, <1>7 DEF Held, TableEntries
  <2>2. Held = TableEntries(t.files) \cup LogEntries(t.log)
    BY <1>4 DEF Good, Holds
  <2> QED
    BY <1>8, <2>1, <2>2
<1>10. DiskTypes' /\ FilesSound'
  BY <1>2, <1>6 DEF DiskTypes, FilesSound
<1>11. MemoryTypes'
  <2>1. EmptyEdit \in Edit
    BY DEF EmptyEdit, Edit
  <2>2. imm' \in Seq(Entry)
    BY <1>2, <1>6 DEF MemoryTypes
  <2>3. hasImm' \in BOOLEAN
    BY <1>2, <1>6 DEF MemoryTypes
  <2> QED
    BY <1>2, <1>6, <1>7, <2>1, <2>2, <2>3 DEF MemoryTypes, openVars
<1>12. Manifest' = Manifest /\ Now' = t /\ current' = current
  BY <1>4, <1>6 DEF Manifest, Now
<1>13. Good(t)'
  <2>1. LogEntries(t.log)' = LogEntries(t.log) /\ LogSynced(t.log)' = LogSynced(t.log)
    BY <1>6, LogsSame
  <2>2. Same(t)
    BY <1>3, <1>4, <1>6, <1>8, <2>1 DEF Same, Good
  <2> QED
    BY <1>4, <1>6, <1>9, <2>2, GoodKept
<1>14. DiskInv' /\ ~Fresh'
  BY <1>2, <1>4, <1>6, <1>10, <1>12, <1>13, OneGood
<1>15. OrderInv'
  BY <1>2, <1>6, <1>9, OrderKept
<1>16. PhaseInv'
  BY <1>2, <1>6 DEF PhaseInv, Closed, Open
<1>17. StepInv'
  <2>1. pending' = {}
    BY <1>2, <1>6 DEF StepInv
  <2> QED
    BY <1>2, <1>6, <2>1 DEF StepInv, Closed, Applying
<1>18. NextInv'
  BY <1>2, <1>4, <1>7, <1>12 DEF NextInv
<1>19. MemInv'
  BY <1>2, <1>6, <1>7, <1>9 DEF MemInv
<1>20. ImmInv'
  <2>1. LogsFrom(vs.log)' = LogsFrom(t.log)
    BY <1>6, <1>7 DEF LogsFrom
  <2> QED
    BY <1>3, <1>6, <1>7, <1>8, <2>1 DEF ImmInv
<1>21. LiveInv'
  <2>1. \A f \in t.files : f \in DOMAIN tables /\ f \in Nat /\ f < vs.next
    <3>1. \A f \in t.files : f \in DOMAIN tables /\ f \in Nat /\ f < t.next
      BY <1>4, <1>5 DEF Good
    <3>2. t.next \in Nat
      BY <1>4 DEF Good
    <3> QED
      BY <1>2, <1>4, <3>1, <3>2
  <2>2. CASE pc = "saving"
    BY <1>2, <1>6, <1>7, <2>1, <2>2 DEF LiveInv, PhaseInv
  <2>3. CASE pc = "up"
    BY <1>2, <1>6, <1>7, <2>1, <2>3 DEF LiveInv, UpInv
  <2> QED
    BY <1>2, <2>2, <2>3
<1>22. BuildInv'
  BY <1>6 DEF BuildInv, Applying
<1>23. UpInv'
  BY <1>4, <1>7, <1>12, <1>14, <1>19, <1>20, <1>21, <1>22 DEF UpInv
<1>24. Settled'
  BY <1>4, <1>7, <1>12 DEF Settled
<1> QED
  BY <1>6, <1>9, <1>10, <1>11, <1>14, <1>15, <1>16, <1>17, <1>18, <1>23, <1>24 DEF IInv, Applying

-----------------------------------------------------------------------------
\* Death.

\* A process that begins anew knows nothing.
LEMMA Forgotten ==
    ASSUME IInv, Forget, (DiskTypes /\ FilesSound /\ DiskInv /\ OrderInv)', UNCHANGED <<written, pins>>
    PROVE  IInv'
<1> USE DEF Forget
<1>1. written \in Nat /\ pins \in Nat
  BY DEF IInv, MemoryTypes
<1>2. MemoryTypes'
  <2>1. NoVersions \in Versions
    BY DEF NoVersions, Versions
  <2>2. EmptyEdit \in Edit
    BY DEF EmptyEdit, Edit
  <2>3. <<>> \in Seq(Entry) /\ 0 \in Nat
    OBVIOUS
  <2> QED
    BY <1>1, <2>1, <2>2, <2>3, Zenon DEF MemoryTypes
<1>3. PhaseInv' /\ StepInv'
  BY DEF PhaseInv, StepInv, Closed, Open
<1>4. pc' \in Closed
  BY DEF Closed
<1> QED
  BY <1>2, <1>3, <1>4, ClosedInv

\* A process that dies leaves the disk as it is.
LEMMA ProcessDiesStep == ASSUME IInv, ProcessDies PROVE IInv' /\ Held' = Held
<1>1. Forget /\ UNCHANGED <<current, manifests, logs, tables, written, safe, pins>> /\ pc' = "down"
  BY DEF ProcessDies, diskVars, Forget
<1>2. DiskTypes /\ FilesSound /\ DiskInv /\ OrderInv
  BY DEF IInv
<1>3. (DiskTypes /\ FilesSound /\ DiskInv /\ OrderInv)' /\ Held' = Held
  <2>1. CASE pc # "up"
    BY <1>1, <2>1, DiskQuiet
  <2>2. CASE pc = "up"
    <3>1. /\ current # 0 /\ current \in DOMAIN manifests /\ Manifest.recs # <<>> /\ Now \in States
          /\ \A s \in States : Good(s)
      BY <2>2, UpManifest
    <3>2. ManifestKept
      BY <1>1, <3>1 DEF ManifestKept
    <3>3. Held' = Held
      <4>1. PICK s : s = Now
        OBVIOUS
      <4>2. Held' = Holds(s)
        BY <1>1, <3>1, <4>1 DEF Held, Manifest, Now, Holds, TableEntries, LogEntries, LogsFrom
      <4> QED
        BY <3>1, <4>1, <4>2 DEF Good
    <3>4. ASSUME NEW s \in States
          PROVE  Same(s)
      <4>1. LogEntries(s.log)' = LogEntries(s.log) /\ LogSynced(s.log)' = LogSynced(s.log)
        BY <1>1, LogsSame
      <4> QED
        BY <1>1, <3>1, <4>1 DEF Same, Good
    <3>5. Fresh => Blank'
      BY <1>1, <1>2 DEF DiskInv, Blank
    <3>6. DiskInv'
      BY <1>1, <1>2, <3>2, <3>3, <3>4, <3>5, DiskKept
    <3>7. OrderInv'
      BY <1>1, <1>2, <3>3, OrderKept
    <3>8. DiskTypes' /\ FilesSound'
      BY <1>1, <1>2 DEF DiskTypes, FilesSound
    <3> QED
      BY <3>3, <3>6, <3>7, <3>8
  <2> QED
    BY <2>1, <2>2
<1> QED
  BY <1>1, <1>3, Forgotten

\* The records that remain of a log.
LEMMA RemainingEntries ==
    ASSUME NEW file \in FileOf(Entry), Sound(file), NEW g \in Remains(file)
    PROVE  /\ ToSet(g.recs) \subseteq ToSet(file.recs)
           /\ ToSet(SubSeq(file.recs, 1, file.synced)) \subseteq ToSet(SubSeq(g.recs, 1, g.synced))
           /\ file.recs = <<>> => g.recs = <<>>
<1>1. PICK n \in file.synced..Len(file.recs) : n \in Nat /\ g.recs = SubSeq(file.recs, 1, n) /\ g.synced = n
  BY RemainsAre
<1>2. /\ file.recs \in Seq(Entry) /\ Len(file.recs) \in Nat /\ file.synced \in 0..Len(file.recs)
      /\ n \in 0..Len(file.recs) /\ file.synced <= n
  BY <1>1, LenProperties DEF FileOf, Sound
<1>3. /\ g.recs \in Seq(Entry) /\ Len(g.recs) = n
      /\ \A i \in 1..n : g.recs[i] = file.recs[i]
      /\ ToSet(g.recs) \subseteq ToSet(file.recs)
  BY <1>1, <1>2, TakeFirst
<1>4. SubSeq(g.recs, 1, n) = g.recs
  <2>1. n \in 0..Len(g.recs) /\ n = Len(g.recs)
    BY <1>2, <1>3
  <2> QED
    BY <1>3, <2>1, TakeFirst
<1>5. ToSet(SubSeq(file.recs, 1, file.synced)) \subseteq ToSet(g.recs)
  <2>1. PICK x : x = SubSeq(file.recs, 1, file.synced)
    OBVIOUS
  <2>2. x \in Seq(Entry) /\ Len(x) = file.synced /\ \A i \in 1..file.synced : x[i] = file.recs[i]
    BY <1>2, <2>1, TakeFirst
  <2>3. ASSUME NEW e \in ToSet(x)
        PROVE  e \in ToSet(g.recs)
    <3>1. PICK i \in 1..Len(x) : x[i] = e
      BY <2>2, InSequence
    <3>2. i \in 1..n /\ g.recs[i] = e
      BY <1>2, <1>3, <2>2, <3>1
    <3> QED
      BY <1>3, <3>2, InSequence
  <2> QED
    BY <2>1, <2>3
<1>6. file.recs = <<>> => g.recs = <<>>
  <2>1. file.recs = <<>> => Len(g.recs) = 0
    BY <1>2, <1>3
  <2> QED
    BY <1>3, <2>1, EmptySeq
<1> QED
  BY <1>1, <1>3, <1>4, <1>5, <1>6

\* What a machine that dies leaves of the logs.
LEMMA LogsRemain ==
    ASSUME DiskTypes, FilesSound, DOMAIN logs' = DOMAIN logs,
           \A n \in DOMAIN logs : logs'[n] \in Remains(logs[n])
    PROVE  /\ \A n \in DOMAIN logs : logs'[n] \in FileOf(Entry) /\ Sound(logs'[n])
           /\ \A n \in DOMAIN logs : logs[n].recs = <<>> => logs'[n].recs = <<>>
           /\ \A L : LogEntries(L)' \subseteq LogEntries(L) /\ LogSynced(L) \subseteq LogSynced(L)'
<1>1. ASSUME NEW n \in DOMAIN logs
      PROVE  /\ logs'[n] \in FileOf(Entry) /\ Sound(logs'[n])
             /\ ToSet(logs'[n].recs) \subseteq ToSet(logs[n].recs)
             /\ ToSet(SubSeq(logs[n].recs, 1, logs[n].synced))
                   \subseteq ToSet(SubSeq(logs'[n].recs, 1, logs'[n].synced))
             /\ logs[n].recs = <<>> => logs'[n].recs = <<>>
  <2>1. PICK file, g : file = logs[n] /\ g = logs'[n]
    OBVIOUS
  <2>2. file \in FileOf(Entry) /\ Sound(file) /\ g \in Remains(file)
    BY <2>1 DEF DiskTypes, FilesSound
  <2>3. g \in FileOf(Entry) /\ Sound(g)
    BY <2>2, RemainsAre
  <2>4. /\ ToSet(g.recs) \subseteq ToSet(file.recs)
        /\ ToSet(SubSeq(file.recs, 1, file.synced)) \subseteq ToSet(SubSeq(g.recs, 1, g.synced))
        /\ file.recs = <<>> => g.recs = <<>>
    BY <2>2, RemainingEntries
  <2> QED
    BY <2>1, <2>3, <2>4
<1>2. ASSUME NEW L
      PROVE  LogEntries(L)' \subseteq LogEntries(L) /\ LogSynced(L) \subseteq LogSynced(L)'
  <2>1. LogsFrom(L)' = LogsFrom(L) /\ LogsFrom(L) \subseteq DOMAIN logs
    BY DEF LogsFrom
  <2>2. LogEntries(L)' \subseteq LogEntries(L)
    BY <1>1, <2>1 DEF LogEntries
  <2>3. LogSynced(L) \subseteq LogSynced(L)'
    BY <1>1, <2>1 DEF LogSynced
  <2> QED
    BY <2>2, <2>3
<1> QED
  BY <1>1, <1>2

\* Whatever remains leads to a part of the contents, and to what was synced.
LEMMA MachineDiesStep ==
    ASSUME IInv, MachineDies
    PROVE  IInv' /\ Held' \subseteq Held /\ safe \subseteq {e.w : e \in Held'}
<1>1. /\ Forget /\ UNCHANGED <<current, tables, written, safe, pins>> /\ pc' = "down"
      /\ DOMAIN logs' = DOMAIN logs /\ \A n \in DOMAIN logs : logs'[n] \in Remains(logs[n])
      /\ DOMAIN manifests' = DOMAIN manifests /\ \A n \in DOMAIN manifests : manifests'[n] \in Remains(manifests[n])
      /\ logs' = [n \in DOMAIN logs |-> logs'[n]] /\ manifests' = [n \in DOMAIN manifests |-> manifests'[n]]
  BY DEF MachineDies, Forget
<1>2. DiskTypes /\ FilesSound /\ DiskInv /\ OrderInv
  BY DEF IInv
<1>3. /\ \A n \in DOMAIN logs : logs'[n] \in FileOf(Entry) /\ Sound(logs'[n])
      /\ \A n \in DOMAIN logs : logs[n].recs = <<>> => logs'[n].recs = <<>>
      /\ \A L : LogEntries(L)' \subseteq LogEntries(L) /\ LogSynced(L) \subseteq LogSynced(L)'
  BY <1>1, <1>2, LogsRemain
<1>4. ASSUME NEW n \in DOMAIN manifests
      PROVE  /\ manifests'[n] \in FileOf(Edit) /\ Sound(manifests'[n])
             /\ \E k \in manifests[n].synced..Len(manifests[n].recs) :
                   /\ k \in Nat /\ manifests'[n].recs = SubSeq(manifests[n].recs, 1, k)
                   /\ manifests'[n].synced = k
  <2>1. PICK file, g : file = manifests[n] /\ g = manifests'[n]
    OBVIOUS
  <2>2. file \in FileOf(Edit) /\ Sound(file) /\ g \in Remains(file)
    BY <1>1, <1>2, <2>1 DEF DiskTypes, FilesSound
  <2>3. /\ g \in FileOf(Edit) /\ Sound(g)
        /\ \E k \in file.synced..Len(file.recs) : k \in Nat /\ g.recs = SubSeq(file.recs, 1, k) /\ g.synced = k
    BY <2>2, RemainsAre
  <2> QED
    BY <2>1, <2>3
<1>5. DiskTypes' /\ FilesSound'
  <2>1. logs' \in [DOMAIN logs' -> FileOf(Entry)] /\ manifests' \in [DOMAIN manifests' -> FileOf(Edit)]
    BY <1>1, <1>3, <1>4
  <2> QED
    BY <1>1, <1>2, <1>3, <1>4, <2>1 DEF DiskTypes, FilesSound
<1>6. Blank => Blank'
  BY <1>1, <1>3 DEF Blank
<1>7. DiskInv' /\ Held' \subseteq Held /\ safe \subseteq {e.w : e \in Held'}
  <2>1. CASE current = 0
    <3>1. Held' = {} /\ Blank /\ safe = {} /\ Fresh
      BY <1>1, <1>2, <2>1 DEF Held, DiskInv, Fresh, Blank
    <3> QED
      BY <1>1, <1>6, <2>1, <3>1 DEF DiskInv
  <2>2. CASE current # 0
    <3>1. current \in DOMAIN manifests
      BY <1>2, <2>2 DEF DiskInv
    <3>2. /\ Manifest' \in FileOf(Edit) /\ Sound(Manifest') /\ Manifest \in FileOf(Edit) /\ Sound(Manifest)
          /\ \E k \in Manifest.synced..Len(Manifest.recs) :
                k \in Nat /\ Manifest'.recs = SubSeq(Manifest.recs, 1, k) /\ Manifest'.synced = k
      BY <1>1, <1>2, <1>4, <3>1 DEF Manifest, DiskTypes, FilesSound
    <3>3. PICK k \in Manifest.synced..Len(Manifest.recs) :
             k \in Nat /\ Manifest'.recs = SubSeq(Manifest.recs, 1, k) /\ Manifest'.synced = k
      BY <3>2
    <3>4. /\ Manifest.recs \in Seq(Edit) /\ Len(Manifest.recs) \in Nat /\ Manifest.synced \in Nat
          /\ k \in 0..Len(Manifest.recs) /\ Manifest.synced <= k
      BY <3>2, <3>3, LenProperties DEF FileOf, Sound
    <3>5. Len(Manifest'.recs) = k
      BY <3>3, <3>4, TakeFirst
    <3>6. CASE k = 0
      <4>1. Manifest.synced = 0 /\ Manifest'.recs = <<>> /\ Manifest'.recs \in Seq(Edit)
        BY <3>2, <3>4, <3>5, <3>6, EmptySeq DEF FileOf
      <4>2. current = 1 /\ Fresh /\ Blank /\ safe = {}
        BY <1>2, <2>2, <4>1 DEF DiskInv, Fresh, Blank
      <4>3. Held' = {}
        BY <1>1, <4>1 DEF Held
      <4>4. States' = {}
        <5>1. {n \in 0..0 : n > 0} = {}
          OBVIOUS
        <5> QED
          BY <3>3, <3>5, <3>6, <5>1 DEF States
      <4> QED
        BY <1>1, <1>6, <3>1, <4>2, <4>3, <4>4 DEF DiskInv
    <3>7. CASE k > 0
      <4>1. PICK s : s = Recovered(Manifest'.recs)
        OBVIOUS
      <4>2. s \in States /\ Now' = s /\ Manifest'.recs # <<>>
        BY <3>3, <3>4, <3>5, <3>7, <4>1 DEF States, Now
      <4>3. Good(s) /\ current < s.next
        BY <1>2, <2>2, <4>2 DEF DiskInv
      <4>4. TableEntries(s.files)' = TableEntries(s.files)
        BY <1>1 DEF TableEntries
      <4>5. Held' = Holds(s)'
        <5>1. Held' = Holds(Now)'
          BY <1>1, <2>2, <4>2 DEF Held
        <5> QED
          BY <4>2, <5>1 DEF Holds, TableEntries, LogEntries, LogsFrom
      <4>6. Holds(s)' \subseteq Holds(s)
        BY <1>3, <4>4 DEF Holds
      <4>7. {e.w : e \in TableEntries(s.files) \cup LogSynced(s.log)}
               \subseteq {e.w : e \in TableEntries(s.files)' \cup LogSynced(s.log)'}
        BY <1>3, <4>4
      <4>8. safe' \subseteq {e.w : e \in TableEntries(s.files)' \cup LogSynced(s.log)'}
        BY <1>1, <4>3, <4>7 DEF Good
      <4>9. Good(s)'
        BY <1>1, <4>3, <4>4, <4>5, <4>8 DEF Good
      <4>10. DiskInv' /\ ~Fresh'
        BY <1>1, <1>5, <2>2, <3>1, <3>3, <3>5, <4>2, <4>3, <4>9, OneGood
      <4>11. LogSynced(s.log)' \subseteq LogEntries(s.log)'
        <5>1. PICK L : L = s.log
          OBVIOUS
        <5>2. \A n \in LogsFrom(L)' : ToSet(SubSeq(logs'[n].recs, 1, logs'[n].synced)) \subseteq ToSet(logs'[n].recs)
          <6> SUFFICES ASSUME NEW n \in LogsFrom(L)'
                       PROVE  ToSet(SubSeq(logs'[n].recs, 1, logs'[n].synced)) \subseteq ToSet(logs'[n].recs)
            OBVIOUS
          <6>1. logs'[n] \in FileOf(Entry) /\ Sound(logs'[n])
            BY <1>1, <1>3 DEF LogsFrom
          <6> QED
            BY <6>1, TakeFirst DEF FileOf, Sound
        <5>3. LogSynced(L)' \subseteq LogEntries(L)'
          BY <5>2 DEF LogSynced, LogEntries
        <5> QED
          BY <5>1, <5>3 DEF LogSynced, LogEntries, LogsFrom
      <4>12. TableEntries(s.files)' \cup LogSynced(s.log)' \subseteq Held'
        BY <4>5, <4>11 DEF Holds
      <4>13. safe \subseteq {e.w : e \in Held'}
        BY <1>1, <4>8, <4>12
      <4> QED
        BY <4>3, <4>5, <4>6, <4>10, <4>13 DEF Good
    <3> QED
      BY <3>3, <3>6, <3>7
  <2> QED
    BY <2>1, <2>2
<1>8. OrderInv'
  BY <1>1, <1>2, <1>7 DEF OrderInv
<1> QED
  BY <1>1, <1>5, <1>7, <1>8, Forgotten

-----------------------------------------------------------------------------
\* The invariant holds, and what follows from it.

\* A step that changes nothing keeps the invariant.
LEMMA StutterStep == ASSUME IInv, UNCHANGED vars PROVE IInv' /\ Held' = Held
<1> USE DEF vars, diskVars, memVars, openVars, editVars, ghosts
<1>1. Held' = Held /\ Now' = Now /\ States' = States /\ Manifest' = Manifest
  BY DEF Held, Now, States, Manifest, Holds, TableEntries, LogEntries, LogsFrom
<1>2. DiskTypes' /\ MemoryTypes' /\ FilesSound' /\ PhaseInv' /\ StepInv'
  BY DEF IInv, DiskTypes, MemoryTypes, FilesSound, PhaseInv, StepInv, Whole, Manifest
<1>3. DiskInv' /\ OrderInv'
  <2>1. DiskTypes /\ FilesSound /\ DiskInv /\ OrderInv
    BY DEF IInv
  <2> QED
    BY <1>1, <2>1 DEF DiskInv, OrderInv, Fresh, Blank, Good, Holds, TableEntries, LogEntries, LogSynced, LogsFrom
<1>4. (pc \in Open => NextInv)' /\ (pc = "logs" => LogsInv)'
  BY <1>1 DEF IInv, NextInv, LogsInv, Done, DoneEntries, LogsFrom, TableEntries
<1>5. (bg \in Applying => ApplyInv)'
  BY <1>1 DEF IInv, ApplyInv, Target, Written, Good, Holds, TableEntries, LogEntries, LogSynced, LogsFrom
<1>6. (pc = "saving" => SavingInv)' /\ (Settling => Settled)'
  BY <1>1 DEF IInv, SavingInv, MemInv, Settling, Settled
<1>7. (pc = "up" => UpInv)'
  BY <1>1 DEF IInv, UpInv, MemInv, ImmInv, LiveInv, BuildInv, Fresh, LogsFrom
<1> QED
  BY <1>1, <1>2, <1>3, <1>4, <1>5, <1>6, <1>7 DEF IInv

\* The steps that write nothing and kill nobody.
Quiet == Opening \/ SwitchMem \/ Pin \/ Unpin \/ Background \/ UNCHANGED vars

\* Opening, the background thread and iterators leave the contents as they are.
LEMMA QuietStep ==
    ASSUME ~ReuseAny, IInv, Quiet
    PROVE  /\ IInv' /\ Held' = Held
           /\ UNCHANGED <<safe, outages>> /\ (pc = "up" => pc' = "up")
<1>1. CASE Opening
  <2>1. CASE OpenDB(TRUE) \/ OpenDB(FALSE)
    BY <2>1, OpenDBStep DEF OpenDB, ghosts
  <2>2. CASE NewDB
    BY <2>2, NewDBStep DEF NewDB, ghosts
  <2>3. CASE NewDBCurrent
    BY <2>3, NewDBCurrentStep DEF NewDBCurrent, ghosts
  <2>4. CASE ReadManifest
    BY <2>4, ReadManifestStep DEF ReadManifest, ghosts
  <2>5. CASE RecoverLogFile
    BY <2>5, RecoverLogFileStep DEF RecoverLogFile, ghosts
  <2>6. CASE OpenLog
    BY <2>6, OpenLogStep DEF OpenLog, ghosts
  <2>7. CASE OpenFailed
    BY <2>7, StutterStep DEF OpenFailed, vars, ghosts
  <2> QED
    BY <1>1, <2>1, <2>2, <2>3, <2>4, <2>5, <2>6, <2>7 DEF Opening
<1>2. CASE SwitchMem
  BY <1>2, SwitchMemStep DEF SwitchMem, ghosts
<1>3. CASE Pin
  BY <1>3, PinStep DEF Pin
<1>4. CASE Unpin
  BY <1>4, UnpinStep DEF Unpin, ghosts
<1>5. CASE Background
  <2>1. CASE StartFlush
    BY <2>1, StartTableStep DEF StartFlush, StartTable, ghosts
  <2>2. CASE StartCompact
    BY <2>2, StartTableStep DEF StartCompact, StartTable, ghosts
  <2>3. CASE BuildTable
    BY <2>3, BuildTableStep DEF BuildTable, ghosts
  <2>4. CASE BuildFails
    BY <2>4, BuildFailsStep DEF BuildFails
  <2>5. CASE Apply
    BY <2>5, ApplyStep DEF Apply, ghosts
  <2>6. CASE AddRecord
    BY <2>6, AddRecordStep DEF AddRecord, ghosts
  <2>7. CASE SyncManifest
    BY <2>7, SyncManifestStep DEF SyncManifest, ghosts
  <2>8. CASE SetCurrentFile
    BY <2>8, SetCurrentFileStep DEF SetCurrentFile, ghosts
  <2>9. CASE ApplyFails
    <3>1. pc = "up" => job # "open"
      BY <2>9 DEF IInv, StepInv, Applying, ApplyFails
    <3> QED
      BY <2>9, <3>1, ApplyFailsStep DEF ApplyFails
  <2>10. CASE Install
    BY <2>10, InstallStep DEF Install, ghosts
  <2>11. CASE DeleteOne
    BY <2>11, DeleteOneStep DEF DeleteOne, ghosts
  <2>12. CASE DeleteDone
    BY <2>12, DeleteDoneStep DEF DeleteDone, ghosts
  <2> QED
    BY <1>5, <2>1, <2>2, <2>3, <2>4, <2>5, <2>6, <2>7, <2>8, <2>9, <2>10, <2>11, <2>12 DEF Background
<1>6. CASE UNCHANGED vars
  BY <1>6, StutterStep DEF vars, ghosts
<1> QED
  BY <1>1, <1>2, <1>3, <1>4, <1>5, <1>6 DEF Quiet

\* Every step keeps the invariant.
LEMMA NextIInv == ASSUME ~ReuseAny, IInv, [Next]_vars PROVE IInv'
<1>1. CASE Quiet
  BY <1>1, QuietStep
<1>2. CASE Write(TRUE) \/ Write(FALSE)
  BY <1>2, WriteStep
<1>3. CASE ProcessDies
  BY <1>3, ProcessDiesStep
<1>4. CASE MachineDies
  BY <1>4, MachineDiesStep
<1> QED
  BY <1>1, <1>2, <1>3, <1>4 DEF Next, Quiet

\* The inductive invariant of the whole database: the files on the disk lead to its
\* contents at every step of opening, LogAndApply and DeleteObsoleteFiles.
THEOREM InvariantHolds == ~ReuseAny => (Spec => []IInv)
<1> SUFFICES ASSUME ~ReuseAny
             PROVE  Spec => []IInv
  OBVIOUS
<1>1. Init => IInv
  BY InitIInv
<1>2. IInv /\ [Next]_vars => IInv'
  BY NextIInv
<1> QED
  BY <1>1, <1>2, PTL DEF Spec

\* After a death the database opens: Recover finds a manifest it can read and every
\* table it names (OpenSucceeds).
THEOREM OpeningSucceeds == ~ReuseAny => (Spec => []OpenSucceeds)
<1>1. IInv => OpenSucceeds
  BY DEF IInv, PhaseInv, OpenSucceeds
<1> QED
  BY <1>1, InvariantHolds, PTL

\* DeleteObsoleteFiles takes no table that is in use, and leaves no other (LiveFilesKept).
THEOREM LiveFilesAreKept == ~ReuseAny => (Spec => []LiveFilesKept)
<1>1. IInv => LiveFilesKept
  BY DEF IInv, UpInv, LiveInv, LiveFilesKept
<1> QED
  BY <1>1, InvariantHolds, PTL

\* The entries of a database that is open.
LEMMA InMemoryIs == ASSUME IInv, pc = "up" PROVE InMemory = Held
<1>1. vs.files \cap DOMAIN tables = vs.files
  BY DEF IInv, UpInv, LiveInv
<1>2. UNION {tables[n] : n \in vs.files \cap DOMAIN tables} = TableEntries(vs.files)
  BY <1>1, Zenon DEF TableEntries
<1> QED
  BY <1>2 DEF InMemory, Held

\* Sequence numbers order the writes, those recovered from the logs included
\* (SequencesFresh).
THEOREM SequencesAreFresh == ~ReuseAny => (Spec => []SequencesFresh)
<1>1. IInv => SequencesFresh
  <2> SUFFICES ASSUME IInv, pc = "up"
               PROVE  \A e \in InMemory :
                        e.seq <= vs.last /\ \A f \in InMemory : e.seq < f.seq <=> e.w < f.w
    BY DEF SequencesFresh
  <2> QED
    BY InMemoryIs DEF IInv, UpInv, MemInv, OrderInv
<1> QED
  BY <1>1, InvariantHolds, PTL

\* What opening the database would find is what it holds.
LEMMA OnDiskIs == ASSUME IInv, pc # "up" PROVE OnDisk = Held
<1>1. DiskTypes /\ FilesSound /\ DiskInv
  BY DEF IInv
<1>2. CASE current = 0
  BY <1>2 DEF OnDisk, Held
<1>3. CASE current # 0
  <2>1. /\ ManifestRecs = Manifest.recs /\ ~Damaged(Manifest)
        /\ Manifest.recs = <<>> => Now = NoRecord
        /\ Manifest.recs # <<>> => \A s \in {Now} : s \in States /\ Good(s) /\ current < s.next
    BY <1>1, <1>3, ManifestGood
  <2>2. CASE Manifest.recs = <<>>
    <3>1. LogOf(ManifestRecs) = -1
      BY <2>1, <2>2 DEF LogOf, Now, NoRecord
    <3> QED
      BY <2>2, <3>1 DEF OnDisk, Held, ManifestReadable
  <2>3. CASE Manifest.recs # <<>>
    <3>1. PICK s : s = Now
      OBVIOUS
    <3>2. Good(s)
      BY <2>1, <2>3, <3>1
    <3>3. /\ FilesOf(ManifestRecs) = s.files /\ LogOf(ManifestRecs) = s.log
          /\ NextOf(ManifestRecs) = s.next /\ SequenceOf(ManifestRecs) = s.last
      BY <2>1, <3>1 DEF FilesOf, LogOf, NextOf, SequenceOf, Now
    <3>4. ManifestReadable /\ s.files \cap DOMAIN tables = s.files
      BY <2>1, <3>2, <3>3 DEF ManifestReadable, Good
    <3>5. \A n \in LogsFrom(s.log) : Readable(logs[n]) = logs[n].recs
      BY <1>1, ReadableIs DEF LogsFrom, DiskTypes, FilesSound
    <3>6. UNION {tables[n] : n \in s.files \cap DOMAIN tables} = TableEntries(s.files)
      BY <3>4, Zenon DEF TableEntries
    <3>7. UNION {ToSet(Readable(logs[n])) : n \in LogsFrom(s.log)} = LogEntries(s.log)
      BY <3>5 DEF LogEntries
    <3>8. OnDisk = TableEntries(s.files) \cup LogEntries(s.log)
      BY <1>3, <3>3, <3>4, <3>6, <3>7 DEF OnDisk
    <3> QED
      BY <2>3, <1>3, <3>1, <3>2, <3>8 DEF Good, Holds
  <2> QED
    BY <2>2, <2>3
<1> QED
  BY <1>2, <1>3

\* The contents the promise is about.
LEMMA ContentsAre == IInv => Contents = {e.w : e \in Held}
<1>1. ASSUME IInv
      PROVE  Contents = {e.w : e \in Held}
  BY <1>1, InMemoryIs, OnDiskIs DEF Contents
<1> QED
  BY <1>1

\* The same, after a step.
LEMMA ContentsAreNext == IInv' => (Contents = {e.w : e \in Held})'
BY ContentsAre, PTL

\* Each step is a step of the promise, or none.
LEMMA StepImplements ==
    ASSUME ~ReuseAny, IInv, IInv', [Next]_vars,
           Contents = {e.w : e \in Held}, Contents' = {e.w : e \in Held'}
    PROVE  [Promise!Next]_(Promise!vars)
<1>1. CASE Quiet
  <2>1. /\ Contents' = Contents /\ UNCHANGED <<safe, outages>> /\ (pc = "up" => pc' = "up")
    BY <1>1, QuietStep
  <2>2. CASE (pc' = "up") = (pc = "up")
    BY <2>1, <2>2 DEF Promise!vars
  <2>3. CASE pc # "up" /\ pc' = "up"
    <3>1. Promise!Open
      BY <2>1, <2>3 DEF Promise!Open
    <3> QED
      BY <3>1 DEF Promise!Next
  <2> QED
    BY <2>1, <2>2, <2>3
<1>2. ASSUME NEW sync \in BOOLEAN, Write(sync)
      PROVE  \E w \in 1..MaxWrites : Promise!Write(w, sync)
  <2>1. Contents' = Contents \cup {written + 1}
    BY <1>2, WriteStep
  <2>2. written + 1 \in 1..MaxWrites
    BY <1>2, RecoveryAssumption, SMTT(30) DEF Write, IInv, MemoryTypes
  <2>3. /\ pc = "up" /\ pc' = "up" /\ outages' = outages
        /\ safe' = IF sync THEN safe \cup {written + 1} ELSE safe
    BY <1>2 DEF Write
  <2>4. Promise!Write(written + 1, sync)
    BY <2>1, <2>3 DEF Promise!Write
  <2> QED
    BY <2>2, <2>4
<1>3. CASE ProcessDies
  <2>1. Contents' = Contents /\ UNCHANGED <<safe, outages>> /\ pc' # "up"
    BY <1>3, ProcessDiesStep DEF ProcessDies, Forget
  <2>2. Promise!ProcessDies
    BY <2>1 DEF Promise!ProcessDies
  <2> QED
    BY <2>2 DEF Promise!Next
<1>4. CASE MachineDies
  <2>1. Contents' \subseteq Contents /\ safe \subseteq Contents'
    BY <1>4, MachineDiesStep
  <2>2. outages' = outages + 1 /\ safe' = safe /\ pc' # "up"
    BY <1>4 DEF MachineDies, Forget
  <2>3. Promise!MachineDies
    BY <2>1, <2>2 DEF Promise!MachineDies
  <2> QED
    BY <2>3 DEF Promise!Next
<1>5. CASE Write(TRUE) \/ Write(FALSE)
  <2>1. PICK sync \in BOOLEAN : Write(sync)
    BY <1>5
  <2>2. \E w \in 1..MaxWrites : Promise!Write(w, sync)
    BY <1>2, <2>1
  <2> QED
    BY <2>2 DEF Promise!Next
<1> QED
  BY <1>1, <1>3, <1>4, <1>5 DEF Next, Quiet

\* LevelDB implements its promise (Implements): its files, and the death of the process
\* or of the machine between any two steps, are details that nobody sees.
THEOREM RecoveryImplementsDurable == ~ReuseAny => (Spec => Implements)
<1> SUFFICES ASSUME ~ReuseAny
             PROVE  Spec => Implements
  OBVIOUS
<1>1. Init => Promise!Init
  <2> SUFFICES ASSUME Init
               PROVE  Promise!Init
    OBVIOUS
  <2>1. Contents = {}
    BY DEF Init, Contents, OnDisk
  <2> QED
    BY <2>1 DEF Init, Promise!Init
<1>2. IInv => Contents = {e.w : e \in Held}
  BY ContentsAre
<1>3. IInv' => Contents' = {e.w : e \in Held'}
  BY ContentsAreNext
<1>4. IInv /\ IInv' /\ [Next]_vars => [Promise!Next]_(Promise!vars)
  BY <1>2, <1>3, StepImplements
<1>5. Spec => []IInv
  BY InvariantHolds
<1> QED
  BY <1>1, <1>4, <1>5, PTL DEF Spec, Implements, Promise!Spec

=============================================================================
