---------------------------- MODULE WritersProofs ----------------------------
(***************************************************************************)
(* What holds of LevelDB's write path for any number of threads, any size  *)
(* of a memtable or a group, and any number of writes, calls and faults.   *)
(***************************************************************************)
EXTENDS Writers, SequenceLemmas

-----------------------------------------------------------------------------
\* The inductive invariant, in parts.

Leading == {"room", "sleep", "roomWait", "log", "insert"}
Elsewhere == {"idle", "memWait0", "memWait", "manual", "manualWait"}
Writes == Nat \ {0}
Queued(t) == \E i \in 1..Len(writers) : writers[i] = t

ThreadTypes ==
    /\ pc \in [Threads -> Leading \cup Elsewhere \cup {"queued"}]
    /\ call \in [Threads -> [write : Int, sync : BOOLEAN]]
    /\ answer \in [Threads -> {"none", "ok", "error"}]
    /\ last \in Threads \cup {NoThread}
    /\ writers \in Seq(Threads)
    /\ begun \in Nat

MemoryTypes ==
    /\ log \in Seq(Writes) /\ oldLogs \in Seq(Writes)
    /\ mem \in Seq(Writes) /\ imm \in Seq(Writes) /\ tables \in Seq(Writes) /\ order \in Seq(Writes)
    /\ hasImm \in BOOLEAN

\* writers_ holds each thread in Write at most once, and until it is answered; only its
\* head is past the wait at the beginning of Write.
QueueInv ==
    /\ IsInjective(writers)
    /\ \A i \in 1..Len(writers) :
         /\ pc[writers[i]] \in Leading \cup {"queued"}
         /\ answer[writers[i]] = "none"
         /\ call[writers[i]].write >= 0
    /\ \A t \in Threads :
         /\ pc[t] = "queued" /\ answer[t] = "none" => Queued(t)
         /\ pc[t] \in Leading => writers # <<>> /\ writers[1] = t

\* Writes are numbered in the order they are made and no two calls share one.
CallInv ==
    /\ \A t \in Threads :
         /\ call[t].write <= begun
         /\ call[t].write <= 0 => ~call[t].sync
         /\ pc[t] \in {"memWait0", "memWait"} => call[t].write = 0
    /\ \A t, u \in Threads : call[t].write > 0 /\ call[t].write = call[u].write => t = u
    /\ \A i \in 1..Len(order) : order[i] <= begun

\* While the head of the queue writes for its group, the group is a prefix of the queue
\* in which nobody asks for a sync unless the leader does; before the group is inserted
\* it is in the log, and synced if that was asked.
GroupInv ==
    \A t \in Threads :
        pc[t] \in {"log", "insert"} =>
            \E n \in 1..Len(writers) :
                /\ writers[n] = last
                /\ \A i \in 1..n : call[writers[i]].sync => call[t].sync
                /\ pc[t] = "insert" =>
                     \A i \in 1..n :
                        call[writers[i]].write # 0 =>
                            /\ call[writers[i]].write \in ToSet(log)
                            /\ call[t].sync => call[writers[i]].write \in wasSynced

\* The memtables hold what is not in the tables, and logs hold the memtables.
MemoryInv ==
    /\ order = tables \o imm \o mem
    /\ IsInjective(order)
    /\ ToSet(imm) \subseteq ToSet(oldLogs)
    /\ ToSet(mem) \subseteq ToSet(log)
    /\ ~hasImm => imm = <<>>

\* A write is in the order of sequence numbers when, and only when, it succeeded.
AnswerInv ==
    \A t \in Threads :
        call[t].write > 0 => (answer[t] = "ok" <=> call[t].write \in ToSet(order))

ThreadInv == ThreadTypes /\ QueueInv /\ CallInv /\ GroupInv /\ AnswerInv /\ SyncHonoured

IInv == ThreadInv /\ MemoryTypes /\ MemoryInv

-----------------------------------------------------------------------------
\* The operators of the model.

\* The loop of BuildBatchGroup as a function of how far it went.
EntriesUpTo(batches, n, f) ==
    f = [i \in 0..n |-> IF i = 0 THEN <<>>
                        ELSE IF batches[i] = 0 THEN f[i - 1]
                        ELSE Append(f[i - 1], batches[i])]

\* The function exists, however many batches there are.
LEMMA EntriesDefined ==
    ASSUME NEW batches \in Seq(Nat), NEW n \in Nat
    PROVE  \E f : EntriesUpTo(batches, n, f)
<1> DEFINE S == {m \in Nat : \E f : EntriesUpTo(batches, m, f)}
<1>1. 0 \in S
  <2> DEFINE f == [i \in 0..0 |-> <<>>]
  <2>1. EntriesUpTo(batches, 0, f)
    BY DEF EntriesUpTo
  <2> QED
    BY <2>1
<1>2. ASSUME NEW m \in S
      PROVE  m + 1 \in S
  <2>1. PICK f : EntriesUpTo(batches, m, f)
    OBVIOUS
  <2> DEFINE g == [i \in 0..(m + 1) |->
                     IF i # m + 1 THEN f[i]
                     ELSE IF batches[i] = 0 THEN f[m] ELSE Append(f[m], batches[i])]
  <2>2. \A i \in 0..m : f[i] = IF i = 0 THEN <<>>
                                ELSE IF batches[i] = 0 THEN f[i - 1]
                                ELSE Append(f[i - 1], batches[i])
    BY <2>1 DEF EntriesUpTo
  <2>3. \A i \in 0..m : g[i] = f[i]
    OBVIOUS
  <2>4. g[m + 1] = IF batches[m + 1] = 0 THEN g[m] ELSE Append(g[m], batches[m + 1])
    BY <2>3
  <2>5. ASSUME NEW i \in 0..(m + 1)
        PROVE  g[i] = IF i = 0 THEN <<>>
                      ELSE IF batches[i] = 0 THEN g[i - 1]
                      ELSE Append(g[i - 1], batches[i])
    <3> HIDE DEF g
    <3>1. CASE i = m + 1
      BY <2>4, <3>1
    <3>2. CASE i \in 0..m
      <4>1. i # 0 => i - 1 \in 0..m
        BY <3>2
      <4> QED
        BY <2>2, <2>3, <3>2, <4>1
    <3> QED
      BY <3>1, <3>2
  <2>6. EntriesUpTo(batches, m + 1, g)
    BY <2>5 DEF EntriesUpTo
  <2> QED
    BY <2>6
<1>3. S \in SUBSET Nat
  OBVIOUS
<1>4. S = Nat
  <2> HIDE DEF S
  <2> QED
    BY <1>1, <1>2, <1>3, SetInduction
<1> QED
  BY <1>4

\* Entries is the value of that function at the end.
LEMMA EntriesLoop ==
    ASSUME NEW batches \in Seq(Nat)
    PROVE  \E f : EntriesUpTo(batches, Len(batches), f) /\ Entries(batches) = f[Len(batches)]
<1> DEFINE f == CHOOSE f : EntriesUpTo(batches, Len(batches), f)
<1>1. EntriesUpTo(batches, Len(batches), f)
  <2>1. Len(batches) \in Nat
    BY LenProperties
  <2>2. \E g : EntriesUpTo(batches, Len(batches), g)
    BY <2>1, EntriesDefined
  <2> QED
    BY <2>2, Zenon
<1>2. Entries(batches) = f[Len(batches)]
  BY Zenon DEF Entries, EntriesUpTo
<1> QED
  BY <1>1, <1>2

\* The entries of a group: every batch that is not NULL, once if the batches differ.
LEMMA EntriesAre ==
    ASSUME NEW batches \in Seq(Nat)
    PROVE  /\ Entries(batches) \in Seq(Writes)
           /\ \A x : x \in ToSet(Entries(batches)) <=>
                       x # 0 /\ \E i \in 1..Len(batches) : batches[i] = x
           /\ (\A i, j \in 1..Len(batches) :
                  batches[i] # 0 /\ batches[i] = batches[j] => i = j)
              => IsInjective(Entries(batches))
<1>1. PICK f : EntriesUpTo(batches, Len(batches), f) /\ Entries(batches) = f[Len(batches)]
  BY EntriesLoop
<1>2. Len(batches) \in Nat /\ \A i \in 1..Len(batches) : batches[i] \in Nat
  BY LenProperties, ElementOfSeq
<1>3. /\ f[0] = <<>>
      /\ \A i \in 1..Len(batches) :
            f[i] = IF batches[i] = 0 THEN f[i - 1] ELSE Append(f[i - 1], batches[i])
  <2>1. \A i \in 0..Len(batches) :
            f[i] = IF i = 0 THEN <<>>
                   ELSE IF batches[i] = 0 THEN f[i - 1]
                   ELSE Append(f[i - 1], batches[i])
    BY <1>1, Zenon DEF EntriesUpTo
  <2> QED
    BY <1>2, <2>1
<1> DEFINE Differ == \A i, j \in 1..Len(batches) : batches[i] # 0 /\ batches[i] = batches[j] => i = j
           Good(n) == /\ f[n] \in Seq(Writes)
                      /\ \A x : x \in ToSet(f[n]) <=> x # 0 /\ \E i \in 1..n : batches[i] = x
                      /\ Differ => IsInjective(f[n])
           S == {n \in Nat : n <= Len(batches) => Good(n)}
<1>4. 0 \in S
  <2>1. <<>> \in Seq(Writes) /\ ToSet(<<>>) = {} /\ IsInjective(<<>>)
    BY DEF ToSet, IsInjective
  <2>2. Good(0)
    BY <1>3, <2>1
  <2> QED
    BY <2>2
<1>5. ASSUME NEW n \in S
      PROVE  n + 1 \in S
  <2> SUFFICES ASSUME n + 1 <= Len(batches)
               PROVE  Good(n + 1)
    OBVIOUS
  <2>1. n \in Nat /\ Good(n) /\ n + 1 \in 1..Len(batches)
    BY <1>2
  <2>2. f[n + 1] = IF batches[n + 1] = 0 THEN f[n] ELSE Append(f[n], batches[n + 1])
    BY <1>3, <2>1
  <2>3. \A x : (\E i \in 1..(n + 1) : batches[i] = x)
               <=> (batches[n + 1] = x \/ \E i \in 1..n : batches[i] = x)
    BY <2>1
  <2>4. CASE batches[n + 1] = 0
    BY <2>1, <2>2, <2>3, <2>4
  <2>5. CASE batches[n + 1] # 0
    <3>1. batches[n + 1] \in Writes /\ f[n] \in Seq(Writes)
      BY <1>2, <2>1, <2>5 DEF Writes
    <3>2. <<batches[n + 1]>> \in Seq(Writes) /\ f[n + 1] = f[n] \o <<batches[n + 1]>>
      BY <2>2, <2>5, <3>1, AppendIsConcat, SMTT(30)
    <3>3. f[n + 1] \in Seq(Writes) /\ ToSet(f[n + 1]) = ToSet(f[n]) \cup ToSet(<<batches[n + 1]>>)
      <4> HIDE DEF Good, S, Differ
      <4>1. PICK a \in Seq(Writes), b \in Seq(Writes) : a = f[n] /\ b = <<batches[n + 1]>>
        BY <3>1, <3>2
      <4>2. a \o b \in Seq(Writes) /\ ToSet(a \o b) = ToSet(a) \cup ToSet(b)
        BY ConcatElements
      <4> QED
        BY <3>2, <4>1, <4>2, Zenon
    <3>4. ToSet(<<batches[n + 1]>>) = {batches[n + 1]} /\ IsInjective(<<batches[n + 1]>>)
      BY <3>1 DEF ToSet, IsInjective
    <3>5. \A x : x \in ToSet(f[n + 1]) <=> x # 0 /\ \E i \in 1..(n + 1) : batches[i] = x
      <4>1. ASSUME NEW x
            PROVE  x \in ToSet(f[n + 1]) <=> x # 0 /\ \E i \in 1..(n + 1) : batches[i] = x
        <5>1. x \in ToSet(f[n + 1]) <=> x = batches[n + 1] \/ x \in ToSet(f[n])
          BY <3>3, <3>4
        <5>2. x \in ToSet(f[n]) <=> x # 0 /\ \E i \in 1..n : batches[i] = x
          BY <2>1
        <5> QED
          BY <2>3, <2>5, <5>1, <5>2
      <4> QED
        BY <4>1
    <3>6. ASSUME Differ
          PROVE  IsInjective(f[n + 1])
      <4>1. ToSet(f[n]) \cap ToSet(<<batches[n + 1]>>) = {}
        <5> SUFFICES ASSUME batches[n + 1] \in ToSet(f[n])
                     PROVE  FALSE
          BY <3>4
        <5>1. PICK i \in 1..n : batches[i] = batches[n + 1]
          BY <2>1
        <5>2. i \in 1..Len(batches) /\ i # n + 1
          BY <1>2, <2>1
        <5> QED
          BY <2>1, <2>5, <3>6, <5>1, <5>2
      <4>2. IsInjective(f[n])
        BY <2>1, <3>6
      <4> HIDE DEF Good, S, Differ
      <4>3. IsInjective(f[n] \o <<batches[n + 1]>>)
        BY <3>1, <3>2, <3>4, <4>1, <4>2, ConcatInjective
      <4> QED
        BY <3>2, <4>3
    <3> QED
      BY <3>3, <3>5, <3>6
  <2> QED
    BY <2>4, <2>5
<1>6. S \in SUBSET Nat
  OBVIOUS
<1>7. S = Nat
  <2> HIDE DEF S
  <2> QED
    BY <1>4, <1>5, <1>6, SetInduction
<1>8. Good(Len(batches))
  <2>1. Len(batches) \in S
    BY <1>2, <1>7
  <2> HIDE DEF Good
  <2> QED
    BY <1>2, <2>1
<1> QED
  BY <1>1, <1>8

\* BuildBatchGroup ends a group within the queue, and lets nobody into it that asks for
\* a sync its leader does not make.
LEMMA GroupEndIs ==
    ASSUME ThreadTypes, writers # <<>>
    PROVE  /\ GroupEnd \in 1..Len(writers)
           /\ \A i \in 1..GroupEnd : call[writers[i]].sync => call[writers[1]].sync
<1>1. Len(writers) \in Nat \ {0}
  BY LenProperties, EmptySeq DEF ThreadTypes
<1>2. Fits(1)
  BY DEF Fits
<1>3. \E i \in 1..Len(writers) : Fits(i) /\ (i = Len(writers) \/ ~Fits(i + 1))
  <2> SUFFICES ASSUME \A i \in 1..Len(writers) : Fits(i) => i # Len(writers) /\ Fits(i + 1)
               PROVE  FALSE
    OBVIOUS
  <2> DEFINE S == {n \in Nat : n + 1 <= Len(writers) => Fits(n + 1)}
  <2>1. 0 \in S
    BY <1>2
  <2>2. ASSUME NEW n \in S
        PROVE  n + 1 \in S
    <3> SUFFICES ASSUME n + 2 <= Len(writers)
                 PROVE  Fits(n + 2)
      OBVIOUS
    <3>1. n + 1 \in 1..Len(writers) /\ Fits(n + 1)
      BY <1>1
    <3> QED
      BY <3>1
  <2>3. S \in SUBSET Nat
    OBVIOUS
  <2>4. S = Nat
    <3> HIDE DEF S
    <3> QED
      BY <2>1, <2>2, <2>3, SetInduction
  <2>5. Len(writers) - 1 \in S
    <3> HIDE DEF S
    <3> QED
      BY <1>1, <2>4
  <2>6. Fits(Len(writers))
    BY <1>1, <2>5
  <2> QED
    BY <1>1, <2>6
<1>4. /\ GroupEnd \in 1..Len(writers)
      /\ Fits(GroupEnd)
  BY <1>3, Zenon DEF GroupEnd
<1>5. ASSUME NEW i \in 1..GroupEnd
      PROVE  call[writers[i]].sync => call[writers[1]].sync
  <2>1. i = 1 \/ i \in 2..GroupEnd
    BY <1>1, <1>4
  <2> QED
    BY <1>4, <2>1 DEF Fits
<1> QED
  BY <1>4, <1>5

\* The size of the group, from last_writer.
LEMMA GroupSizeIs ==
    ASSUME ThreadTypes, QueueInv, NEW n \in 1..Len(writers), writers[n] = last
    PROVE  GroupSize = n
<1>1. GroupSize \in 1..Len(writers) /\ writers[GroupSize] = last
  BY Zenon DEF GroupSize
<1> QED
  BY <1>1, LenProperties DEF ThreadTypes, QueueInv, IsInjective

\* The writes of the group.
LEMMA GroupWritesAre ==
    ASSUME ThreadTypes, QueueInv, CallInv, NEW n \in 1..Len(writers), writers[n] = last
    PROVE  /\ GroupWrites \in Seq(Writes)
           /\ \A x : x \in ToSet(GroupWrites) <=>
                       x # 0 /\ \E i \in 1..n : call[writers[i]].write = x
           /\ IsInjective(GroupWrites)
<1> DEFINE batches == BatchesOf(n)
<1>1. GroupWrites = Entries(batches)
  BY GroupSizeIs DEF GroupWrites
<1>2. /\ n \in Nat
      /\ \A i \in 1..n : i \in 1..Len(writers) /\ writers[i] \in Threads
      /\ Len(writers) \in Nat /\ DOMAIN writers = 1..Len(writers)
  BY LenProperties, ElementOfSeq DEF ThreadTypes
<1>3. \A i \in 1..n : call[writers[i]].write \in Nat
  BY <1>2 DEF ThreadTypes, QueueInv
<1>4. batches \in Seq(Nat) /\ Len(batches) = n /\ \A i \in 1..n : batches[i] = call[writers[i]].write
  BY <1>2, <1>3, IsASeq DEF BatchesOf
<1>5. ASSUME NEW i \in 1..n, NEW j \in 1..n, batches[i] # 0, batches[i] = batches[j]
      PROVE  i = j
  <2>1. writers[i] = writers[j]
    BY <1>2, <1>3, <1>4, <1>5 DEF CallInv
  <2> QED
    BY <1>2, <2>1 DEF QueueInv, IsInjective
<1> HIDE DEF batches
<1>6. /\ Entries(batches) \in Seq(Writes)
      /\ \A x : x \in ToSet(Entries(batches)) <=> x # 0 /\ \E i \in 1..n : batches[i] = x
      /\ IsInjective(Entries(batches))
  BY <1>4, <1>5, EntriesAre
<1> QED
  BY <1>1, <1>4, <1>6

-----------------------------------------------------------------------------
\* The steps.

threadInvVars == <<pc, call, answer, last, writers, begun, log, order, wasSynced>>
memoryInvVars == <<log, oldLogs, mem, imm, tables, order, hasImm>>

\* A step that changes nothing the invariant says of the threads keeps it.
LEMMA ThreadsUnchanged == ThreadInv /\ UNCHANGED threadInvVars => ThreadInv'
BY DEF threadInvVars, ThreadInv, ThreadTypes, Queued, QueueInv, CallInv, GroupInv, AnswerInv, SyncHonoured

\* The same for the memtables and the logs.
LEMMA MemoryUnchanged ==
    MemoryTypes /\ MemoryInv /\ UNCHANGED memoryInvVars => MemoryTypes' /\ MemoryInv'
BY DEF memoryInvVars, MemoryTypes, MemoryInv

\* The queue and the threads when the head t of the queue moves from one point of Write
\* to another, or a thread that is not in the queue does something else.
LEMMA Moves ==
    ASSUME ThreadTypes, QueueInv, NEW t \in Threads, NEW p,
           pc' = [pc EXCEPT ![t] = p], UNCHANGED <<writers, answer, call>>,
           \/ p \in Leading /\ pc[t] \in Leading
           \/ p \in Leading /\ pc[t] = "queued" /\ writers # <<>> /\ t = writers[1]
           \/ p \in Elsewhere /\ pc[t] \in Elsewhere
    PROVE  QueueInv' /\ pc' \in [Threads -> Leading \cup Elsewhere \cup {"queued"}]
<1>1. /\ Len(writers) \in Nat
      /\ \A i \in 1..Len(writers) : writers[i] \in Threads
  BY LenProperties, ElementOfSeq DEF ThreadTypes
<1>2. pc' \in [Threads -> Leading \cup Elsewhere \cup {"queued"}]
  BY DEF ThreadTypes
<1>3. \A u \in Threads : u # t => pc'[u] = pc[u]
  BY DEF ThreadTypes
<1>4. pc'[t] = p
  BY DEF ThreadTypes
<1>5. ASSUME NEW i \in 1..Len(writers)
      PROVE  pc'[writers[i]] \in Leading \cup {"queued"}
  BY <1>1, <1>3, <1>4 DEF QueueInv, Leading, Elsewhere
<1>6. ASSUME NEW u \in Threads
      PROVE  /\ pc'[u] = "queued" /\ answer[u] = "none" => Queued(u)
             /\ pc'[u] \in Leading => writers # <<>> /\ writers[1] = u
  BY <1>3, <1>4 DEF QueueInv, Leading, Elsewhere
<1>7. QueueInv'
  BY <1>5, <1>6 DEF QueueInv, Queued
<1> QED
  BY <1>2, <1>7

\* The queue after the head and its group of n writers were answered and left it.
LEMMA Leaves ==
    ASSUME ThreadTypes, QueueInv, NEW t \in Threads, pc[t] \in Leading,
           NEW n \in 1..Len(writers), NEW status \in {"ok", "error"},
           writers' = Rest(n),
           answer' = [u \in Threads |-> IF \E i \in 1..n : writers[i] = u THEN status ELSE answer[u]],
           Return(t, status), UNCHANGED call
    PROVE  /\ writers' \in Seq(Threads)
           /\ answer' \in [Threads -> {"none", "ok", "error"}]
           /\ pc' \in [Threads -> Leading \cup Elsewhere \cup {"queued"}]
           /\ QueueInv'
           /\ \A u \in Threads :
                 /\ pc'[u] \notin Leading
                 /\ pc'[u] \in {"memWait0", "memWait"} => pc[u] = pc'[u] \/ call[u].write = 0
<1>1. /\ Len(writers) \in Nat /\ DOMAIN writers = 1..Len(writers)
      /\ \A i \in 1..Len(writers) : writers[i] \in Threads
  BY LenProperties, ElementOfSeq DEF ThreadTypes
<1>2. /\ writers' \in Seq(Threads)
      /\ Len(writers') = Len(writers) - n
      /\ \A i \in 1..(Len(writers) - n) : writers'[i] = writers[n + i]
  <2>1. n \in 0..Len(writers)
    BY <1>1
  <2> QED
    BY <2>1, DropFirst DEF Rest, ThreadTypes
<1>3. \A i, j \in 1..Len(writers) : writers[i] = writers[j] => i = j
  BY <1>1 DEF QueueInv, IsInjective
<1>4. t = writers[1]
  BY DEF QueueInv
<1>5. /\ \A u \in Threads : u # t => pc'[u] = pc[u]
      /\ pc'[t] \in {"memWait0", "idle"}
      /\ pc'[t] = "memWait0" => call[t].write = 0
      /\ pc' \in [Threads -> Leading \cup Elsewhere \cup {"queued"}]
  BY DEF Return, ThreadTypes, Elsewhere
<1>6. \A u \in Threads : u # t => pc[u] \notin Leading
  BY <1>4 DEF QueueInv
<1>7. /\ answer' \in [Threads -> {"none", "ok", "error"}]
      /\ \A u \in Threads :
            answer'[u] = IF \E i \in 1..n : writers[i] = u THEN status ELSE answer[u]
  BY DEF ThreadTypes
<1>8. ASSUME NEW i \in 1..Len(writers')
      PROVE  /\ pc'[writers'[i]] \in Leading \cup {"queued"}
             /\ answer'[writers'[i]] = "none"
             /\ call[writers'[i]].write >= 0
  <2>1. n + i \in 1..Len(writers) /\ n + i # 1 /\ writers'[i] = writers[n + i]
    BY <1>1, <1>2
  <2>2. \A j \in 1..n : writers[j] # writers[n + i]
    BY <1>1, <1>2, <1>3, <2>1
  <2>3. writers[n + i] # t
    BY <1>1, <1>3, <1>4, <2>1
  <2> QED
    BY <1>1, <1>5, <1>7, <2>1, <2>2, <2>3 DEF QueueInv
<1>9. IsInjective(writers')
  <2>1. DOMAIN writers' = 1..(Len(writers) - n)
    BY <1>2, LenProperties
  <2>2. ASSUME NEW i \in 1..(Len(writers) - n), NEW j \in 1..(Len(writers) - n), writers'[i] = writers'[j]
        PROVE  i = j
    <3>1. n + i \in 1..Len(writers) /\ n + j \in 1..Len(writers) /\ writers[n + i] = writers[n + j]
      BY <1>1, <1>2, <2>2
    <3> QED
      BY <1>3, <3>1
  <2> QED
    BY <2>1, <2>2 DEF IsInjective
<1>10. ASSUME NEW u \in Threads
       PROVE  pc'[u] = "queued" /\ answer'[u] = "none" => Queued(u)'
  <2> SUFFICES ASSUME pc'[u] = "queued", answer'[u] = "none"
               PROVE  \E i \in 1..Len(writers') : writers'[i] = u
    BY DEF Queued
  <2>1. u # t /\ pc[u] = "queued" /\ answer[u] = "none" /\ ~\E i \in 1..n : writers[i] = u
    BY <1>5, <1>7
  <2>2. PICK i \in 1..Len(writers) : writers[i] = u
    BY <2>1 DEF QueueInv, Queued
  <2>3. i - n \in 1..Len(writers') /\ n + (i - n) = i
    BY <1>1, <1>2, <2>1, <2>2
  <2> QED
    BY <1>2, <2>2, <2>3
<1>11. ASSUME NEW u \in Threads
       PROVE  /\ pc'[u] \notin Leading
              /\ pc'[u] \in {"memWait0", "memWait"} => pc[u] = pc'[u] \/ call[u].write = 0
  BY <1>5, <1>6 DEF Leading
<1>12. QueueInv'
  BY <1>8, <1>9, <1>10, <1>11 DEF QueueInv
<1> QED
  BY <1>2, <1>5, <1>7, <1>11, <1>12

\* A step of one thread that answers nobody and does not begin to write for a group.
LEMMA MoveStep ==
    ASSUME ThreadInv, NEW t \in Threads, NEW p,
           pc' = [pc EXCEPT ![t] = p],
           UNCHANGED <<writers, answer, call, last, begun, log, order, wasSynced>>,
           \/ p \in Leading \ {"log", "insert"} /\ pc[t] \in Leading
           \/ p \in Leading \ {"log", "insert"} /\ pc[t] = "queued" /\ writers # <<>> /\ t = writers[1]
           \/ p \in Elsewhere /\ pc[t] \in Elsewhere
           \/ p = "queued" /\ pc[t] = "queued",
           p \in {"memWait0", "memWait"} => call[t].write = 0
    PROVE  ThreadInv'
<1>1. CASE p = "queued"
  <2>1. pc' = pc
    BY <1>1 DEF ThreadInv, ThreadTypes, Leading, Elsewhere
  <2> QED
    BY <2>1, ThreadsUnchanged DEF threadInvVars
<1>2. CASE p # "queued"
  <2>1. QueueInv' /\ pc' \in [Threads -> Leading \cup Elsewhere \cup {"queued"}]
    BY <1>2, Moves DEF ThreadInv
  <2>2. pc'[t] = p /\ \A u \in Threads : u # t => pc'[u] = pc[u]
    BY DEF ThreadInv, ThreadTypes
  <2>3. ThreadTypes'
    BY <2>1 DEF ThreadInv, ThreadTypes
  <2>4. CallInv'
    BY <2>2 DEF ThreadInv, CallInv
  <2>5. GroupInv'
    BY <1>2, <2>2 DEF ThreadInv, GroupInv, Elsewhere
  <2>6. AnswerInv' /\ SyncHonoured'
    BY DEF ThreadInv, AnswerInv, SyncHonoured
  <2> QED
    BY <2>1, <2>3, <2>4, <2>5, <2>6 DEF ThreadInv
<1> QED
  BY <1>1, <1>2

\* The head of the queue answers a group with an error, or ends the call of a NULL batch.
LEMMA LeaveStep ==
    ASSUME ThreadInv, NEW t \in Threads, pc[t] \in Leading,
           NEW n \in 1..Len(writers), NEW status \in {"ok", "error"},
           writers' = Rest(n),
           answer' = [u \in Threads |-> IF \E i \in 1..n : writers[i] = u THEN status ELSE answer[u]],
           Return(t, status),
           UNCHANGED <<call, last, begun, order, wasSynced>>,
           status = "error" \/ (n = 1 /\ call[t].write = 0)
    PROVE  ThreadInv'
<1>1. /\ writers' \in Seq(Threads)
      /\ answer' \in [Threads -> {"none", "ok", "error"}]
      /\ pc' \in [Threads -> Leading \cup Elsewhere \cup {"queued"}]
      /\ QueueInv'
      /\ \A u \in Threads :
            /\ pc'[u] \notin Leading
            /\ pc'[u] \in {"memWait0", "memWait"} => pc[u] = pc'[u] \/ call[u].write = 0
  BY Leaves DEF ThreadInv
<1>2. ThreadTypes'
  BY <1>1 DEF ThreadInv, ThreadTypes
<1>3. CallInv'
  BY <1>1 DEF ThreadInv, CallInv
<1>4. GroupInv'
  BY <1>1 DEF GroupInv, Leading
<1>5. t = writers[1]
  BY DEF ThreadInv, QueueInv
<1>6. ASSUME NEW u \in Threads
      PROVE  \/ answer'[u] = answer[u]
             \/ answer[u] = "none" /\ (answer'[u] = "error" \/ call[u].write = 0)
  <2>1. Len(writers) \in Nat
    BY LenProperties DEF ThreadInv, ThreadTypes
  <2>2. CASE \E i \in 1..n : writers[i] = u
    <3>1. PICK i \in 1..n : writers[i] = u
      BY <2>2
    <3>2. i \in 1..Len(writers) /\ answer[u] = "none" /\ answer'[u] = status
      BY <2>1, <2>2, <3>1 DEF ThreadInv, QueueInv
    <3>3. n = 1 => u = t
      BY <1>5, <3>1
    <3> QED
      BY <3>2, <3>3
  <2> QED
    BY <2>2
<1>7. AnswerInv'
  BY <1>6 DEF ThreadInv, AnswerInv
<1>8. SyncHonoured'
  BY <1>6 DEF ThreadInv, SyncHonoured, CallInv
<1> QED
  BY <1>1, <1>2, <1>3, <1>4, <1>7, <1>8 DEF ThreadInv

\* The head of the queue chooses its group.
LEMMA LeadStep ==
    ASSUME ThreadInv, NEW t \in Threads, pc[t] \in Leading,
           pc' = [pc EXCEPT ![t] = "log"], last' = writers[GroupEnd],
           UNCHANGED <<writers, answer, call, begun, order, wasSynced>>
    PROVE  ThreadInv'
<1>1. t = writers[1] /\ writers # <<>> /\ \A u \in Threads : u # t => pc[u] \notin Leading
  BY DEF ThreadInv, QueueInv
<1>2. /\ GroupEnd \in 1..Len(writers)
      /\ \A i \in 1..GroupEnd : call[writers[i]].sync => call[writers[1]].sync
  BY <1>1, GroupEndIs DEF ThreadInv
<1>3. QueueInv' /\ pc' \in [Threads -> Leading \cup Elsewhere \cup {"queued"}]
  <2>1. "log" \in Leading
    BY DEF Leading
  <2> QED
    BY <2>1, Moves DEF ThreadInv
<1>4. pc'[t] = "log" /\ \A u \in Threads : u # t => pc'[u] = pc[u]
  BY DEF ThreadInv, ThreadTypes
<1>5. ThreadTypes'
  <2>1. writers[GroupEnd] \in Threads
    BY <1>2, ElementOfSeq DEF ThreadInv, ThreadTypes
  <2> QED
    BY <1>3, <2>1 DEF ThreadInv, ThreadTypes
<1>6. CallInv'
  BY <1>4 DEF ThreadInv, CallInv
<1>7. GroupInv'
  <2> SUFFICES ASSUME NEW u \in Threads, pc'[u] \in {"log", "insert"}
               PROVE  \E n \in 1..Len(writers) :
                        /\ writers[n] = last'
                        /\ \A i \in 1..n : call[writers[i]].sync => call[u].sync
                        /\ pc'[u] # "insert"
    BY DEF GroupInv
  <2>1. u = t
    BY <1>1, <1>4 DEF Leading
  <2> QED
    BY <1>1, <1>2, <1>4, <2>1
<1>8. AnswerInv' /\ SyncHonoured'
  BY DEF ThreadInv, AnswerInv, SyncHonoured
<1> QED
  BY <1>3, <1>5, <1>6, <1>7, <1>8 DEF ThreadInv

\* A writer whose write another thread made returns from Write.
LEMMA ReturnStep ==
    ASSUME ThreadInv, NEW t \in Threads, pc[t] = "queued", answer[t] # "none", Return(t, answer[t]),
           UNCHANGED <<writers, answer, call, last, begun, log, order, wasSynced>>
    PROVE  ThreadInv'
<1>1. /\ pc'[t] \in {"memWait0", "idle"} /\ (pc'[t] = "memWait0" => call[t].write = 0)
      /\ \A u \in Threads : u # t => pc'[u] = pc[u]
      /\ pc' \in [Threads -> Leading \cup Elsewhere \cup {"queued"}]
  BY DEF ThreadInv, ThreadTypes, Return, Elsewhere
<1>2. ThreadTypes'
  BY <1>1 DEF ThreadInv, ThreadTypes
<1>3. \A i \in 1..Len(writers) : writers[i] \in Threads /\ writers[i] # t
  BY ElementOfSeq DEF ThreadInv, ThreadTypes, QueueInv
<1>4. QueueInv'
  BY <1>1, <1>3 DEF ThreadInv, QueueInv, Queued, Leading
<1>5. CallInv'
  BY <1>1 DEF ThreadInv, CallInv
<1>6. GroupInv'
  BY <1>1 DEF ThreadInv, GroupInv
<1>7. AnswerInv' /\ SyncHonoured'
  BY DEF ThreadInv, AnswerInv, SyncHonoured
<1> QED
  BY <1>2, <1>4, <1>5, <1>6, <1>7 DEF ThreadInv

\* TEST_CompactMemTable returns after its wait.
LEMMA WaitedStep ==
    ASSUME ThreadInv, NEW t \in Threads, pc[t] \in {"memWait0", "memWait"}, NEW status \in {"ok", "error"},
           pc' = [pc EXCEPT ![t] = "idle"], answer' = [answer EXCEPT ![t] = status],
           UNCHANGED <<writers, call, last, begun, log, order, wasSynced>>
    PROVE  ThreadInv'
<1>1. /\ pc'[t] = "idle" /\ \A u \in Threads : u # t => pc'[u] = pc[u] /\ answer'[u] = answer[u]
      /\ pc' \in [Threads -> Leading \cup Elsewhere \cup {"queued"}]
      /\ answer' \in [Threads -> {"none", "ok", "error"}]
  BY DEF ThreadInv, ThreadTypes, Elsewhere
<1>2. ThreadTypes'
  BY <1>1 DEF ThreadInv, ThreadTypes
<1>3. \A i \in 1..Len(writers) : writers[i] \in Threads /\ writers[i] # t
  BY ElementOfSeq DEF ThreadInv, ThreadTypes, QueueInv, Leading
<1>4. QueueInv'
  BY <1>1, <1>3 DEF ThreadInv, QueueInv, Queued, Leading
<1>5. CallInv'
  BY <1>1 DEF ThreadInv, CallInv
<1>6. GroupInv'
  BY <1>1 DEF ThreadInv, GroupInv
<1>7. call[t].write = 0 /\ ~call[t].sync
  BY DEF ThreadInv, CallInv
<1>8. AnswerInv' /\ SyncHonoured'
  BY <1>1, <1>7 DEF ThreadInv, AnswerInv, SyncHonoured
<1> QED
  BY <1>2, <1>4, <1>5, <1>6, <1>8 DEF ThreadInv

\* A thread enters Write: it is put at the end of the queue, with a write of its own.
LEMMA EnterStep ==
    ASSUME ThreadInv, MemoryTypes, NEW t \in Threads,
           NEW c \in [write : Nat, sync : BOOLEAN], Enter(t, c),
           \/ c.write = begun + 1 /\ begun' = begun + 1
           \/ c.write = 0 /\ ~c.sync /\ begun' = begun
    PROVE  ThreadInv'
<1>1. /\ Len(writers) \in Nat /\ DOMAIN writers = 1..Len(writers)
      /\ \A i \in 1..Len(writers) : writers[i] \in Threads
  BY LenProperties, ElementOfSeq DEF ThreadInv, ThreadTypes
<1>2. /\ pc[t] = "idle"
      /\ call' = [call EXCEPT ![t] = c]
      /\ answer' = [answer EXCEPT ![t] = "none"]
      /\ writers' = Append(writers, t)
      /\ pc' = [pc EXCEPT ![t] = IF writers = <<>> THEN "room" ELSE "queued"]
      /\ UNCHANGED <<last, log, order, wasSynced>>
  BY DEF Enter, logVars
<1>3. /\ writers' \in Seq(Threads)
      /\ Len(writers') = Len(writers) + 1
      /\ \A i \in 1..Len(writers) : writers'[i] = writers[i]
      /\ writers'[Len(writers) + 1] = t
      /\ DOMAIN writers' = 1..(Len(writers) + 1)
  BY <1>1, <1>2, AppendProperties, LenProperties DEF ThreadInv, ThreadTypes
<1>4. \A i \in 1..Len(writers) : writers[i] # t
  BY <1>1, <1>2 DEF ThreadInv, QueueInv, Leading
<1>5. /\ call'[t] = c /\ answer'[t] = "none"
      /\ pc'[t] = IF writers = <<>> THEN "room" ELSE "queued"
      /\ \A u \in Threads : u # t => call'[u] = call[u] /\ answer'[u] = answer[u] /\ pc'[u] = pc[u]
  BY <1>2 DEF ThreadInv, ThreadTypes
<1>6. ThreadTypes'
  BY <1>2, <1>3 DEF ThreadInv, ThreadTypes, Leading
<1>7. QueueInv'
  <2>1. IsInjective(writers')
    <3>1. \A i, j \in 1..Len(writers) : writers[i] = writers[j] => i = j
      BY <1>1 DEF ThreadInv, QueueInv, IsInjective
    <3> SUFFICES ASSUME NEW i \in 1..(Len(writers) + 1), NEW j \in 1..(Len(writers) + 1),
                        writers'[i] = writers'[j]
                 PROVE  i = j
      BY <1>3 DEF IsInjective
    <3> QED
      BY <1>1, <1>3, <1>4, <3>1
  <2>2. ASSUME NEW i \in 1..Len(writers')
        PROVE  /\ pc'[writers'[i]] \in Leading \cup {"queued"}
               /\ answer'[writers'[i]] = "none"
               /\ call'[writers'[i]].write >= 0
    <3>1. CASE i = Len(writers) + 1
      BY <1>3, <1>5, <3>1 DEF Leading
    <3>2. CASE i \in 1..Len(writers)
      <4>1. writers'[i] = writers[i] /\ writers[i] # t /\ writers[i] \in Threads
        BY <1>1, <1>3, <1>4, <3>2
      <4> QED
        BY <1>5, <3>2, <4>1 DEF ThreadInv, QueueInv
    <3> QED
      BY <1>1, <1>3, <3>1, <3>2
  <2>3. ASSUME NEW u \in Threads, pc'[u] = "queued", answer'[u] = "none"
        PROVE  \E i \in 1..Len(writers') : writers'[i] = u
    <3>1. CASE u = t
      BY <1>1, <1>3, <3>1
    <3>2. CASE u # t
      <4>1. PICK i \in 1..Len(writers) : writers[i] = u
        BY <1>5, <2>3, <3>2 DEF ThreadInv, QueueInv, Queued
      <4> QED
        BY <1>1, <1>3, <4>1
    <3> QED
      BY <3>1, <3>2
  <2>4. ASSUME NEW u \in Threads, pc'[u] \in Leading
        PROVE  writers' # <<>> /\ writers'[1] = u
    <3>1. writers' # <<>>
      BY <1>1, <1>3, EmptySeq
    <3>2. CASE u = t
      <4>1. writers = <<>>
        BY <1>5, <2>4, <3>2 DEF Leading
      <4>2. Len(writers) = 0
        BY <4>1
      <4> QED
        BY <1>3, <3>1, <3>2, <4>2
    <3>3. CASE u # t
      <4>1. writers # <<>> /\ writers[1] = u
        BY <1>5, <2>4, <3>3 DEF ThreadInv, QueueInv
      <4>2. 1 \in 1..Len(writers)
        BY <1>1, <4>1, EmptySeq DEF ThreadInv, ThreadTypes
      <4> QED
        BY <1>3, <3>1, <4>1, <4>2
    <3> QED
      BY <3>2, <3>3
  <2> QED
    BY <2>1, <2>2, <2>3, <2>4 DEF QueueInv, Queued
<1>8. CallInv'
  <2>1. /\ begun \in Nat /\ begun' \in Nat /\ begun' >= begun /\ c.write <= begun'
        /\ \A u \in Threads : call[u].write \in Int /\ call[u].write <= begun
    BY DEF ThreadInv, ThreadTypes, CallInv
  <2>2. ASSUME NEW u \in Threads
        PROVE  /\ call'[u].write <= begun'
               /\ call'[u].write <= 0 => ~call'[u].sync
               /\ pc'[u] \in {"memWait0", "memWait"} => call'[u].write = 0
    <3>1. CASE u = t
      BY <1>5, <2>1, <3>1
    <3>2. CASE u # t
      BY <1>5, <2>1, <3>2 DEF ThreadInv, CallInv
    <3> QED
      BY <3>1, <3>2
  <2>3. ASSUME NEW u \in Threads, NEW v \in Threads, call'[u].write > 0,
               call'[u].write = call'[v].write
        PROVE  u = v
    <3>1. c.write > 0 => c.write > begun
      BY <2>1
    <3> QED
      BY <1>5, <2>1, <2>3, <3>1 DEF ThreadInv, CallInv
  <2>4. \A i \in 1..Len(order) : order[i] \in Nat /\ order[i] <= begun'
    <3>1. \A i \in 1..Len(order) : order[i] \in Nat
      BY ElementOfSeq DEF MemoryTypes, Writes
    <3> QED
      BY <2>1, <3>1 DEF ThreadInv, CallInv
  <2> QED
    BY <1>2, <2>2, <2>3, <2>4 DEF CallInv
<1>9. GroupInv'
  <2> SUFFICES ASSUME NEW u \in Threads, pc'[u] \in {"log", "insert"}
               PROVE  \E n \in 1..Len(writers') :
                        /\ writers'[n] = last'
                        /\ \A i \in 1..n : call'[writers'[i]].sync => call'[u].sync
                        /\ pc'[u] = "insert" =>
                             \A i \in 1..n :
                                call'[writers'[i]].write # 0 =>
                                    /\ call'[writers'[i]].write \in ToSet(log')
                                    /\ call'[u].sync => call'[writers'[i]].write \in wasSynced'
    BY DEF GroupInv
  <2>1. u # t /\ pc[u] = pc'[u] /\ call'[u] = call[u]
    BY <1>5
  <2>2. PICK n \in 1..Len(writers) :
            /\ writers[n] = last
            /\ \A i \in 1..n : call[writers[i]].sync => call[u].sync
            /\ pc[u] = "insert" =>
                 \A i \in 1..n :
                    call[writers[i]].write # 0 =>
                        /\ call[writers[i]].write \in ToSet(log)
                        /\ call[u].sync => call[writers[i]].write \in wasSynced
    BY <2>1 DEF ThreadInv, GroupInv
  <2>3. \A i \in 1..n : writers'[i] = writers[i] /\ call'[writers'[i]] = call[writers[i]]
    BY <1>1, <1>3, <1>4, <1>5
  <2>4. n \in 1..Len(writers') /\ writers'[n] = last' /\ log' = log /\ wasSynced' = wasSynced
    BY <1>1, <1>2, <1>3, <2>2
  <2> QED
    BY <2>1, <2>2, <2>3, <2>4, SMTT(30)
<1>10. AnswerInv'
  <2> SUFFICES ASSUME NEW u \in Threads, call'[u].write > 0
               PROVE  answer'[u] = "ok" <=> call'[u].write \in ToSet(order)
    BY <1>2 DEF AnswerInv
  <2>1. CASE u # t
    BY <1>5, <2>1 DEF ThreadInv, AnswerInv
  <2>2. CASE u = t
    <3>1. c.write = begun + 1 /\ begun \in Nat
      BY <1>5, <2>2 DEF ThreadInv, ThreadTypes
    <3>2. c.write \notin ToSet(order)
      <4>1. \A i \in 1..Len(order) : order[i] # c.write
        BY <3>1 DEF ThreadInv, CallInv
      <4> QED
        BY <4>1, InSequence, SMTT(30) DEF MemoryTypes
    <3> QED
      BY <1>5, <2>2, <3>2
  <2> QED
    BY <2>1, <2>2
<1>11. SyncHonoured'
  BY <1>2, <1>5 DEF ThreadInv, SyncHonoured
<1> QED
  BY <1>6, <1>7, <1>8, <1>9, <1>10, <1>11 DEF ThreadInv

\* The record of the group is added to the log, and synced if the leader asks.
LEMMA LogStep ==
    ASSUME ThreadInv, MemoryTypes, NEW t \in Threads, Log(t)
    PROVE  ThreadInv' /\ log' \in Seq(Writes) /\ ToSet(log) \subseteq ToSet(log')
<1>1. /\ pc[t] = "log"
      /\ log' = log \o GroupWrites
      /\ call[t].sync => wasSynced' = wasSynced \cup ToSet(log')
      /\ ~call[t].sync => wasSynced' = wasSynced
      /\ pc' = [pc EXCEPT ![t] = "insert"]
      /\ UNCHANGED <<call, last, answer, writers, begun, order>>
  BY DEF Log, counts
<1>2. PICK n \in 1..Len(writers) :
          /\ writers[n] = last
          /\ \A i \in 1..n : call[writers[i]].sync => call[t].sync
  BY <1>1 DEF ThreadInv, GroupInv
<1>3. /\ GroupWrites \in Seq(Writes)
      /\ \A x : x \in ToSet(GroupWrites) <=> x # 0 /\ \E i \in 1..n : call[writers[i]].write = x
  BY <1>2, GroupWritesAre DEF ThreadInv
<1>4. log' \in Seq(Writes) /\ ToSet(log') = ToSet(log) \cup ToSet(GroupWrites)
  BY <1>1, <1>3, ConcatElements DEF MemoryTypes
<1>5. "insert" \in Leading /\ pc[t] \in Leading
  BY <1>1 DEF Leading
<1>6. QueueInv' /\ pc' \in [Threads -> Leading \cup Elsewhere \cup {"queued"}]
  BY <1>1, <1>5, Moves DEF ThreadInv
<1>7. pc'[t] = "insert" /\ \A u \in Threads : u # t => pc'[u] = pc[u]
  BY <1>1 DEF ThreadInv, ThreadTypes
<1>8. ThreadTypes'
  BY <1>1, <1>6 DEF ThreadInv, ThreadTypes
<1>9. CallInv'
  BY <1>1, <1>7 DEF ThreadInv, CallInv
<1>10. GroupInv'
  <2>1. \A u \in Threads : pc'[u] \in {"log", "insert"} => u = t
    BY <1>5, <1>7 DEF ThreadInv, QueueInv, Leading
  <2>2. ASSUME NEW i \in 1..n, call[writers[i]].write # 0
        PROVE  /\ call[writers[i]].write \in ToSet(log')
               /\ call[t].sync => call[writers[i]].write \in wasSynced'
    BY <1>1, <1>3, <1>4, <2>2
  <2> QED
    BY <1>1, <1>2, <2>1, <2>2 DEF GroupInv
<1>11. AnswerInv'
  BY <1>1 DEF ThreadInv, AnswerInv
<1>12. SyncHonoured'
  BY <1>1 DEF ThreadInv, SyncHonoured
<1> QED
  BY <1>4, <1>6, <1>8, <1>9, <1>10, <1>11, <1>12 DEF ThreadInv

\* The group goes into the memtable and gets its sequence numbers, and is answered.
LEMMA InsertStep ==
    ASSUME IInv, NEW t \in Threads, Insert(t)
    PROVE  IInv'
<1> USE DEF IInv, ThreadInv
<1>1. /\ pc[t] = "insert"
      /\ mem' = mem \o GroupWrites
      /\ order' = order \o GroupWrites
      /\ Finish(t, GroupSize, "ok")
      /\ UNCHANGED <<call, last, log, oldLogs, wasSynced, imm, hasImm, tables, begun>>
  BY DEF Insert, logVars
<1>2. PICK n \in 1..Len(writers) :
          /\ writers[n] = last
          /\ \A i \in 1..n : call[writers[i]].sync => call[t].sync
          /\ \A i \in 1..n :
                call[writers[i]].write # 0 =>
                    /\ call[writers[i]].write \in ToSet(log)
                    /\ call[t].sync => call[writers[i]].write \in wasSynced
  BY <1>1 DEF GroupInv
<1>3. GroupSize = n
  BY <1>2, GroupSizeIs
<1>4. /\ GroupWrites \in Seq(Writes)
      /\ \A x : x \in ToSet(GroupWrites) <=> x # 0 /\ \E i \in 1..n : call[writers[i]].write = x
      /\ IsInjective(GroupWrites)
  BY <1>2, GroupWritesAre
<1>5. /\ writers' = Rest(n)
      /\ answer' = [u \in Threads |-> IF \E i \in 1..n : writers[i] = u THEN "ok" ELSE answer[u]]
      /\ Return(t, "ok")
  BY <1>1, <1>3 DEF Finish
<1>6. /\ writers' \in Seq(Threads)
      /\ answer' \in [Threads -> {"none", "ok", "error"}]
      /\ pc' \in [Threads -> Leading \cup Elsewhere \cup {"queued"}]
      /\ QueueInv'
      /\ \A u \in Threads :
            /\ pc'[u] \notin Leading
            /\ pc'[u] \in {"memWait0", "memWait"} => pc[u] = pc'[u] \/ call[u].write = 0
  <2>1. pc[t] \in Leading
    BY <1>1 DEF Leading
  <2> QED
    BY <1>1, <1>5, <2>1, Leaves
<1>7. ThreadTypes'
  BY <1>1, <1>6 DEF ThreadTypes
<1>8. /\ \A i \in 1..Len(writers) : writers[i] \in Threads
      /\ \A i \in 1..n : i \in 1..Len(writers)
  BY LenProperties, ElementOfSeq DEF ThreadTypes
<1>9. /\ order' \in Seq(Writes) /\ ToSet(order') = ToSet(order) \cup ToSet(GroupWrites)
      /\ mem' \in Seq(Writes) /\ ToSet(mem') = ToSet(mem) \cup ToSet(GroupWrites)
  BY <1>1, <1>4, ConcatElements DEF MemoryTypes
<1>10. ASSUME NEW x \in ToSet(GroupWrites)
       PROVE  x \notin ToSet(order) /\ x <= begun /\ x \in ToSet(log)
  <2>1. PICK i \in 1..n : x # 0 /\ call[writers[i]].write = x
    BY <1>4
  <2>2. /\ writers[i] \in Threads /\ answer[writers[i]] = "none" /\ call[writers[i]].write > 0
    BY <1>8, <2>1 DEF QueueInv, ThreadTypes
  <2> QED
    BY <1>2, <2>1, <2>2 DEF CallInv, AnswerInv
<1>11. CallInv'
  <2>1. \A x \in ToSet(order') : x <= begun
    <3>1. \A x \in ToSet(order) : x <= begun
      BY InSequence DEF CallInv, MemoryTypes
    <3> QED
      BY <1>9, <1>10, <3>1
  <2>2. \A i \in 1..Len(order') : order'[i] <= begun
    BY <1>9, <2>1, InSequence
  <2> QED
    BY <1>1, <1>6, <2>2 DEF CallInv
<1>12. GroupInv'
  BY <1>6 DEF GroupInv, Leading
<1>13. AnswerInv'
  <2> SUFFICES ASSUME NEW u \in Threads, call[u].write > 0
               PROVE  answer'[u] = "ok" <=> call[u].write \in ToSet(order')
    BY <1>1 DEF AnswerInv
  <2>1. CASE \E i \in 1..n : writers[i] = u
    BY <1>4, <1>5, <1>9, <2>1, SMTT(30)
  <2>2. CASE ~\E i \in 1..n : writers[i] = u
    <3>1. answer'[u] = answer[u]
      BY <1>5, <2>2
    <3>2. call[u].write \notin ToSet(GroupWrites)
      <4> SUFFICES ASSUME NEW i \in 1..n, call[writers[i]].write = call[u].write
                   PROVE  FALSE
        BY <1>4
      <4> QED
        BY <1>8, <2>2 DEF CallInv
    <3> QED
      BY <1>9, <3>1, <3>2 DEF AnswerInv
  <2> QED
    BY <2>1, <2>2
<1>14. SyncHonoured'
  <2> SUFFICES ASSUME NEW u \in Threads, call[u].sync, answer'[u] = "ok"
               PROVE  call[u].write \in wasSynced
    BY <1>1 DEF SyncHonoured
  <2>1. CASE \E i \in 1..n : writers[i] = u
    <3>1. PICK i \in 1..n : writers[i] = u
      BY <2>1
    <3>2. call[u].write # 0
      BY DEF CallInv
    <3> QED
      BY <1>2, <3>1, <3>2
  <2>2. CASE ~\E i \in 1..n : writers[i] = u
    BY <1>5, <2>2 DEF SyncHonoured
  <2> QED
    BY <2>1, <2>2
<1>15. MemoryTypes'
  BY <1>1, <1>9 DEF MemoryTypes
<1>16. MemoryInv'
  <2>1. order' = tables \o imm \o mem'
    <3> DEFINE older == tables \o imm
    <3>1. older \in Seq(Writes)
      BY ConcatProperties DEF MemoryTypes
    <3>2. order = older \o mem
      BY DEF MemoryInv
    <3> HIDE DEF older
    <3>3. (older \o mem) \o GroupWrites = older \o (mem \o GroupWrites)
      <4>1. mem \in Seq(Writes) /\ GroupWrites \in Seq(Writes)
        BY <1>4 DEF MemoryTypes
      <4> HIDE DEF IInv, ThreadInv
      <4> QED
        BY <3>1, <4>1, ConcatAssociative
    <3>4. order' = older \o mem'
      BY <1>1, <3>2, <3>3
    <3> QED
      BY <3>4 DEF older
  <2>2. IsInjective(order')
    <3>1. ToSet(order) \cap ToSet(GroupWrites) = {}
      BY <1>10
    <3>2. IsInjective(order \o GroupWrites)
      BY <1>4, <3>1, ConcatInjective DEF MemoryTypes, MemoryInv
    <3> QED
      BY <1>1, <3>2
  <2>3. ToSet(mem') \subseteq ToSet(log)
    BY <1>9, <1>10 DEF MemoryInv
  <2> QED
    BY <1>1, <2>1, <2>2, <2>3 DEF MemoryInv
<1> QED
  BY <1>6, <1>7, <1>11, <1>12, <1>13, <1>14, <1>15, <1>16

\* MakeRoomForWrite succeeded: the group is chosen, or the call of a NULL batch ends.
LEMMA ProceedStep ==
    ASSUME ThreadInv, NEW t \in Threads, pc[t] = "room", Proceed(t),
           UNCHANGED <<call, begun, order, wasSynced>>
    PROVE  ThreadInv'
<1>1. pc[t] \in Leading
  BY DEF Leading
<1>2. CASE call[t].write = 0
  <2>1. /\ writers' = Rest(1)
        /\ answer' = [u \in Threads |-> IF \E i \in 1..1 : writers[i] = u THEN "ok" ELSE answer[u]]
        /\ Return(t, "ok")
        /\ UNCHANGED last
    BY <1>2 DEF Proceed, Finish
  <2>2. 1 \in 1..Len(writers)
    BY <1>1, EmptySeq, LenProperties DEF ThreadInv, ThreadTypes, QueueInv
  <2> QED
    BY <1>1, <1>2, <2>1, <2>2, LeaveStep
<1>3. CASE call[t].write # 0
  BY <1>1, <1>3, LeadStep DEF Proceed
<1> QED
  BY <1>2, <1>3

\* A full memtable becomes the one to be written out, with the logs it needs.
LEMMA SwitchMemory ==
    ASSUME MemoryTypes, MemoryInv, ~hasImm,
           oldLogs' = oldLogs \o log, log' = <<>>, imm' = mem, hasImm' = TRUE, mem' = <<>>,
           UNCHANGED <<tables, order>>
    PROVE  MemoryTypes' /\ MemoryInv'
<1>1. /\ oldLogs \o log \in Seq(Writes)
      /\ ToSet(oldLogs \o log) = ToSet(oldLogs) \cup ToSet(log)
  BY ConcatElements DEF MemoryTypes
<1>2. <<>> \in Seq(Writes) /\ ToSet(<<>>) = {}
  BY DEF ToSet
<1>3. MemoryTypes'
  BY <1>1, <1>2 DEF MemoryTypes
<1>4. tables \o mem \o <<>> = order
  <2>1. imm = <<>>
    BY DEF MemoryInv
  <2>2. tables \o imm = tables
    BY <2>1, ConcatEmptySeq DEF MemoryTypes
  <2>3. tables \o mem \in Seq(Writes) /\ order = tables \o mem
    BY <2>2, ConcatProperties DEF MemoryTypes, MemoryInv
  <2> QED
    BY <2>3, ConcatEmptySeq
<1>5. MemoryInv'
  BY <1>1, <1>2, <1>4 DEF MemoryInv
<1> QED
  BY <1>3, <1>5

\* A memtable becomes a table, and the logs before the current one are no longer needed.
LEMMA FlushMemory ==
    ASSUME MemoryTypes, MemoryInv,
           tables' = tables \o imm, imm' = <<>>, hasImm' = FALSE, oldLogs' = <<>>,
           UNCHANGED <<log, mem, order>>
    PROVE  MemoryTypes' /\ MemoryInv'
<1>1. <<>> \in Seq(Writes) /\ ToSet(<<>>) = {}
  BY DEF ToSet
<1>2. tables \o imm \in Seq(Writes)
  BY ConcatProperties DEF MemoryTypes
<1>3. MemoryTypes'
  BY <1>1, <1>2 DEF MemoryTypes
<1>4. tables' \o imm' = tables \o imm
  BY <1>2, ConcatEmptySeq
<1>5. MemoryInv'
  BY <1>1, <1>4 DEF MemoryInv
<1> QED
  BY <1>3, <1>5

\* A step of the background thread, or the destructor.
LEMMA BackgroundStep ==
    ASSUME IInv, Background \/ Close
    PROVE  IInv'
<1> USE DEF IInv
<1>1. ASSUME NEW toLevel0 \in BOOLEAN, FlushDone(toLevel0)
      PROVE  IInv'
  <2>1. UNCHANGED threadInvVars
    BY <1>1 DEF FlushDone, threadVars, counts, threadInvVars
  <2>2. /\ tables' = tables \o imm /\ imm' = <<>> /\ hasImm' = FALSE /\ oldLogs' = <<>>
        /\ UNCHANGED <<log, mem, order>>
    BY <1>1 DEF FlushDone, counts
  <2> QED
    BY <2>1, <2>2, ThreadsUnchanged, FlushMemory
<1>2. ASSUME UNCHANGED <<pc, call, last, answer, writers, logVars, mem, imm, hasImm, tables, order, begun>>
      PROVE  IInv'
  BY <1>2, ThreadsUnchanged, MemoryUnchanged DEF threadInvVars, memoryInvVars, logVars
<1>3. CASE BackgroundCall
  BY <1>2, <1>3 DEF BackgroundCall, threadVars, memVars, counts
<1>4. CASE FlushFails
  BY <1>2, <1>4 DEF FlushFails, threadVars, memVars
<1>5. CASE FlushWithin
  BY <1>2, <1>5 DEF FlushWithin, threadVars, memVars, counts
<1>6. CASE CompactNothing
  BY <1>2, <1>6 DEF CompactNothing, memVars, counts
<1>7. ASSUME NEW n \in 1..files, CompactDone(n)
      PROVE  IInv'
  BY <1>2, <1>7 DEF CompactDone, threadVars, counts
<1>8. CASE CompactFails
  BY <1>2, <1>8 DEF CompactFails, memVars
<1>9. CASE Close
  BY <1>2, <1>9 DEF Close, threadVars, memVars, counts
<1> QED
  BY <1>1, <1>3, <1>4, <1>5, <1>6, <1>7, <1>8, <1>9 DEF Background

\* A call begins, or a thread goes on.
LEMMA ThreadStepKeeps ==
    ASSUME IInv, NEW t \in Threads,
           (\E sync \in BOOLEAN : Write(t, sync)) \/ CompactMem(t) \/ CompactRange(t) \/ ThreadStep(t)
    PROVE  IInv'
<1> USE DEF IInv
<1>1. ASSUME UNCHANGED <<logVars, mem, imm, hasImm, tables, order>>
      PROVE  MemoryTypes' /\ MemoryInv'
  BY <1>1, MemoryUnchanged DEF memoryInvVars, logVars
<1>2. pc[t] \in Leading => 1 \in 1..Len(writers)
  BY EmptySeq, LenProperties DEF ThreadInv, ThreadTypes, QueueInv
<1>3. ASSUME NEW sync \in BOOLEAN, Write(t, sync)
      PROVE  IInv'
  <2> DEFINE c == [write |-> begun + 1, sync |-> sync]
  <2>1. c \in [write : Nat, sync : BOOLEAN] /\ c.write = begun + 1
    BY DEF ThreadInv, ThreadTypes
  <2>2. Enter(t, c) /\ begun' = begun + 1
    BY <1>3 DEF Write
  <2> HIDE DEF c
  <2>3. ThreadInv'
    BY <2>1, <2>2, EnterStep
  <2> QED
    BY <1>1, <2>2, <2>3 DEF Enter, memVars
<1>4. CASE CompactMem(t)
  <2> DEFINE c == [write |-> 0, sync |-> FALSE]
  <2>1. c \in [write : Nat, sync : BOOLEAN] /\ c.write = 0 /\ ~c.sync
    OBVIOUS
  <2>2. Enter(t, c) /\ begun' = begun
    BY <1>4 DEF CompactMem
  <2> HIDE DEF c
  <2>3. ThreadInv'
    BY <2>1, <2>2, EnterStep
  <2> QED
    BY <1>1, <2>2, <2>3 DEF Enter, memVars
<1>5. CASE CompactRange(t)
  <2>1. /\ pc[t] = "idle"
        /\ pc' = [pc EXCEPT ![t] = "manual"]
        /\ UNCHANGED <<writers, answer, call, last, begun, logVars, mem, imm, hasImm, tables, order>>
    BY <1>5 DEF CompactRange, memVars
  <2>2. ThreadInv'
    BY <2>1, MoveStep DEF logVars, Elsewhere
  <2> QED
    BY <1>1, <2>1, <2>2
<1>6. CASE WakeQueued(t)
  <2>1. /\ pc[t] = "queued"
        /\ UNCHANGED <<writers, answer, call, last, begun, logVars, mem, imm, hasImm, tables, order>>
    BY <1>6 DEF WakeQueued, memVars, counts
  <2>2. CASE answer[t] # "none"
    <3>1. Return(t, answer[t])
      BY <1>6, <2>2 DEF WakeQueued
    <3>2. ThreadInv'
      BY <2>1, <2>2, <3>1, ReturnStep DEF logVars
    <3> QED
      BY <1>1, <2>1, <3>2
  <2>3. CASE answer[t] = "none"
    <3>1. pc' = [pc EXCEPT ![t] = IF t = Head(writers) THEN "room" ELSE "queued"]
      BY <1>6, <2>3 DEF WakeQueued
    <3>2. writers # <<>> /\ Head(writers) = writers[1]
      BY <2>1, <2>3, LenProperties, EmptySeq DEF ThreadInv, ThreadTypes, QueueInv, Queued
    <3>3. CASE t = Head(writers)
      <4>1. ThreadInv'
        BY <2>1, <3>1, <3>2, <3>3, MoveStep DEF logVars, Leading
      <4> QED
        BY <1>1, <2>1, <4>1
    <3>4. CASE t # Head(writers)
      <4>1. ThreadInv'
        BY <2>1, <3>1, <3>4, MoveStep DEF logVars
      <4> QED
        BY <1>1, <2>1, <4>1
    <3> QED
      BY <3>3, <3>4
  <2> QED
    BY <2>2, <2>3
<1>7. ASSUME pc[t] = "room", Finish(t, 1, "error"), UNCHANGED <<call, last, begun, logVars, memVars, order>>
      PROVE  IInv'
  <2>1. /\ writers' = Rest(1)
        /\ answer' = [u \in Threads |-> IF \E i \in 1..1 : writers[i] = u THEN "error" ELSE answer[u]]
        /\ Return(t, "error")
    BY <1>7 DEF Finish
  <2>2. pc[t] \in Leading
    BY <1>7 DEF Leading
  <2>3. ThreadInv'
    BY <1>2, <1>7, <2>1, <2>2, LeaveStep DEF logVars
  <2> QED
    BY <1>1, <1>7, <2>3 DEF memVars
<1>8. CASE RoomError(t)
  BY <1>7, <1>8 DEF RoomError, counts
<1>9. CASE RoomSwitchFails(t)
  BY <1>7, <1>9 DEF RoomSwitchFails, NotDelayed
<1>10. ASSUME NEW p \in {"room", "sleep", "roomWait"}, pc[t] \in Leading, pc' = [pc EXCEPT ![t] = p],
              UNCHANGED <<writers, answer, call, last, begun, logVars, memVars, order>>
       PROVE  IInv'
  <2>1. ThreadInv'
    BY <1>10, MoveStep DEF logVars, Leading
  <2> QED
    BY <1>1, <1>10, <2>1 DEF memVars
<1>11. CASE RoomDelay(t) \/ WakeFromSleep(t) \/ RoomWait(t) \/ WakeInRoom(t)
  BY <1>10, <1>11 DEF RoomDelay, WakeFromSleep, RoomWait, WakeInRoom, NotDelayed, counts, Leading
<1>12. CASE RoomThere(t)
  <2>1. pc[t] = "room" /\ Proceed(t) /\ UNCHANGED <<call, begun, logVars, memVars, order>>
    BY <1>12 DEF RoomThere, NotDelayed, counts
  <2>2. ThreadInv'
    BY <2>1, ProceedStep DEF logVars
  <2> QED
    BY <1>1, <2>1, <2>2 DEF memVars
<1>13. CASE RoomSwitch(t)
  <2>1. pc[t] = "room" /\ Proceed(t) /\ UNCHANGED <<call, begun, order, wasSynced>>
    BY <1>13 DEF RoomSwitch, NotDelayed, counts
  <2>2. ThreadInv'
    BY <2>1, ProceedStep
  <2>3. MemoryTypes' /\ MemoryInv'
    BY <1>13, SwitchMemory DEF RoomSwitch, counts
  <2> QED
    BY <2>2, <2>3
<1>14. CASE Log(t)
  <2>1. ThreadInv' /\ log' \in Seq(Writes) /\ ToSet(log) \subseteq ToSet(log')
    BY <1>14, LogStep
  <2>2. UNCHANGED <<oldLogs, mem, imm, tables, order, hasImm>>
    BY <1>14 DEF Log, memVars, counts
  <2>3. MemoryTypes' /\ MemoryInv'
    BY <2>1, <2>2 DEF MemoryTypes, MemoryInv
  <2> QED
    BY <2>1, <2>3
<1>15. ASSUME NEW isSync \in BOOLEAN, LogFails(t, isSync)
       PROVE  IInv'
  <2>1. PICK n \in 1..Len(writers) : writers[n] = last
    BY <1>15 DEF LogFails, ThreadInv, GroupInv
  <2>2. GroupSize = n
    BY <2>1, GroupSizeIs DEF ThreadInv
  <2>3. GroupWrites \in Seq(Writes)
    BY <2>1, GroupWritesAre DEF ThreadInv
  <2>4. /\ pc[t] \in Leading
        /\ writers' = Rest(n)
        /\ answer' = [u \in Threads |-> IF \E i \in 1..n : writers[i] = u THEN "error" ELSE answer[u]]
        /\ Return(t, "error")
        /\ UNCHANGED <<call, last, begun, order, wasSynced, oldLogs, mem, imm, tables, hasImm>>
    BY <1>15, <2>2 DEF LogFails, memVars, Leading
  <2>5. ThreadInv'
    BY <2>4, LeaveStep
  <2>6. log' = log \/ log' = log \o GroupWrites
    BY <1>15 DEF LogFails
  <2>7. log' \in Seq(Writes) /\ ToSet(log) \subseteq ToSet(log')
    <3>1. /\ log \o GroupWrites \in Seq(Writes)
          /\ ToSet(log \o GroupWrites) = ToSet(log) \cup ToSet(GroupWrites)
      BY <2>3, ConcatElements DEF MemoryTypes
    <3> QED
      BY <2>6, <3>1 DEF MemoryTypes
  <2>8. MemoryTypes' /\ MemoryInv'
    BY <2>4, <2>7 DEF MemoryTypes, MemoryInv
  <2> QED
    BY <2>5, <2>8
<1>16. CASE Insert(t)
  BY <1>16, InsertStep
<1>17. CASE MemWait(t)
  <2>1. /\ pc[t] \in {"memWait0", "memWait"}
        /\ UNCHANGED <<writers, call, last, begun, logVars, mem, imm, hasImm, tables, order>>
    BY <1>17 DEF MemWait, memVars, counts
  <2>2. CASE hasImm /\ ~bgError
    <3>1. pc' = [pc EXCEPT ![t] = "memWait"] /\ answer' = answer
      BY <1>17, <2>2 DEF MemWait
    <3>2. call[t].write = 0
      BY <2>1 DEF ThreadInv, CallInv
    <3>3. ThreadInv'
      BY <2>1, <3>1, <3>2, MoveStep DEF logVars, Elsewhere
    <3> QED
      BY <1>1, <2>1, <3>3
  <2>3. CASE ~(hasImm /\ ~bgError)
    <3>1. PICK status \in {"ok", "error"} :
              pc' = [pc EXCEPT ![t] = "idle"] /\ answer' = [answer EXCEPT ![t] = status]
      BY <1>17, <2>3 DEF MemWait
    <3>2. ThreadInv'
      BY <2>1, <3>1, WaitedStep DEF logVars
    <3> QED
      BY <1>1, <2>1, <3>2
  <2> QED
    BY <2>2, <2>3
<1>18. CASE ManualLoop(t)
  <2>1. PICK p \in {"idle", "manualWait"} :
            /\ pc[t] \in {"manual", "manualWait"}
            /\ pc' = [pc EXCEPT ![t] = p]
            /\ UNCHANGED <<writers, answer, call, last, begun, logVars, mem, imm, hasImm, tables, order>>
    BY <1>18 DEF ManualLoop, memVars, counts
  <2>2. ThreadInv'
    BY <2>1, MoveStep DEF logVars, Elsewhere
  <2> QED
    BY <1>1, <2>1, <2>2
<1> QED
  BY <1>3, <1>4, <1>5, <1>6, <1>8, <1>9, <1>11, <1>12, <1>13, <1>14, <1>15, <1>16, <1>17, <1>18
     DEF ThreadStep

-----------------------------------------------------------------------------
\* A database that was just opened: no call, nothing in memory.
LEMMA InitIInv == Init => IInv
<1> SUFFICES ASSUME Init PROVE IInv
  OBVIOUS
<1> USE DEF Init
<1>1. /\ <<>> \in Seq(Threads) /\ <<>> \in Seq(Writes) /\ Len(<<>>) = 0
      /\ ToSet(<<>>) = {} /\ IsInjective(<<>>)
  BY DEF ToSet, IsInjective
<1>2. ThreadTypes
  BY <1>1 DEF ThreadTypes, Elsewhere, NoCall
<1>3. QueueInv /\ CallInv /\ GroupInv
  BY <1>1 DEF QueueInv, Queued, CallInv, GroupInv, NoCall, Leading
<1>4. AnswerInv /\ SyncHonoured
  BY <1>1 DEF AnswerInv, SyncHonoured, NoCall
<1>5. MemoryTypes
  BY <1>1 DEF MemoryTypes
<1>6. <<>> \o <<>> \o <<>> = <<>>
  <2>1. <<>> \o <<>> = <<>>
    BY <1>1, ConcatEmptySeq
  <2> QED
    BY <2>1
<1>7. MemoryInv
  BY <1>1, <1>6 DEF MemoryInv
<1> QED
  BY <1>2, <1>3, <1>4, <1>5, <1>7 DEF IInv, ThreadInv

\* Every step of every thread keeps the invariant.
LEMMA NextIInv == IInv /\ [Next]_vars => IInv'
<1> SUFFICES ASSUME IInv, [Next]_vars PROVE IInv'
  OBVIOUS
<1>1. CASE UNCHANGED vars
  BY <1>1, ThreadsUnchanged, MemoryUnchanged
     DEF vars, threadVars, logVars, memVars, counts, IInv, threadInvVars, memoryInvVars
<1>2. ASSUME NEW t \in Threads,
             \/ MutexFree(t) /\ ((\E sync \in BOOLEAN : Write(t, sync)) \/ CompactMem(t) \/ CompactRange(t))
             \/ ThreadStep(t)
      PROVE  IInv'
  BY <1>2, ThreadStepKeeps
<1>3. CASE Background \/ Close
  BY <1>3, BackgroundStep
<1> QED
  BY <1>1, <1>2, <1>3 DEF Next

\* The inductive invariant: the queue of Write, the group of its head, the memtables and
\* the logs agree with the answers given so far.
THEOREM InvariantHolds == Spec => []IInv
<1>1. Init => IInv
  BY InitIInv
<1>2. IInv /\ [Next]_vars => IInv'
  BY NextIInv
<1> QED
  BY <1>1, <1>2, PTL DEF Spec

\* Whatever the threads and the background thread do in between: each write that got a
\* sequence number is in exactly one of tables, imm_ and mem_, those not in a table are
\* in a log that is kept, and exactly the writes answered with success are there.
THEOREM NothingIsDropped == Spec => []NothingDropped
<1>1. IInv => NothingDropped
  BY DEF IInv, ThreadInv, MemoryInv, AnswerInv, NothingDropped
<1> QED
  BY <1>1, InvariantHolds, PTL

\* A write with WriteOptions::sync that succeeded was synced, even if another thread
\* wrote it as part of its group.
THEOREM SyncIsHonoured == Spec => []SyncHonoured
<1>1. IInv => SyncHonoured
  BY DEF IInv, ThreadInv
<1> QED
  BY <1>1, InvariantHolds, PTL

=============================================================================
