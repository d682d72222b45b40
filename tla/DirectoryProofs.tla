-------------------------- MODULE DirectoryProofs --------------------------
(***************************************************************************)
(* The records of the members, for any number of devices, members, writes  *)
(* and lost connections: what takes a record away, and what a queue that   *)
(* has drained means.                                                      *)
(*                                                                         *)
(* The queue is described by sets: which writes are on disk, outstanding,  *)
(* held back, on their way up and on their way down.  The numbers of the   *)
(* writes say the rest, for every sequence of them is in their order.      *)
(***************************************************************************)
EXTENDS Directory, SequenceLemmas

-----------------------------------------------------------------------------
\* The state of the queues.

\* The writes among the messages of q.
PutsOf(q) == {q[i].write : i \in {j \in 1..Len(q) : ~IsListen(q[j])}}

HasListen(q) == \E i \in 1..Len(q) : IsListen(q[i])

\* The writes of set A are older than those of set B.
Before(A, B) == \A v \in A, w \in B : v.id < w.id

\* The writes of a queue, and those of a channel, are in the order of their numbers.
Ordered(q) == \A i, j \in 1..Len(q) : i < j => q[i].id < q[j].id
PutsOrdered(q) ==
    \A i, j \in 1..Len(q) : i < j /\ ~IsListen(q[i]) /\ ~IsListen(q[j]) => q[i].write.id < q[j].write.id

\* A write of all of /users was made by a member who joined, any other one stores a pair.
Made(w, j) == IF w.all THEN w.member \in j ELSE w.pair \in Pairs

\* Every write that the server may yet execute.
Pending(d) == ToSet(disk[d]) \cup ToSet(puts[d]) \cup PutsOf(up[d])

MadeInv == \A d \in Devices : \A w \in Pending(d) : Made(w, joined)

\* A write on disk is held back or outstanding; what is outstanding is on one of the two
\* channels, or is sent by the next Connect; whatever was executed is older than what
\* was not.  An acknowledgement is held back only if a listen is unanswered.
QueueOK(dk, pt, hd, c, u, dn) ==
    /\ Ordered(dk) /\ Ordered(pt) /\ PutsOrdered(u) /\ PutsOrdered(dn)
    /\ ToSet(dk) = PutsOf(hd) \cup ToSet(pt)
    /\ Before(PutsOf(hd), ToSet(pt))
    /\ c => ToSet(pt) = PutsOf(dn) \cup PutsOf(u) /\ Before(PutsOf(dn), PutsOf(u))
    /\ ~c => u = <<>> /\ dn = <<>> /\ hd = <<>>
    /\ hd # <<>> => HasListen(u) \/ HasListen(dn)

QueueInv ==
    ~stranded => \A d \in Devices : QueueOK(disk[d], puts[d], held[d], conn[d], up[d], down[d])

\* The writes of S that the server takes.
Taken(S) == {w \in S : w.member \notin Denied}

\* What a write makes of the record of a member it covers.
Effect(w, m) == IF w.all THEN IF m = w.member THEN 0 ELSE Nothing ELSE w.pair

\* Of the writes of S that cover m the last one is w.
LastFor(S, w, m) == w \in S /\ Covers(w, m) /\ \A v \in S : Covers(v, m) => v.id <= w.id

\* Which records D, the writes on disk, and E, those of them that were executed over
\* this connection, leave: t is what the app intends, s what the server has.  This
\* survives any repetition, for it only looks at the last write of a record.
Consistent(D, E, s, t) ==
    \A m \in Members :
        /\ \A w \in D : LastFor(D, w, m) => t[m] = Effect(w, m)
        /\ (\A w \in D : ~Covers(w, m)) => t[m] = s[m]
        /\ \A w \in E : LastFor(E, w, m) => s[m] = Effect(w, m)

ValuesInv ==
    \A d \in Devices : Devices = {d} /\ ~stranded =>
        Consistent(Taken(ToSet(disk[d])), Taken(PutsOf(held[d]) \cup PutsOf(down[d])), server, intended)

IInv == TypeOK /\ MadeInv /\ QueueInv /\ ValuesInv
-----------------------------------------------------------------------------
\* Without keeps the other writes, in their order.

KeptUpTo(q, ids, n, f) ==
    f = [i \in 0..n |-> IF i = 0 THEN <<>>
                        ELSE IF q[i].id \in ids THEN f[i - 1] ELSE Append(f[i - 1], q[i])]

\* The recursive function of Without exists.
LEMMA WithoutDefined ==
    ASSUME NEW q, NEW ids, NEW n \in Nat
    PROVE  \E f : KeptUpTo(q, ids, n, f)
<1> DEFINE S == {m \in Nat : \E f : KeptUpTo(q, ids, m, f)}
<1>1. 0 \in S
  <2> DEFINE f == [i \in 0..0 |-> <<>>]
  <2>1. KeptUpTo(q, ids, 0, f)
    BY DEF KeptUpTo
  <2> QED
    BY <2>1
<1>2. ASSUME NEW m \in S
      PROVE  m + 1 \in S
  <2>1. PICK f : KeptUpTo(q, ids, m, f)
    OBVIOUS
  <2> DEFINE g == [i \in 0..(m + 1) |->
                     IF i # m + 1 THEN f[i]
                     ELSE IF q[i].id \in ids THEN f[m] ELSE Append(f[m], q[i])]
  <2>2. \A i \in 0..m : f[i] = IF i = 0 THEN <<>>
                                ELSE IF q[i].id \in ids THEN f[i - 1] ELSE Append(f[i - 1], q[i])
    BY <2>1 DEF KeptUpTo
  <2>3. \A i \in 0..m : g[i] = f[i]
    OBVIOUS
  <2>4. g[m + 1] = IF q[m + 1].id \in ids THEN g[m] ELSE Append(g[m], q[m + 1])
    BY <2>3
  <2>5. ASSUME NEW i \in 0..(m + 1)
        PROVE  g[i] = IF i = 0 THEN <<>>
                      ELSE IF q[i].id \in ids THEN g[i - 1] ELSE Append(g[i - 1], q[i])
    <3> HIDE DEF g
    <3>1. CASE i = m + 1
      BY <2>4, <3>1
    <3>2. CASE i \in 0..m
      <4>1. i # 0 => i - 1 \in 0..m
        BY <3>2
      <4> QED
        BY <2>2, <2>3, <3>2, <4>1
    <3> QED
      BY <3>1, <3>2
  <2>6. KeptUpTo(q, ids, m + 1, g)
    BY <2>5 DEF KeptUpTo
  <2> QED
    BY <2>6
<1>3. S \in SUBSET Nat
  OBVIOUS
<1>4. S = Nat
  <2> HIDE DEF S
  <2> QED
    BY <1>1, <1>2, <1>3, SetInduction
<1> QED
  BY <1>4

\* A longer queue is in order if the new write is the newest.
LEMMA OrderedAppend ==
    ASSUME NEW q \in Seq(Writes), NEW w \in Writes, Ordered(q), Before(ToSet(q), {w})
    PROVE  Ordered(Append(q, w))
<1>1. /\ Len(Append(q, w)) = Len(q) + 1 /\ Len(q) \in Nat
      /\ \A i \in 1..Len(q) : Append(q, w)[i] = q[i]
      /\ Append(q, w)[Len(q) + 1] = w
  BY AppendProperties, LenProperties
<1>2. \A i \in 1..Len(q) : q[i].id < w.id
  BY InSequence DEF Before
<1> SUFFICES ASSUME NEW i \in 1..(Len(q) + 1), NEW j \in 1..(Len(q) + 1), i < j
             PROVE  Append(q, w)[i].id < Append(q, w)[j].id
  BY <1>1 DEF Ordered
<1>3. i \in 1..Len(q)
  BY <1>1
<1>4. CASE j = Len(q) + 1
  BY <1>1, <1>2, <1>3, <1>4
<1>5. CASE j # Len(q) + 1
  <2>1. j \in 1..Len(q)
    BY <1>1, <1>5
  <2> QED
    BY <1>1, <1>3, <2>1 DEF Ordered
<1> QED
  BY <1>4, <1>5

\* What settling or acknowledging writes leaves of a queue: the other writes.
LEMMA WithoutKeeps ==
    ASSUME NEW q \in Seq(Writes), NEW ids
    PROVE  /\ Without(q, ids) \in Seq(Writes)
           /\ ToSet(Without(q, ids)) = {w \in ToSet(q) : w.id \notin ids}
           /\ Ordered(q) => Ordered(Without(q, ids))
<1>1. Len(q) \in Nat /\ \A i \in 1..Len(q) : q[i] \in Writes
  BY LenProperties, ElementOfSeq
<1>2. PICK f : KeptUpTo(q, ids, Len(q), f) /\ Without(q, ids) = f[Len(q)]
  <2> DEFINE f == CHOOSE f : KeptUpTo(q, ids, Len(q), f)
  <2>1. \E g : KeptUpTo(q, ids, Len(q), g)
    BY <1>1, WithoutDefined
  <2>2. KeptUpTo(q, ids, Len(q), f)
    BY <2>1, Zenon
  <2>3. Without(q, ids) = f[Len(q)]
    BY Zenon DEF Without, KeptUpTo
  <2> QED
    BY <2>2, <2>3
<1>3. /\ f[0] = <<>>
      /\ \A i \in 1..Len(q) : f[i] = IF q[i].id \in ids THEN f[i - 1] ELSE Append(f[i - 1], q[i])
  <2>1. \A i \in 0..Len(q) : f[i] = IF i = 0 THEN <<>>
                                    ELSE IF q[i].id \in ids THEN f[i - 1] ELSE Append(f[i - 1], q[i])
    BY <1>2, Zenon DEF KeptUpTo
  <2> QED
    BY <1>1, <2>1
<1> DEFINE Good(n) == /\ f[n] \in Seq(Writes)
                      /\ \A x : x \in ToSet(f[n]) <=> \E i \in 1..n : q[i] = x /\ x.id \notin ids
                      /\ Ordered(q) => Ordered(f[n])
           S == {n \in Nat : n <= Len(q) => Good(n)}
<1>4. 0 \in S
  <2>1. <<>> \in Seq(Writes) /\ ToSet(<<>>) = {} /\ Ordered(<<>>)
    BY DEF ToSet, Ordered
  <2>2. Good(0)
    BY <1>3, <2>1
  <2> QED
    BY <2>2
<1>5. ASSUME NEW n \in S
      PROVE  n + 1 \in S
  <2> SUFFICES ASSUME n + 1 <= Len(q)
               PROVE  Good(n + 1)
    OBVIOUS
  <2>1. n \in Nat /\ Good(n) /\ n + 1 \in 1..Len(q)
    BY <1>1
  <2>2. f[n + 1] = IF q[n + 1].id \in ids THEN f[n] ELSE Append(f[n], q[n + 1])
    BY <1>3, <2>1
  <2>3. \A x : (\E i \in 1..(n + 1) : q[i] = x /\ x.id \notin ids)
               <=> ((q[n + 1] = x /\ x.id \notin ids) \/ \E i \in 1..n : q[i] = x /\ x.id \notin ids)
    BY <2>1
  <2>4. CASE q[n + 1].id \in ids
    BY <2>1, <2>2, <2>3, <2>4
  <2>5. CASE q[n + 1].id \notin ids
    <3>1. PICK t : t = f[n]
      OBVIOUS
    <3>2. PICK w : w = q[n + 1]
      OBVIOUS
    <3>3. t \in Seq(Writes) /\ w \in Writes /\ f[n + 1] = Append(t, w)
      BY <1>1, <2>1, <2>2, <2>5, <3>1, <3>2
    <3>4. f[n + 1] \in Seq(Writes) /\ ToSet(f[n + 1]) = ToSet(t) \cup {w}
      BY <3>3, OneMore
    <3>5. \A x : x \in ToSet(f[n + 1]) <=> \E i \in 1..(n + 1) : q[i] = x /\ x.id \notin ids
      BY <2>1, <2>3, <2>5, <3>1, <3>2, <3>4
    <3>6. ASSUME Ordered(q)
          PROVE  Ordered(f[n + 1])
      <4>1. ASSUME NEW v \in ToSet(t)
            PROVE  v.id < w.id
        <5>1. PICK i \in 1..n : q[i] = v
          BY <2>1, <3>1
        <5> QED
          BY <1>1, <2>1, <3>2, <3>6, <5>1 DEF Ordered
      <4>2. Before(ToSet(t), {w})
        BY <4>1 DEF Before
      <4>3. Ordered(t)
        BY <2>1, <3>1, <3>6
      <4>4. Ordered(Append(t, w))
        BY <3>3, <4>2, <4>3, OrderedAppend
      <4> QED
        BY <3>3, <4>4
    <3> QED
      BY <3>4, <3>5, <3>6
  <2> QED
    BY <2>4, <2>5
<1>6. S \in SUBSET Nat
  OBVIOUS
<1>7. S = Nat
  <2> HIDE DEF S
  <2> QED
    BY <1>4, <1>5, <1>6, SetInduction
<1>8. Good(Len(q))
  <2>1. Len(q) \in S
    <3> HIDE DEF S
    <3> QED
      BY <1>1, <1>7
  <2> QED
    BY <1>1, <2>1
<1>9. \A x : x \in ToSet(q) <=> \E i \in 1..Len(q) : q[i] = x
  BY InSequence
<1>10. ToSet(Without(q, ids)) = {w \in ToSet(q) : w.id \notin ids}
  BY <1>2, <1>8, <1>9
<1> QED
  BY <1>2, <1>8, <1>10

-----------------------------------------------------------------------------
\* The writes on a channel.

\* The writes of a channel are those of its messages.
LEMMA OnChannel ==
    ASSUME NEW q
    PROVE  \A w : w \in PutsOf(q) <=> \E i \in 1..Len(q) : ~IsListen(q[i]) /\ q[i].write = w
BY DEF PutsOf

\* A message more.
LEMMA PutsAppend ==
    ASSUME NEW M, NEW q \in Seq(M), NEW x \in M
    PROVE  /\ PutsOf(Append(q, x)) = PutsOf(q) \cup (IF IsListen(x) THEN {} ELSE {x.write})
           /\ HasListen(Append(q, x)) <=> HasListen(q) \/ IsListen(x)
           /\ PutsOrdered(q) /\ (~IsListen(x) => Before(PutsOf(q), {x.write}))
                => PutsOrdered(Append(q, x))
<1>1. PICK r : r = Append(q, x)
  OBVIOUS
<1>2. /\ Len(r) = Len(q) + 1 /\ Len(q) \in Nat
      /\ \A i \in 1..Len(q) : r[i] = q[i]
      /\ r[Len(q) + 1] = x
  BY <1>1, AppendProperties, LenProperties
<1>3. PutsOf(r) = PutsOf(q) \cup (IF IsListen(x) THEN {} ELSE {x.write})
  <2>1. ASSUME NEW w
        PROVE  (\E i \in 1..Len(r) : ~IsListen(r[i]) /\ r[i].write = w)
               <=> ((~IsListen(x) /\ x.write = w) \/ \E i \in 1..Len(q) : ~IsListen(q[i]) /\ q[i].write = w)
    BY <1>2
  <2> QED
    BY <2>1, OnChannel, ZenonT(60)
<1>4. HasListen(r) <=> HasListen(q) \/ IsListen(x)
  BY <1>2 DEF HasListen
<1>5. ASSUME PutsOrdered(q), ~IsListen(x) => Before(PutsOf(q), {x.write})
      PROVE  PutsOrdered(r)
  <2> SUFFICES ASSUME NEW i \in 1..Len(r), NEW j \in 1..Len(r), i < j, ~IsListen(r[i]), ~IsListen(r[j])
               PROVE  r[i].write.id < r[j].write.id
    BY DEF PutsOrdered
  <2>1. i \in 1..Len(q)
    BY <1>2
  <2>2. CASE j = Len(q) + 1
    <3>1. ~IsListen(x) /\ q[i].write \in PutsOf(q)
      BY <1>2, <2>1, <2>2, OnChannel
    <3> QED
      BY <1>2, <1>5, <2>1, <2>2, <3>1 DEF Before
  <2>3. CASE j # Len(q) + 1
    <3>1. j \in 1..Len(q)
      BY <1>2, <2>3
    <3> QED
      BY <1>2, <1>5, <2>1, <3>1 DEF PutsOrdered
  <2> QED
    BY <2>2, <2>3
<1> QED
  BY <1>1, <1>3, <1>4, <1>5

\* The first message leaves.
LEMMA PutsTail ==
    ASSUME NEW M, NEW q \in Seq(M), q # <<>>
    PROVE  /\ PutsOf(q) = PutsOf(Tail(q)) \cup (IF IsListen(Head(q)) THEN {} ELSE {Head(q).write})
           /\ HasListen(q) <=> HasListen(Tail(q)) \/ IsListen(Head(q))
           /\ HasListen(Tail(q)) <=> \E i \in 2..Len(q) : IsListen(q[i])
           /\ PutsOrdered(q) => /\ PutsOrdered(Tail(q))
                                /\ ~IsListen(Head(q)) => Before({Head(q).write}, PutsOf(Tail(q)))
<1>1. PICK r : r = Tail(q)
  OBVIOUS
<1>2. PICK x : x = Head(q)
  OBVIOUS
<1>3. /\ Len(r) = Len(q) - 1 /\ Len(q) \in Nat /\ Len(q) > 0
      /\ \A i \in 1..Len(r) : r[i] = q[i + 1]
      /\ q[1] = x
  BY <1>1, <1>2, HeadTailProperties, LenProperties, EmptySeq
<1>4. \A i \in 2..Len(q) : i - 1 \in 1..Len(r) /\ r[i - 1] = q[i]
  BY <1>3
<1>5. ASSUME NEW w
      PROVE  (\E i \in 1..Len(q) : ~IsListen(q[i]) /\ q[i].write = w)
               <=> ((~IsListen(x) /\ x.write = w) \/ \E i \in 1..Len(r) : ~IsListen(r[i]) /\ r[i].write = w)
  <2>1. ASSUME NEW i \in 1..Len(q), ~IsListen(q[i]), q[i].write = w
        PROVE  (~IsListen(x) /\ x.write = w) \/ \E k \in 1..Len(r) : ~IsListen(r[k]) /\ r[k].write = w
    <3>1. CASE i = 1
      BY <1>3, <2>1, <3>1
    <3>2. CASE i # 1
      <4>1. i \in 2..Len(q)
        BY <1>3, <3>2
      <4> QED
        BY <1>4, <2>1, <4>1
    <3> QED
      BY <3>1, <3>2
  <2>2. ASSUME NEW i \in 1..Len(r), ~IsListen(r[i]), r[i].write = w
        PROVE  \E k \in 1..Len(q) : ~IsListen(q[k]) /\ q[k].write = w
    <3>1. i + 1 \in 1..Len(q)
      BY <1>3
    <3> QED
      BY <1>3, <2>2, <3>1
  <2>3. 1 \in 1..Len(q)
    BY <1>3
  <2> QED
    BY <1>3, <2>1, <2>2, <2>3
<1>6. PutsOf(q) = PutsOf(r) \cup (IF IsListen(x) THEN {} ELSE {x.write})
  BY <1>5, OnChannel
<1>7. HasListen(r) <=> \E i \in 2..Len(q) : IsListen(q[i])
  <2>1. \A i \in 1..Len(r) : i + 1 \in 2..Len(q)
    BY <1>3
  <2> QED
    BY <1>3, <1>4, <2>1 DEF HasListen
<1>8. HasListen(q) <=> HasListen(r) \/ IsListen(x)
  <2>1. \A i \in 1..Len(q) : i = 1 \/ i \in 2..Len(q)
    BY <1>3
  <2>2. 1 \in 1..Len(q) /\ \A i \in 2..Len(q) : i \in 1..Len(q)
    BY <1>3
  <2> QED
    BY <1>3, <1>7, <2>1, <2>2 DEF HasListen
<1>9. ASSUME PutsOrdered(q)
      PROVE  PutsOrdered(r) /\ (~IsListen(x) => Before({x.write}, PutsOf(r)))
  <2>1. \A i \in 1..Len(r) : i + 1 \in 1..Len(q) /\ 1 \in 1..Len(q) /\ 1 < i + 1
    BY <1>3
  <2>2. PutsOrdered(r)
    <3> SUFFICES ASSUME NEW i \in 1..Len(r), NEW j \in 1..Len(r), i < j, ~IsListen(r[i]), ~IsListen(r[j])
                 PROVE  r[i].write.id < r[j].write.id
      BY DEF PutsOrdered
    <3>1. i + 1 < j + 1 /\ r[i] = q[i + 1] /\ r[j] = q[j + 1]
      BY <1>3
    <3> QED
      BY <1>9, <2>1, <3>1 DEF PutsOrdered
  <2>3. ASSUME ~IsListen(x), NEW w \in PutsOf(r)
        PROVE  x.write.id < w.id
    <3>1. PICK i \in 1..Len(r) : ~IsListen(r[i]) /\ r[i].write = w
      BY OnChannel
    <3>2. r[i] = q[i + 1] /\ q[1] = x
      BY <1>3
    <3> QED
      BY <1>9, <2>1, <2>3, <3>1, <3>2 DEF PutsOrdered
  <2> QED
    BY <2>2, <2>3 DEF Before
<1> QED
  BY <1>1, <1>2, <1>6, <1>7, <1>8, <1>9

\* restoreState puts the outstanding writes on the channel, in their order.
LEMMA PutsRestored ==
    ASSUME NEW q \in Seq(Writes), NEW l \in Seq(Requests), Len(l) <= 1, PutsOf(l) = {}
    PROVE  LET u == l \o [i \in 1..Len(q) |-> Put(q[i])]
           IN  u \in Seq(Requests) /\ PutsOf(u) = ToSet(q) /\ (Ordered(q) => PutsOrdered(u))
<1>1. PICK p : p = [i \in 1..Len(q) |-> Put(q[i])]
  OBVIOUS
<1>2. /\ Len(q) \in Nat /\ Len(l) \in Nat
      /\ \A i \in 1..Len(q) : q[i] \in Writes
  BY LenProperties, ElementOfSeq
<1>3. \A i \in 1..Len(q) : Put(q[i]) \in Requests /\ ~IsListen(Put(q[i])) /\ Put(q[i]).write = q[i]
  BY <1>2 DEF Put, Requests, IsListen
<1>4. p \in Seq(Requests) /\ Len(p) = Len(q) /\ \A i \in 1..Len(q) : p[i] = Put(q[i])
  <2>1. p \in [1..Len(q) -> Requests]
    BY <1>1, <1>3
  <2>2. p \in Seq(Requests)
    BY <1>2, <2>1, SeqDef
  <2>3. Len(p) = Len(q)
    BY <1>2, <2>1, <2>2, LenProperties
  <2> QED
    BY <1>1, <2>2, <2>3
<1>5. PICK u : u = l \o p
  OBVIOUS
<1>6. /\ u \in Seq(Requests) /\ Len(u) = Len(l) + Len(q)
      /\ \A i \in 1..(Len(l) + Len(q)) : u[i] = IF i <= Len(l) THEN l[i] ELSE p[i - Len(l)]
  BY <1>4, <1>5, ConcatProperties
<1>7. \A i \in 1..Len(l) : i \in 1..Len(u) /\ u[i] = l[i] /\ IsListen(u[i])
  <2>1. \A i \in 1..Len(l) : IsListen(l[i])
    BY OnChannel
  <2> QED
    BY <1>2, <1>6, <2>1
<1>8. \A i \in 1..Len(q) : /\ i + Len(l) \in 1..Len(u)
                           /\ ~IsListen(u[i + Len(l)]) /\ u[i + Len(l)].write = q[i]
  <2> SUFFICES ASSUME NEW i \in 1..Len(q)
               PROVE  /\ i + Len(l) \in 1..Len(u)
                      /\ ~IsListen(u[i + Len(l)]) /\ u[i + Len(l)].write = q[i]
    OBVIOUS
  <2>1. i + Len(l) \in 1..Len(u) /\ ~(i + Len(l) <= Len(l)) /\ i + Len(l) - Len(l) = i
    BY <1>2, <1>6
  <2>2. u[i + Len(l)] = p[i]
    BY <1>6, <2>1
  <2> QED
    BY <1>3, <1>4, <2>1, <2>2
<1>9. \A i \in 1..Len(u) : ~IsListen(u[i]) => i - Len(l) \in 1..Len(q) /\ i = (i - Len(l)) + Len(l)
  <2> SUFFICES ASSUME NEW i \in 1..Len(u), ~IsListen(u[i])
               PROVE  i - Len(l) \in 1..Len(q) /\ i = (i - Len(l)) + Len(l)
    OBVIOUS
  <2>1. i \notin 1..Len(l)
    BY <1>7
  <2> QED
    BY <1>2, <1>6, <2>1
<1>10. PutsOf(u) = ToSet(q)
  <2>1. \A w : w \in ToSet(q) <=> \E i \in 1..Len(q) : q[i] = w
    BY InSequence
  <2>2. ASSUME NEW w \in PutsOf(u)
        PROVE  w \in ToSet(q)
    <3>1. PICK i \in 1..Len(u) : ~IsListen(u[i]) /\ u[i].write = w
      BY OnChannel
    <3>2. PICK k \in 1..Len(q) : i = k + Len(l)
      BY <1>9, <3>1
    <3> QED
      BY <1>8, <2>1, <3>1, <3>2
  <2>3. ASSUME NEW w \in ToSet(q)
        PROVE  w \in PutsOf(u)
    BY <1>8, <2>1, <2>3, OnChannel
  <2> QED
    BY <2>2, <2>3
<1>11. ASSUME Ordered(q)
       PROVE  PutsOrdered(u)
  <2> SUFFICES ASSUME NEW i \in 1..Len(u), NEW j \in 1..Len(u), i < j, ~IsListen(u[i]), ~IsListen(u[j])
               PROVE  u[i].write.id < u[j].write.id
    BY DEF PutsOrdered
  <2>1. PICK a \in 1..Len(q) : i = a + Len(l)
    BY <1>9
  <2>2. PICK b \in 1..Len(q) : j = b + Len(l)
    BY <1>9
  <2>3. a < b
    BY <1>2, <2>1, <2>2
  <2> QED
    BY <1>8, <1>11, <2>1, <2>2, <2>3 DEF Ordered
<1> QED
  BY <1>1, <1>5, <1>6, <1>10, <1>11

-----------------------------------------------------------------------------
\* What the writes on disk leave.

\* A write leaves its effect on the records it covers, and the others alone.
LEMMA ApplyIs ==
    ASSUME NEW s \in [Members -> Records], NEW w \in Writes
    PROVE  /\ Apply(s, w) \in [Members -> Records]
           /\ \A m \in Members : Apply(s, w)[m] = IF Covers(w, m) THEN Effect(w, m) ELSE s[m]
<1>1. /\ w.all \in BOOLEAN /\ w.member \in Members /\ w.pair \in {0} \cup Pairs
      /\ {Nothing, 0} \subseteq Records /\ {0} \cup Pairs \subseteq Records
  BY DEF Writes, Records
<1>2. CASE w.all
  <2>1. Apply(s, w) = [m \in Members |-> IF m = w.member THEN 0 ELSE Nothing]
    BY <1>2 DEF Apply
  <2> QED
    BY <1>1, <1>2, <2>1 DEF Covers, Effect
<1>3. CASE ~w.all
  <2>1. Apply(s, w) = [s EXCEPT ![w.member] = w.pair]
    BY <1>3 DEF Apply
  <2> QED
    BY <1>1, <1>3, <2>1 DEF Covers, Effect
<1> QED
  BY <1>1, <1>2, <1>3

\* If some write covers a record, one of them is the last.
LEMMA LastExists ==
    ASSUME NEW D \in SUBSET Writes, NEW m \in Members, NEW v \in D, Covers(v, m)
    PROVE  \E w \in D : LastFor(D, w, m)
<1> DEFINE N == {w.id : w \in {u \in D : Covers(u, m)}}
<1>1. N \in SUBSET Nat /\ N # {} /\ \A n \in N : n <= 2 * MaxWrites + 2
  <2>1. \A u \in D : u.id \in 1..(2 * MaxWrites + 2)
    BY DEF Writes, Ids
  <2> QED
    BY <2>1, DirectoryAssumption
<1>2. 2 * MaxWrites + 2 \in Nat
  BY DirectoryAssumption
<1>3. Max(N) \in N /\ \A n \in N : n <= Max(N)
  <2> HIDE DEF N
  <2> QED
    BY <1>1, <1>2, GreatestOf
<1>4. PICK w \in D : Covers(w, m) /\ w.id = Max(N)
  BY <1>3
<1>5. \A u \in D : Covers(u, m) => u.id \in N
  OBVIOUS
<1> HIDE DEF N
<1>6. LastFor(D, w, m)
  BY <1>3, <1>4, <1>5 DEF LastFor
<1> QED
  BY <1>6

\* A write that is made goes on top of what is intended.
LEMMA MakeKeeps ==
    ASSUME NEW D \in SUBSET Writes, NEW E \in SUBSET D, NEW w \in Writes, Before(D, {w}),
           NEW s \in [Members -> Records], NEW t \in [Members -> Records], Consistent(D, E, s, t)
    PROVE  Consistent(D \cup {w}, E, s, Apply(t, w))
<1> SUFFICES ASSUME NEW m \in Members
             PROVE  /\ \A v \in D \cup {w} : LastFor(D \cup {w}, v, m) => Apply(t, w)[m] = Effect(v, m)
                    /\ (\A v \in D \cup {w} : ~Covers(v, m)) => Apply(t, w)[m] = s[m]
                    /\ \A v \in E : LastFor(E, v, m) => s[m] = Effect(v, m)
  BY DEF Consistent
<1>1. Apply(t, w)[m] = IF Covers(w, m) THEN Effect(w, m) ELSE t[m]
  BY ApplyIs
<1>2. \A v \in D : v.id \in Nat /\ v.id < w.id /\ ~(w.id <= v.id)
  <2>1. \A v \in D \cup {w} : v.id \in Nat
    BY DirectoryAssumption DEF Writes, Ids
  <2> QED
    BY <2>1 DEF Before
<1>3. ASSUME NEW v \in D \cup {w}, LastFor(D \cup {w}, v, m)
      PROVE  Apply(t, w)[m] = Effect(v, m)
  <2>1. CASE Covers(w, m)
    <3>1. v = w
      BY <1>2, <1>3, <2>1 DEF LastFor
    <3> QED
      BY <1>1, <2>1, <3>1
  <2>2. CASE ~Covers(w, m)
    <3>1. v \in D /\ LastFor(D, v, m)
      BY <1>3, <2>2 DEF LastFor
    <3> QED
      BY <1>1, <2>2, <3>1 DEF Consistent
  <2> QED
    BY <2>1, <2>2
<1>4. ASSUME \A v \in D \cup {w} : ~Covers(v, m)
      PROVE  Apply(t, w)[m] = s[m]
  BY <1>1, <1>4 DEF Consistent
<1>5. \A v \in E : LastFor(E, v, m) => s[m] = Effect(v, m)
  BY DEF Consistent
<1> QED
  BY <1>3, <1>4, <1>5

\* A write on disk may be executed whenever it is newer than those already executed.
LEMMA ExecuteKeeps ==
    ASSUME NEW D \in SUBSET Writes, NEW E \in SUBSET D, NEW w \in D, Before(E, {w}),
           NEW s \in [Members -> Records], NEW t \in [Members -> Records], Consistent(D, E, s, t)
    PROVE  Consistent(D, E \cup {w}, Apply(s, w), t)
<1> SUFFICES ASSUME NEW m \in Members
             PROVE  /\ \A v \in D : LastFor(D, v, m) => t[m] = Effect(v, m)
                    /\ (\A v \in D : ~Covers(v, m)) => t[m] = Apply(s, w)[m]
                    /\ \A v \in E \cup {w} : LastFor(E \cup {w}, v, m) => Apply(s, w)[m] = Effect(v, m)
  BY DEF Consistent
<1>1. Apply(s, w)[m] = IF Covers(w, m) THEN Effect(w, m) ELSE s[m]
  BY ApplyIs
<1>2. \A v \in E : v.id \in Nat /\ v.id < w.id /\ ~(w.id <= v.id)
  <2>1. \A v \in D : v.id \in Nat
    BY DirectoryAssumption DEF Writes, Ids
  <2> QED
    BY <2>1 DEF Before
<1>3. \A v \in D : LastFor(D, v, m) => t[m] = Effect(v, m)
  BY DEF Consistent
<1>4. ASSUME \A v \in D : ~Covers(v, m)
      PROVE  t[m] = Apply(s, w)[m]
  BY <1>1, <1>4 DEF Consistent
<1>5. ASSUME NEW v \in E \cup {w}, LastFor(E \cup {w}, v, m)
      PROVE  Apply(s, w)[m] = Effect(v, m)
  <2>1. CASE Covers(w, m)
    <3>1. v = w
      BY <1>2, <1>5, <2>1 DEF LastFor
    <3> QED
      BY <1>1, <2>1, <3>1
  <2>2. CASE ~Covers(w, m)
    <3>1. v \in E /\ LastFor(E, v, m)
      BY <1>5, <2>2 DEF LastFor
    <3> QED
      BY <1>1, <2>2, <3>1 DEF Consistent
  <2> QED
    BY <2>1, <2>2
<1> QED
  BY <1>3, <1>4, <1>5

\* Writes that were executed may leave the disk, the oldest first.
LEMMA SettleKeeps ==
    ASSUME NEW D \in SUBSET Writes, NEW E \in SUBSET D, NEW R \in SUBSET E, Before(R, D \ R),
           NEW s, NEW t, Consistent(D, E, s, t)
    PROVE  Consistent(D \ R, E \ R, s, t)
<1> SUFFICES ASSUME NEW m \in Members
             PROVE  /\ \A v \in D \ R : LastFor(D \ R, v, m) => t[m] = Effect(v, m)
                    /\ (\A v \in D \ R : ~Covers(v, m)) => t[m] = s[m]
                    /\ \A v \in E \ R : LastFor(E \ R, v, m) => s[m] = Effect(v, m)
  BY DEF Consistent
<1>1. \A v \in R, w \in D \ R : v.id <= w.id
  <2>1. \A v \in D : v.id \in Nat
    BY DirectoryAssumption DEF Writes, Ids
  <2> QED
    BY <2>1 DEF Before
<1>2. ASSUME NEW v \in D \ R, LastFor(D \ R, v, m)
      PROVE  t[m] = Effect(v, m)
  <2>1. LastFor(D, v, m)
    BY <1>1, <1>2 DEF LastFor
  <2> QED
    BY <2>1 DEF Consistent
<1>3. ASSUME NEW v \in E \ R, LastFor(E \ R, v, m)
      PROVE  s[m] = Effect(v, m)
  <2>1. LastFor(E, v, m)
    BY <1>1, <1>3 DEF LastFor
  <2> QED
    BY <2>1 DEF Consistent
<1>4. ASSUME \A v \in D \ R : ~Covers(v, m)
      PROVE  t[m] = s[m]
  <2>1. CASE \A v \in D : ~Covers(v, m)
    BY <2>1 DEF Consistent
  <2>2. CASE \E v \in D : Covers(v, m)
    <3>1. PICK w \in D : LastFor(D, w, m)
      BY <2>2, LastExists
    <3>2. w \in E /\ LastFor(E, w, m)
      BY <1>4, <3>1 DEF LastFor
    <3> QED
      BY <3>1, <3>2 DEF Consistent
  <2> QED
    BY <2>1, <2>2
<1> QED
  BY <1>2, <1>3, <1>4

\* When the connection is lost, what was executed over it no longer counts.
LEMMA ForgetKeeps ==
    ASSUME NEW D, NEW E, NEW s, NEW t, Consistent(D, E, s, t)
    PROVE  Consistent(D, {}, s, t)
BY DEF Consistent

-----------------------------------------------------------------------------
\* What the steps do to the queues of a device.

Typed(dk, pt, hd, c, u, dn) ==
    /\ dk \in Seq(Writes) /\ pt \in Seq(Writes) /\ hd \in Seq(Acks)
    /\ c \in BOOLEAN /\ u \in Seq(Requests) /\ dn \in Seq(Answers)

\* The writes of each queue are writes, and of an empty one there are none.
LEMMA QueuesHoldWrites ==
    /\ \A q \in Seq(Writes) : ToSet(q) \subseteq Writes
    /\ \A q \in Seq(Acks) \cup Seq(Requests) \cup Seq(Answers) : PutsOf(q) \subseteq Writes
    /\ ToSet(<<>>) = {} /\ PutsOf(<<>>) = {} /\ ~HasListen(<<>>)
    /\ Ordered(<<>>) /\ PutsOrdered(<<>>)
    /\ \A w \in Writes : w.id \in Nat
<1>1. \A q \in Seq(Writes) : ToSet(q) \subseteq Writes
  BY InSequence
<1>2. \A x \in Acks \cup Requests \cup Answers : ~IsListen(x) => x.write \in Writes
  BY DEF Acks, Requests, Answers, IsListen
<1>3. ASSUME NEW q \in Seq(Acks) \cup Seq(Requests) \cup Seq(Answers), NEW w \in PutsOf(q)
      PROVE  w \in Writes
  <2>1. PICK i \in 1..Len(q) : ~IsListen(q[i]) /\ q[i].write = w
    BY OnChannel
  <2>2. q[i] \in Acks \cup Requests \cup Answers
    BY ElementOfSeq
  <2> QED
    BY <1>2, <2>1, <2>2
<1>4. ToSet(<<>>) = {} /\ PutsOf(<<>>) = {} /\ ~HasListen(<<>>) /\ Ordered(<<>>) /\ PutsOrdered(<<>>)
  BY DEF ToSet, PutsOf, HasListen, Ordered, PutsOrdered
<1>5. \A w \in Writes : w.id \in Nat
  BY DirectoryAssumption DEF Writes, Ids
<1> QED
  BY <1>1, <1>3, <1>4, <1>5

\* An executed write is on disk.
LEMMA ExecutedOnDisk ==
    ASSUME NEW dk, NEW pt, NEW hd, NEW c \in BOOLEAN, NEW u, NEW dn, QueueOK(dk, pt, hd, c, u, dn)
    PROVE  PutsOf(hd) \cup PutsOf(dn) \subseteq ToSet(dk) /\ PutsOf(u) \subseteq ToSet(dk)
<1>1. CASE c
  BY <1>1 DEF QueueOK
<1>2. CASE ~c
  BY <1>2, QueuesHoldWrites DEF QueueOK
<1> QED
  BY <1>1, <1>2

\* A listen is sent.
LEMMA ListenQueues ==
    ASSUME NEW dk, NEW pt, NEW hd, NEW c, NEW u, NEW dn, Typed(dk, pt, hd, c, u, dn),
           QueueOK(dk, pt, hd, c, u, dn), NEW m \in Members, c
    PROVE  QueueOK(dk, pt, hd, c, Append(u, Listen(m)), dn)
<1>1. Listen(m) \in Requests /\ IsListen(Listen(m)) /\ u \in Seq(Requests)
  BY DEF Listen, Requests, IsListen, Typed
<1>2. PICK x : x = Listen(m)
  OBVIOUS
<1>3. /\ PutsOf(Append(u, x)) = PutsOf(u)
      /\ HasListen(Append(u, x))
      /\ PutsOrdered(u) => PutsOrdered(Append(u, x))
  BY <1>1, <1>2, PutsAppend
<1> QED
  BY <1>2, <1>3 DEF QueueOK

\* The number of a new write is greater than those on disk.
LEMMA NewestOnDisk ==
    ASSUME NEW dk \in Seq(Writes), Ordered(dk), NEW w \in Writes,
           w.id = (IF dk = <<>> THEN 1 ELSE Last(dk).id + 1)
    PROVE  Before(ToSet(dk), {w})
<1>1. Len(dk) \in Nat /\ \A i \in 1..Len(dk) : dk[i] \in Writes /\ dk[i].id \in Nat
  BY LenProperties, ElementOfSeq, QueuesHoldWrites
<1> SUFFICES ASSUME NEW v \in ToSet(dk)
             PROVE  v.id < w.id
  BY DEF Before
<1>2. PICK i \in 1..Len(dk) : dk[i] = v
  BY InSequence
<1>3. dk # <<>> /\ Len(dk) \in 1..Len(dk) /\ Last(dk) = dk[Len(dk)]
  BY <1>1, <1>2 DEF Last
<1>4. i = Len(dk) \/ v.id < dk[Len(dk)].id
  BY <1>1, <1>2, <1>3 DEF Ordered
<1>5. dk[Len(dk)].id \in Nat /\ v.id \in Nat
  BY <1>1, <1>2, <1>3
<1> QED
  BY <1>2, <1>3, <1>4, <1>5

\* A write is made: it is queued behind all others.
LEMMA SetQueues ==
    ASSUME NEW dk, NEW pt, NEW hd, NEW c, NEW u, NEW dn, Typed(dk, pt, hd, c, u, dn),
           QueueOK(dk, pt, hd, c, u, dn), NEW w \in Writes, Before(ToSet(dk), {w})
    PROVE  QueueOK(Append(dk, w), Append(pt, w), hd, c, IF c THEN Append(u, Put(w)) ELSE u, dn)
<1>1. /\ Put(w) \in Requests /\ ~IsListen(Put(w)) /\ Put(w).write = w
      /\ c \in BOOLEAN /\ u \in Seq(Requests) /\ dk \in Seq(Writes) /\ pt \in Seq(Writes)
  BY DEF Put, Requests, IsListen, Typed
<1>2. PICK x : x = Put(w)
  OBVIOUS
<1>3. PutsOf(hd) \cup PutsOf(dn) \subseteq ToSet(dk) /\ PutsOf(u) \subseteq ToSet(dk) /\ ToSet(pt) \subseteq ToSet(dk)
  BY <1>1, ExecutedOnDisk DEF QueueOK
<1>4. ToSet(Append(dk, w)) = ToSet(dk) \cup {w} /\ Ordered(Append(dk, w))
  <2>1. Ordered(dk)
    BY DEF QueueOK
  <2>2. Ordered(Append(dk, w))
    BY <1>1, <2>1, OrderedAppend
  <2> QED
    BY <1>1, <2>2, OneMore
<1>5. ToSet(Append(pt, w)) = ToSet(pt) \cup {w} /\ Ordered(Append(pt, w))
  <2>1. Ordered(pt) /\ Before(ToSet(pt), {w})
    BY <1>3 DEF QueueOK, Before
  <2>2. Ordered(Append(pt, w))
    BY <1>1, <2>1, OrderedAppend
  <2> QED
    BY <1>1, <2>2, OneMore
<1>6. Before(PutsOf(u), {x.write}) /\ PutsOrdered(u)
  BY <1>1, <1>2, <1>3 DEF Before, QueueOK
<1>7. /\ PutsOf(Append(u, x)) = PutsOf(u) \cup {w} /\ PutsOrdered(Append(u, x))
      /\ HasListen(u) => HasListen(Append(u, x))
  BY <1>1, <1>2, <1>6, PutsAppend
<1>8. Before(PutsOf(hd), ToSet(pt) \cup {w}) /\ (c => Before(PutsOf(dn), PutsOf(u) \cup {w}))
  BY <1>3 DEF Before, QueueOK
<1>9. CASE c
  BY <1>2, <1>4, <1>5, <1>7, <1>8, <1>9 DEF QueueOK
<1>10. CASE ~c
  BY <1>4, <1>5, <1>8, <1>10 DEF QueueOK
<1> QED
  BY <1>1, <1>9, <1>10

\* A connection is made: everything outstanding is sent.
LEMMA ConnectQueues ==
    ASSUME NEW dk, NEW pt, NEW hd, NEW u, NEW dn, Typed(dk, pt, hd, FALSE, u, dn),
           QueueOK(dk, pt, hd, FALSE, u, dn), NEW v \in Seq(Requests),
           PutsOf(v) = ToSet(pt), PutsOrdered(v)
    PROVE  QueueOK(dk, pt, hd, TRUE, v, dn)
BY QueuesHoldWrites DEF QueueOK, Before

\* A connection is lost while nothing is held back, or the app is killed.
LEMMA CutQueues ==
    ASSUME NEW dk, NEW pt, NEW hd, NEW c, NEW u, NEW dn, Typed(dk, pt, hd, c, u, dn),
           QueueOK(dk, pt, hd, c, u, dn)
    PROVE  /\ hd = <<>> => QueueOK(dk, pt, hd, FALSE, <<>>, <<>>)
           /\ QueueOK(dk, dk, <<>>, FALSE, <<>>, <<>>)
BY QueuesHoldWrites DEF QueueOK, Before

\* The server answers a request.
LEMMA ExecuteQueues ==
    ASSUME NEW dk, NEW pt, NEW hd, NEW c, NEW u, NEW dn, Typed(dk, pt, hd, c, u, dn),
           QueueOK(dk, pt, hd, c, u, dn), u # <<>>, NEW a \in Answers,
           IsListen(a) <=> IsListen(Head(u)),
           ~IsListen(a) => a.write = Head(u).write
    PROVE  /\ QueueOK(dk, pt, hd, c, Tail(u), Append(dn, a))
           /\ PutsOf(Append(dn, a)) = PutsOf(dn) \cup (IF IsListen(a) THEN {} ELSE {a.write})
           /\ ~IsListen(a) => a.write \in ToSet(dk) /\ Before(PutsOf(hd) \cup PutsOf(dn), {a.write})
<1>1. c /\ u \in Seq(Requests) /\ dn \in Seq(Answers)
  BY DEF QueueOK, Typed
<1>2. PICK h : h = Head(u)
  OBVIOUS
<1>3. /\ PutsOf(u) = PutsOf(Tail(u)) \cup (IF IsListen(h) THEN {} ELSE {h.write})
      /\ HasListen(u) <=> HasListen(Tail(u)) \/ IsListen(h)
      /\ PutsOrdered(Tail(u))
      /\ ~IsListen(h) => Before({h.write}, PutsOf(Tail(u)))
  BY <1>1, <1>2, PutsTail DEF QueueOK
<1>4. ~IsListen(a) => Before(PutsOf(dn), {a.write})
  BY <1>1, <1>2, <1>3 DEF Before, QueueOK
<1>5. /\ PutsOf(Append(dn, a)) = PutsOf(dn) \cup (IF IsListen(a) THEN {} ELSE {a.write})
      /\ HasListen(Append(dn, a)) <=> HasListen(dn) \/ IsListen(a)
      /\ PutsOrdered(Append(dn, a))
  BY <1>1, <1>4, PutsAppend DEF QueueOK
<1>6. PutsOf(Append(dn, a)) \cup PutsOf(Tail(u)) = PutsOf(dn) \cup PutsOf(u)
  BY <1>2, <1>3, <1>5
<1>7. Before(PutsOf(Append(dn, a)), PutsOf(Tail(u)))
  BY <1>1, <1>2, <1>3, <1>5 DEF Before, QueueOK
<1>8. HasListen(u) \/ HasListen(dn) => HasListen(Tail(u)) \/ HasListen(Append(dn, a))
  BY <1>2, <1>3, <1>5
<1>9. QueueOK(dk, pt, hd, c, Tail(u), Append(dn, a))
  BY <1>1, <1>3, <1>5, <1>6, <1>7, <1>8 DEF QueueOK
<1>10. ~IsListen(a) => a.write \in ToSet(pt) /\ a.write \in ToSet(dk)
  BY <1>1, <1>2, <1>3 DEF QueueOK
<1>11. ~IsListen(a) => Before(PutsOf(hd) \cup PutsOf(dn), {a.write})
  BY <1>4, <1>10 DEF Before, QueueOK
<1> QED
  BY <1>5, <1>9, <1>10, <1>11

\* The removal, by number, of the writes of a set from a queue in order.
LEMMA RemoveByNumber ==
    ASSUME NEW q \in Seq(Writes), Ordered(q), NEW R \in SUBSET ToSet(q), NEW ids,
           ids = {w.id : w \in R}
    PROVE  ToSet(Without(q, ids)) = ToSet(q) \ R
<1>1. \A i, j \in 1..Len(q) : q[i].id = q[j].id => i = j
  <2>1. Len(q) \in Nat /\ \A i \in 1..Len(q) : q[i].id \in Nat
    BY LenProperties, ElementOfSeq, QueuesHoldWrites
  <2> SUFFICES ASSUME NEW i \in 1..Len(q), NEW j \in 1..Len(q), q[i].id = q[j].id
               PROVE  i = j
    OBVIOUS
  <2>2. ~(i < j) /\ ~(j < i)
    BY <2>1 DEF Ordered
  <2> QED
    BY <2>1, <2>2
<1>2. \A v, w \in ToSet(q) : v.id = w.id => v = w
  <2>1. \A v : v \in ToSet(q) <=> \E i \in 1..Len(q) : q[i] = v
    BY InSequence
  <2> QED
    BY <1>1, <2>1
<1>3. ToSet(Without(q, ids)) = {w \in ToSet(q) : w.id \notin ids}
  BY WithoutKeeps
<1> QED
  BY <1>2, <1>3

\* What the acknowledgement of w leaves outstanding and on the way down.
AckLeaves(pt, u, dn, w, rest) ==
    /\ w \in ToSet(pt) /\ ToSet(rest) = ToSet(pt) \ {w} /\ Before({w}, ToSet(rest))
    /\ Ordered(rest)
    /\ PutsOf(dn) = PutsOf(Tail(dn)) \cup {w} /\ w \notin PutsOf(Tail(dn))
    /\ ToSet(rest) = PutsOf(Tail(dn)) \cup PutsOf(u)
    /\ PutsOrdered(Tail(dn)) /\ Before(PutsOf(Tail(dn)), PutsOf(u))
    /\ HasListen(Tail(dn)) <=> HasListen(dn)

\* An acknowledgement arrives: the write is the oldest that is outstanding.
LEMMA AckQueues ==
    ASSUME NEW dk, NEW pt, NEW hd, NEW c, NEW u, NEW dn, Typed(dk, pt, hd, c, u, dn),
           QueueOK(dk, pt, hd, c, u, dn), dn # <<>>, ~IsListen(Head(dn)),
           NEW w, w = Head(dn).write, NEW rest, rest = Without(pt, {w.id})
    PROVE  AckLeaves(pt, u, dn, w, rest)
<1>1. c /\ dn \in Seq(Answers) /\ pt \in Seq(Writes) /\ ToSet(pt) \subseteq Writes
  BY QueuesHoldWrites DEF QueueOK, Typed
<1>2. PICK h : h = Head(dn)
  OBVIOUS
<1>3. /\ PutsOf(dn) = PutsOf(Tail(dn)) \cup {w}
      /\ HasListen(dn) <=> HasListen(Tail(dn))
      /\ PutsOrdered(Tail(dn))
      /\ Before({w}, PutsOf(Tail(dn)))
  BY <1>1, <1>2, PutsTail DEF QueueOK
<1>4. w \in ToSet(pt) /\ w \in Writes /\ w.id \in Nat
  BY <1>1, <1>3, QueuesHoldWrites DEF QueueOK
<1>5. w \notin PutsOf(Tail(dn)) /\ w \notin PutsOf(u)
  <2>1. ~(w.id < w.id)
    BY <1>4
  <2> QED
    BY <1>1, <1>3, <2>1 DEF Before, QueueOK
<1>6. ToSet(rest) = ToSet(pt) \ {w}
  <2>1. {w} \in SUBSET ToSet(pt) /\ {w.id} = {v.id : v \in {w}} /\ Ordered(pt)
    BY <1>4 DEF QueueOK
  <2> QED
    BY <1>1, <2>1, RemoveByNumber
<1>7. Ordered(rest)
  BY <1>1, WithoutKeeps DEF QueueOK
<1>8. ToSet(rest) = PutsOf(Tail(dn)) \cup PutsOf(u)
  BY <1>1, <1>3, <1>5, <1>6 DEF QueueOK
<1>9. Before(PutsOf(Tail(dn)), PutsOf(u)) /\ Before({w}, PutsOf(u))
  BY <1>1, <1>3 DEF Before, QueueOK
<1>10. Before({w}, ToSet(rest))
  BY <1>3, <1>8, <1>9 DEF Before
<1> QED
  BY <1>2, <1>3, <1>4, <1>5, <1>6, <1>7, <1>8, <1>9, <1>10 DEF AckLeaves

\* ... it is held back as long as a listen is unanswered.
LEMMA HoldQueues ==
    ASSUME NEW dk, NEW pt, NEW hd, NEW c, NEW u, NEW dn, Typed(dk, pt, hd, c, u, dn),
           QueueOK(dk, pt, hd, c, u, dn), dn # <<>>, ~IsListen(Head(dn)),
           HasListen(u) \/ HasListen(dn)
    PROVE  /\ QueueOK(dk, Without(pt, {Head(dn).write.id}), Append(hd, Head(dn)), c, u, Tail(dn))
           /\ PutsOf(Append(hd, Head(dn))) \cup PutsOf(Tail(dn)) = PutsOf(hd) \cup PutsOf(dn)
<1>1. /\ c /\ dn \in Seq(Answers) /\ hd \in Seq(Acks) /\ Head(dn) \in Answers
  <2>1. dn \in Seq(Answers)
    BY DEF Typed
  <2> QED
    BY <2>1, HeadTailProperties DEF QueueOK, Typed
<1>2. PICK h : h = Head(dn)
  OBVIOUS
<1>3. PICK w : w = h.write
  OBVIOUS
<1>4. PICK rest : rest = Without(pt, {w.id})
  OBVIOUS
<1>5. AckLeaves(pt, u, dn, w, rest)
  <2>1. w = Head(dn).write
    BY <1>2, <1>3
  <2> QED
    BY <1>4, <2>1, AckQueues
<1>6. h \in Acks
  BY <1>1, <1>2 DEF Answers, Acks, IsListen
<1>7. PutsOf(Append(hd, h)) = PutsOf(hd) \cup {w}
  BY <1>1, <1>2, <1>3, <1>6, PutsAppend
<1>8. Before(PutsOf(hd) \cup {w}, ToSet(rest))
  BY <1>5 DEF Before, QueueOK, AckLeaves
<1>9. QueueOK(dk, rest, Append(hd, h), c, u, Tail(dn))
  BY <1>1, <1>5, <1>7, <1>8 DEF QueueOK, AckLeaves
<1> QED
  BY <1>2, <1>3, <1>4, <1>5, <1>7, <1>9 DEF AckLeaves

\* What settling the writes of R leaves: dk, hd and dn become kept, v and Tail(dn).
SettleLeaves(dk, hd, c, u, dn, R, kept, rest, v) ==
    /\ QueueOK(kept, rest, v, c, u, Tail(dn))
    /\ Before(R, ToSet(dk) \ R)
    /\ ToSet(kept) = ToSet(dk) \ R
    /\ PutsOf(v) \cup PutsOf(Tail(dn)) = (PutsOf(hd) \cup PutsOf(dn)) \ R

\* ... and otherwise settled: nothing is held back then.
LEMMA SettleQueues ==
    ASSUME NEW dk, NEW pt, NEW hd, NEW c, NEW u, NEW dn, Typed(dk, pt, hd, c, u, dn),
           QueueOK(dk, pt, hd, c, u, dn), dn # <<>>, ~IsListen(Head(dn)),
           ~HasListen(u), ~HasListen(dn), NEW w, w = Head(dn).write,
           NEW rest, rest = Without(pt, {w.id}), NEW kept, kept = Without(dk, {w.id})
    PROVE  SettleLeaves(dk, hd, c, u, dn, {w}, kept, rest, hd) /\ w \in PutsOf(dn)
<1>1. c /\ hd = <<>> /\ PutsOf(hd) = {} /\ ToSet(dk) = ToSet(pt) /\ dk \in Seq(Writes) /\ Ordered(dk)
  BY QueuesHoldWrites DEF QueueOK, Typed
<1>2. AckLeaves(pt, u, dn, w, rest)
  BY AckQueues
<1>3. ToSet(kept) = ToSet(dk) \ {w} /\ Ordered(kept)
  <2>1. {w} \in SUBSET ToSet(dk) /\ {w.id} = {v.id : v \in {w}}
    BY <1>1, <1>2 DEF AckLeaves
  <2>2. ToSet(kept) = ToSet(dk) \ {w}
    BY <1>1, <2>1, RemoveByNumber, ZenonT(60)
  <2>3. Ordered(kept)
    BY <1>1, WithoutKeeps
  <2> QED
    BY <2>2, <2>3
<1>4. QueueOK(kept, rest, hd, c, u, Tail(dn))
  BY <1>1, <1>2, <1>3 DEF QueueOK, Before, AckLeaves
<1> QED
  BY <1>1, <1>2, <1>3, <1>4 DEF AckLeaves, SettleLeaves

\* The answer of a listen arrives: if it is the last one, all that is held back is settled.
LEMMA ListenAnswerQueues ==
    ASSUME NEW dk, NEW pt, NEW hd, NEW c, NEW u, NEW dn, Typed(dk, pt, hd, c, u, dn),
           QueueOK(dk, pt, hd, c, u, dn), dn # <<>>, IsListen(Head(dn)), NEW ids, NEW quiet \in BOOLEAN,
           quiet <=> ~HasListen(u) /\ ~HasListen(Tail(dn)),
           NEW R, R = (IF quiet THEN PutsOf(hd) ELSE {}), ids = {w.id : w \in R},
           NEW kept, kept = Without(dk, ids), NEW v, v = (IF quiet THEN <<>> ELSE hd)
    PROVE  SettleLeaves(dk, hd, c, u, dn, R, kept, pt, v)
<1>1. /\ c /\ dk \in Seq(Writes) /\ dn \in Seq(Answers) /\ Ordered(dk) /\ PutsOf(hd) \subseteq Writes
      /\ ToSet(pt) \subseteq Writes
  BY QueuesHoldWrites DEF QueueOK, Typed
<1>2. PICK h : h = Head(dn)
  OBVIOUS
<1>3. /\ PutsOf(dn) = PutsOf(Tail(dn)) /\ PutsOrdered(Tail(dn))
  BY <1>1, <1>2, PutsTail DEF QueueOK
<1>4. R \in SUBSET ToSet(dk)
  BY DEF QueueOK
<1>5. ToSet(kept) = ToSet(dk) \ R /\ Ordered(kept)
  BY <1>1, <1>4, RemoveByNumber, WithoutKeeps
<1>6. \A w \in PutsOf(hd) : w \notin ToSet(pt)
  <2>1. \A w \in PutsOf(hd) : w.id \in Nat /\ ~(w.id < w.id)
    BY <1>1, QueuesHoldWrites
  <2> QED
    BY <2>1 DEF QueueOK, Before
<1>7. CASE quiet
  <2>1. R = PutsOf(hd) /\ ToSet(kept) = ToSet(pt) /\ ToSet(dk) \ R = ToSet(pt)
    BY <1>5, <1>6, <1>7 DEF QueueOK
  <2>2. PutsOf(dn) \subseteq ToSet(pt)
    BY <1>1 DEF QueueOK
  <2>3. QueueOK(kept, pt, <<>>, c, u, Tail(dn))
    BY <1>1, <1>3, <1>5, <2>1, QueuesHoldWrites DEF QueueOK, Before
  <2>4. Before(R, ToSet(dk) \ R)
    BY <2>1 DEF QueueOK
  <2>5. PutsOf(<<>>) \cup PutsOf(Tail(dn)) = (PutsOf(hd) \cup PutsOf(dn)) \ R
    BY <1>3, <1>6, <2>1, <2>2, QueuesHoldWrites
  <2> QED
    BY <1>5, <1>7, <2>3, <2>4, <2>5 DEF SettleLeaves
<1>8. CASE ~quiet
  <2>1. R = {} /\ ToSet(kept) = ToSet(dk)
    BY <1>5, <1>8
  <2>2. QueueOK(kept, pt, hd, c, u, Tail(dn))
    BY <1>1, <1>3, <1>5, <1>8, <2>1 DEF QueueOK
  <2>3. Before(R, ToSet(dk) \ R)
    BY <2>1 DEF Before
  <2> QED
    BY <1>3, <1>8, <2>1, <2>2, <2>3 DEF SettleLeaves
<1> QED
  BY <1>7, <1>8

-----------------------------------------------------------------------------
\* The invariant holds at first, and a step of one device leaves the others alone.

\* The initial state, with empty queues and the recorded members, satisfies the invariant.
LEMMA InitIInv == Init => IInv
<1> SUFFICES ASSUME Init PROVE IInv
  OBVIOUS
<1>1. TypeOK
  <2>1. /\ <<>> \in Seq(Writes) /\ <<>> \in Seq(Acks) /\ <<>> \in Seq(Requests) /\ <<>> \in Seq(Answers)
        /\ {Nothing, 0} \subseteq Records /\ 0 \in 0..MaxPairs
    BY DirectoryAssumption DEF Records
  <2> QED
    BY <2>1 DEF Init, TypeOK, Logins
<1>2. MadeInv
  BY QueuesHoldWrites DEF Init, MadeInv, Pending
<1>3. QueueInv
  BY QueuesHoldWrites DEF Init, QueueInv, QueueOK, Before
<1>4. ValuesInv
  BY QueuesHoldWrites DEF Init, ValuesInv, Consistent, Taken
<1> QED
  BY <1>1, <1>2, <1>3, <1>4 DEF IInv

OthersKept(d) ==
    \A e \in Devices \ {d} :
        /\ disk'[e] = disk[e] /\ puts'[e] = puts[e] /\ held'[e] = held[e]
        /\ conn'[e] = conn[e] /\ up'[e] = up[e] /\ down'[e] = down[e]

\* What is left to show of a step of device d.
LEMMA DeviceStep ==
    ASSUME IInv, TypeOK', NEW d \in Devices, OthersKept(d), joined \subseteq joined',
           stranded => stranded',
           \A w \in Pending(d)' : Made(w, joined'),
           ~stranded' => QueueOK(disk'[d], puts'[d], held'[d], conn'[d], up'[d], down'[d]),
           ~stranded' /\ Devices = {d} =>
             Consistent(Taken(ToSet(disk'[d])), Taken(PutsOf(held'[d]) \cup PutsOf(down'[d])), server', intended')
    PROVE  IInv'
<1>1. MadeInv'
  <2> SUFFICES ASSUME NEW e \in Devices, NEW w \in Pending(e)'
               PROVE  Made(w, joined')
    BY DEF MadeInv
  <2>1. CASE e = d
    BY <2>1
  <2>2. CASE e # d
    <3>1. w \in Pending(e)
      BY <2>2 DEF OthersKept, Pending
    <3>2. Made(w, joined)
      BY <3>1 DEF IInv, MadeInv
    <3> QED
      BY <3>2 DEF Made
  <2> QED
    BY <2>1, <2>2
<1>2. QueueInv'
  <2> SUFFICES ASSUME ~stranded', NEW e \in Devices
               PROVE  QueueOK(disk'[e], puts'[e], held'[e], conn'[e], up'[e], down'[e])
    BY DEF QueueInv
  <2>1. CASE e = d
    BY <2>1
  <2>2. CASE e # d
    <3>1. QueueOK(disk[e], puts[e], held[e], conn[e], up[e], down[e])
      BY DEF IInv, QueueInv
    <3> QED
      BY <2>2, <3>1 DEF OthersKept
  <2> QED
    BY <2>1, <2>2
<1>3. ValuesInv'
  <2> SUFFICES ASSUME NEW e \in Devices, Devices = {e}, ~stranded'
               PROVE  Consistent(Taken(ToSet(disk'[e])), Taken(PutsOf(held'[e]) \cup PutsOf(down'[e])), server', intended')
    BY DEF ValuesInv
  <2>1. e = d
    OBVIOUS
  <2> QED
    BY <2>1
<1> QED
  BY <1>1, <1>2, <1>3 DEF IInv

\* The queues of a device, as constants.
Queues(d, dk, pt, hd, c, u, dn) ==
    /\ dk = disk[d] /\ pt = puts[d] /\ hd = held[d] /\ c = conn[d] /\ u = up[d] /\ dn = down[d]

\* What the invariant says of a device.
LEMMA DeviceFacts ==
    ASSUME IInv, NEW d \in Devices, NEW dk, NEW pt, NEW hd, NEW c, NEW u, NEW dn,
           Queues(d, dk, pt, hd, c, u, dn)
    PROVE  /\ Typed(dk, pt, hd, c, u, dn)
           /\ \A w \in ToSet(dk) \cup ToSet(pt) \cup PutsOf(u) : Made(w, joined)
           /\ ~stranded => QueueOK(dk, pt, hd, c, u, dn)
           /\ Devices = {d} /\ ~stranded =>
                Consistent(Taken(ToSet(dk)), Taken(PutsOf(hd) \cup PutsOf(dn)), server, intended)
<1>1. Typed(dk, pt, hd, c, u, dn)
  BY DEF IInv, TypeOK, Typed, Queues
<1>2. \A w \in ToSet(dk) \cup ToSet(pt) \cup PutsOf(u) : Made(w, joined)
  BY DEF IInv, MadeInv, Pending, Queues
<1>3. ~stranded => QueueOK(dk, pt, hd, c, u, dn)
  BY DEF IInv, QueueInv, Queues
<1>4. Devices = {d} /\ ~stranded =>
        Consistent(Taken(ToSet(dk)), Taken(PutsOf(hd) \cup PutsOf(dn)), server, intended)
  BY DEF IInv, ValuesInv, Queues
<1> QED
  BY <1>1, <1>2, <1>3, <1>4

\* Steps of the app that leave the queues alone.
LEMMA QuietStep ==
    ASSUME IInv, TypeOK', UNCHANGED <<server, clientVars, netVars, joined, intended, stranded>>
    PROVE  IInv'
<1>1. MadeInv'
  BY DEF IInv, MadeInv, Pending, clientVars, netVars
<1>2. QueueInv'
  BY DEF IInv, QueueInv, clientVars, netVars
<1>3. ValuesInv'
  BY DEF IInv, ValuesInv, clientVars, netVars
<1> QED
  BY <1>1, <1>2, <1>3 DEF IInv

-----------------------------------------------------------------------------
\* The app.

\* What login$ can wait for.
LEMMA LoginStates ==
    ASSUME NEW m \in Members, NEW found \in BOOLEAN
    PROVE  Answered(m, found) \in Logins /\ Waiting(m) \in Logins /\ NoLogin \in Logins
BY DEF Answered, Waiting, Logins

\* A listen carries no write.
LEMMA SendListen ==
    ASSUME NEW u \in Seq(Requests), NEW m \in Members
    PROVE  Append(u, Listen(m)) \in Seq(Requests) /\ PutsOf(Append(u, Listen(m))) = PutsOf(u)
<1>1. PICK x : x = Listen(m)
  OBVIOUS
<1>2. x \in Requests /\ IsListen(x)
  BY <1>1 DEF Listen, Requests, IsListen
<1>3. PutsOf(Append(u, x)) = PutsOf(u) /\ Append(u, x) \in Seq(Requests)
  BY <1>2, PutsAppend, AppendProperties
<1> QED
  BY <1>1, <1>3

\* login$ asks for a record: at most a listen joins the queue.
LEMMA OnceStep ==
    ASSUME IInv, NEW d \in Devices, NEW m \in Members, Once(d, m)
    PROVE  IInv'
<1>1. PICK dk, pt, hd, c, u, dn : Queues(d, dk, pt, hd, c, u, dn)
  BY DEF Queues
<1>2. /\ Typed(dk, pt, hd, c, u, dn)
      /\ \A w \in ToSet(dk) \cup ToSet(pt) \cup PutsOf(u) : Made(w, joined)
      /\ ~stranded => QueueOK(dk, pt, hd, c, u, dn)
  BY <1>1, DeviceFacts
<1>3. PICK v : v = IF c THEN Append(u, Listen(m)) ELSE u
  OBVIOUS
<1>4. v \in Seq(Requests) /\ PutsOf(v) = PutsOf(u)
  BY <1>2, <1>3, SendListen DEF Typed
<1>5. up' = [up EXCEPT ![d] = v] /\ up'[d] = v
  BY <1>1, <1>3 DEF Once, Send, Queues, IInv, TypeOK
<1>6. TypeOK'
  <2>1. up' \in [Devices -> Seq(Requests)]
    BY <1>4, <1>5 DEF IInv, TypeOK
  <2>2. login' \in [Devices -> Logins]
    <3>1. PICK found \in BOOLEAN : found = (View(d)[m] # Nothing)
      OBVIOUS
    <3>2. login' = [login EXCEPT ![d] = IF Complete(d, m) THEN Answered(m, found) ELSE Waiting(m)]
      BY <3>1 DEF Once
    <3> QED
      BY <3>2, LoginStates DEF IInv, TypeOK
  <2> QED
    BY <2>1, <2>2 DEF IInv, TypeOK, Once, clientVars
<1>7. ~stranded' => QueueOK(disk'[d], puts'[d], held'[d], conn'[d], up'[d], down'[d])
  <2>1. ~stranded => QueueOK(dk, pt, hd, c, v, dn)
    BY <1>2, <1>3, ListenQueues
  <2> QED
    BY <1>1, <1>5, <2>1 DEF Once, Queues, clientVars
<1>8. OthersKept(d)
  BY <1>5 DEF Once, OthersKept, clientVars, IInv, TypeOK
<1>9. \A w \in Pending(d)' : Made(w, joined')
  BY <1>1, <1>2, <1>4, <1>5 DEF Once, clientVars, Pending, Queues
<1>10. ~stranded' /\ Devices = {d} =>
         Consistent(Taken(ToSet(disk'[d])), Taken(PutsOf(held'[d]) \cup PutsOf(down'[d])), server', intended')
  BY DEF Once, clientVars, IInv, ValuesInv
<1>11. joined \subseteq joined' /\ (stranded => stranded')
  BY DEF Once
<1> QED
  BY <1>6, <1>7, <1>8, <1>9, <1>10, <1>11, DeviceStep

\* login$ found a record: the queues stay as they are.
LEMMA OnFoundStep ==
    ASSUME IInv, NEW d \in Devices, OnFound(d)
    PROVE  IInv'
<1>1. TypeOK'
  BY DEF IInv, TypeOK, OnFound, clientVars, netVars, Logins
<1> QED
  BY <1>1, QuietStep DEF OnFound

\* ecdRedirect$ found a record: the queues stay as they are.
LEMMA RedirectStep ==
    ASSUME IInv, NEW d \in Devices, NEW m \in Members, Redirect(d, m)
    PROVE  IInv'
<1>1. TypeOK'
  BY DEF IInv, TypeOK, Redirect, clientVars, netVars
<1> QED
  BY <1>1, QuietStep DEF Redirect

\* A set: the write is typed, is made by a member who joined, and is numbered last.
LEMMA SetStep ==
    ASSUME IInv, NEW d \in Devices, NEW w, Set(d, w),
           w = [id |-> w.id, all |-> w.all, member |-> w.member, pair |-> w.pair],
           w.id = NextId(d), w.all \in BOOLEAN, w.member \in Members, w.pair \in {0} \cup Pairs,
           joined \subseteq joined', joined' \subseteq Members, Made(w, joined'),
           login' \in [Devices -> Logins], chain' \in [Devices -> Members \cup {Nothing}],
           pairs' \in 0..MaxPairs
    PROVE  IInv'
<1>1. PICK dk, pt, hd, c, u, dn : Queues(d, dk, pt, hd, c, u, dn)
  BY DEF Queues
<1>2. /\ Typed(dk, pt, hd, c, u, dn)
      /\ \A x \in ToSet(dk) \cup ToSet(pt) \cup PutsOf(u) : Made(x, joined)
      /\ ~stranded => QueueOK(dk, pt, hd, c, u, dn)
      /\ Devices = {d} /\ ~stranded =>
           Consistent(Taken(ToSet(dk)), Taken(PutsOf(hd) \cup PutsOf(dn)), server, intended)
  BY <1>1, DeviceFacts
<1>3. w \in Writes
  BY DEF Set, Writes
<1>4. PICK v : v = IF c THEN Append(u, Put(w)) ELSE u
  OBVIOUS
<1>5. v \in Seq(Requests) /\ PutsOf(v) \subseteq PutsOf(u) \cup {w}
  <2>1. PICK x : x = Put(w)
    OBVIOUS
  <2>2. x \in Requests /\ ~IsListen(x) /\ x.write = w /\ u \in Seq(Requests)
    BY <1>2, <1>3, <2>1 DEF Put, Requests, IsListen, Typed
  <2>3. PutsOf(Append(u, x)) = PutsOf(u) \cup {w}
    BY <2>2, PutsAppend, ZenonT(60)
  <2>4. Append(u, x) \in Seq(Requests)
    BY <2>2, AppendProperties
  <2> QED
    BY <1>4, <2>1, <2>2, <2>3, <2>4
<1>6. up' = [up EXCEPT ![d] = v] /\ up'[d] = v
  BY <1>1, <1>4 DEF Set, Send, Queues, IInv, TypeOK
<1>7. /\ disk' = [disk EXCEPT ![d] = Append(dk, w)] /\ disk'[d] = Append(dk, w)
      /\ puts' = [puts EXCEPT ![d] = Append(pt, w)] /\ puts'[d] = Append(pt, w)
  BY <1>1 DEF Set, Queues, IInv, TypeOK
<1>8. /\ Append(dk, w) \in Seq(Writes) /\ ToSet(Append(dk, w)) = ToSet(dk) \cup {w}
      /\ Append(pt, w) \in Seq(Writes) /\ ToSet(Append(pt, w)) = ToSet(pt) \cup {w}
  BY <1>2, <1>3, OneMore DEF Typed
<1>9. PICK t : t = intended
  OBVIOUS
<1>10. t \in [Members -> Records] /\ Apply(t, w) \in [Members -> Records]
  <2>1. t \in [Members -> Records]
    BY <1>9 DEF IInv, TypeOK
  <2> QED
    BY <1>3, <2>1, ApplyIs
<1>11. intended' = IF w.member \in Denied THEN t ELSE Apply(t, w)
  BY <1>9 DEF Set
<1>12. TypeOK'
  <2>1. /\ intended' \in [Members -> Records]
        /\ disk' \in [Devices -> Seq(Writes)] /\ puts' \in [Devices -> Seq(Writes)]
        /\ up' \in [Devices -> Seq(Requests)]
    BY <1>5, <1>6, <1>7, <1>8, <1>10, <1>11 DEF IInv, TypeOK
  <2> QED
    BY <2>1 DEF IInv, TypeOK, Set
<1>13. ~stranded => Before(ToSet(dk), {w})
  <2>1. w.id = IF dk = <<>> THEN 1 ELSE Last(dk).id + 1
    BY <1>1 DEF NextId, Queues
  <2>2. dk \in Seq(Writes) /\ (~stranded => Ordered(dk))
    BY <1>2 DEF Typed, QueueOK
  <2> QED
    BY <1>3, <2>1, <2>2, NewestOnDisk
<1>14. ~stranded' => QueueOK(disk'[d], puts'[d], held'[d], conn'[d], up'[d], down'[d])
  <2>1. ~stranded => QueueOK(Append(dk, w), Append(pt, w), hd, c, v, dn)
    BY <1>2, <1>3, <1>4, <1>13, SetQueues
  <2> QED
    BY <1>1, <1>6, <1>7, <2>1 DEF Set, Queues
<1>15. OthersKept(d)
  BY <1>6, <1>7 DEF Set, OthersKept, IInv, TypeOK
<1>16. \A x \in Pending(d)' : Made(x, joined')
  <2>1. \A x \in Pending(d)' : x = w \/ x \in ToSet(dk) \cup ToSet(pt) \cup PutsOf(u)
    BY <1>5, <1>6, <1>7, <1>8 DEF Pending
  <2>2. \A x : Made(x, joined) => Made(x, joined')
    BY DEF Made
  <2> QED
    BY <1>2, <2>1, <2>2
<1>17. ~stranded' /\ Devices = {d} =>
         Consistent(Taken(ToSet(disk'[d])), Taken(PutsOf(held'[d]) \cup PutsOf(down'[d])), server', intended')
  <2> SUFFICES ASSUME ~stranded, Devices = {d}
               PROVE  Consistent(Taken(ToSet(dk) \cup {w}), Taken(PutsOf(hd) \cup PutsOf(dn)), server, intended')
    BY <1>1, <1>7, <1>8 DEF Set, Queues
  <2>1. PICK s, D, E : /\ s = server /\ D = Taken(ToSet(dk)) /\ E = Taken(PutsOf(hd) \cup PutsOf(dn))
    OBVIOUS
  <2>2. Consistent(D, E, s, t)
    BY <1>2, <1>9, <2>1
  <2>3. CASE w.member \in Denied
    <3>1. Taken(ToSet(dk) \cup {w}) = D
      BY <2>1, <2>3 DEF Taken
    <3> QED
      BY <1>11, <2>1, <2>2, <2>3, <3>1
  <2>4. CASE w.member \notin Denied
    <3>1. Taken(ToSet(dk) \cup {w}) = D \cup {w}
      BY <2>1, <2>4 DEF Taken
    <3>2. D \in SUBSET Writes /\ E \in SUBSET D /\ Before(D, {w}) /\ s \in [Members -> Records]
      <4>1. ToSet(dk) \subseteq Writes
        BY <1>2, QueuesHoldWrites DEF Typed
      <4>2. PutsOf(hd) \cup PutsOf(dn) \subseteq ToSet(dk)
        BY <1>2, ExecutedOnDisk DEF Typed
      <4>3. s \in [Members -> Records]
        BY <2>1 DEF IInv, TypeOK
      <4> QED
        BY <1>13, <2>1, <4>1, <4>2, <4>3 DEF Taken, Before
    <3>3. Consistent(D \cup {w}, E, s, Apply(t, w))
      BY <1>3, <1>10, <2>2, <3>2, MakeKeeps
    <3> QED
      BY <1>11, <2>1, <2>4, <3>1, <3>3
  <2> QED
    BY <2>3, <2>4
<1>18. stranded => stranded'
  BY DEF Set
<1> QED
  BY <1>12, <1>14, <1>15, <1>16, <1>17, <1>18, DeviceStep

\* login$ makes the first record: its member joins with the write.
LEMMA OnMissingStep ==
    ASSUME IInv, NEW d \in Devices, OnMissing(d)
    PROVE  IInv'
<1>1. login[d].member \in Members
  <2>1. login[d] \in Logins /\ login[d].stage = "missing"
    BY DEF OnMissing, IInv, TypeOK
  <2> QED
    BY <2>1 DEF Logins, NoLogin
<1>2. PICK w : w = FirstRecord(d)
  OBVIOUS
<1>3. /\ w = [id |-> w.id, all |-> w.all, member |-> w.member, pair |-> w.pair]
      /\ w.id = NextId(d) /\ w.all /\ w.all \in BOOLEAN /\ w.member = login[d].member /\ w.pair = 0
  BY <1>2 DEF FirstRecord
<1>4. Set(d, w)
  BY <1>2 DEF OnMissing
<1>5. /\ joined' = joined \cup {w.member} /\ joined \subseteq Members
      /\ login' \in [Devices -> Logins] /\ chain' \in [Devices -> Members \cup {Nothing}]
      /\ pairs' \in 0..MaxPairs
  BY <1>3 DEF OnMissing, IInv, TypeOK, Logins
<1>6. joined \subseteq joined' /\ joined' \subseteq Members /\ Made(w, joined')
  BY <1>1, <1>3, <1>5 DEF Made
<1> QED
  BY <1>1, <1>3, <1>4, <1>5, <1>6, SetStep

\* ecdRedirect$ stores a pair: the write leaves a pair in the record.
LEMMA StorePairStep ==
    ASSUME IInv, NEW d \in Devices, StorePair(d)
    PROVE  IInv'
<1>1. chain[d] \in Members /\ pairs + 1 \in Pairs /\ pairs + 1 \in 0..MaxPairs
  BY DirectoryAssumption DEF StorePair, IInv, TypeOK, Pairs
<1>2. PICK w : w = [id |-> NextId(d), all |-> FALSE, member |-> chain[d], pair |-> pairs + 1]
  OBVIOUS
<1>3. /\ w = [id |-> w.id, all |-> w.all, member |-> w.member, pair |-> w.pair]
      /\ w.id = NextId(d) /\ ~w.all /\ w.all \in BOOLEAN /\ w.member = chain[d] /\ w.pair = pairs + 1
  BY <1>2
<1>4. Set(d, w)
  BY <1>2 DEF StorePair
<1>5. /\ joined' = joined /\ joined \subseteq Members
      /\ login' \in [Devices -> Logins] /\ chain' \in [Devices -> Members \cup {Nothing}]
      /\ pairs' \in 0..MaxPairs
  BY <1>1 DEF StorePair, IInv, TypeOK
<1>6. joined \subseteq joined' /\ joined' \subseteq Members /\ Made(w, joined')
  BY <1>1, <1>3, <1>5 DEF Made
<1> QED
  BY <1>1, <1>3, <1>4, <1>5, <1>6, SetStep

-----------------------------------------------------------------------------
\* The connection.

\* restoreState sends what is outstanding, all over again.
LEMMA ConnectStep ==
    ASSUME IInv, NEW d \in Devices, Connect(d)
    PROVE  IInv'
<1>1. PICK dk, pt, hd, c, u, dn : Queues(d, dk, pt, hd, c, u, dn)
  BY DEF Queues
<1>2. /\ Typed(dk, pt, hd, c, u, dn)
      /\ \A w \in ToSet(dk) \cup ToSet(pt) \cup PutsOf(u) : Made(w, joined)
      /\ ~stranded => QueueOK(dk, pt, hd, c, u, dn)
  BY <1>1, DeviceFacts
<1>3. PICK l : l = IF login[d].stage = "once" THEN <<Listen(login[d].member)>> ELSE <<>>
  OBVIOUS
<1>4. l \in Seq(Requests) /\ Len(l) <= 1 /\ PutsOf(l) = {}
  <2>1. CASE login[d].stage = "once"
    <3>1. login[d].member \in Members
      <4>1. login[d] \in Logins
        BY DEF IInv, TypeOK
      <4> QED
        BY <2>1, <4>1 DEF Logins, NoLogin
    <3>2. PICK x : x = Listen(login[d].member)
      OBVIOUS
    <3>3. x \in Requests /\ IsListen(x)
      BY <3>1, <3>2 DEF Listen, Requests, IsListen
    <3>4. l = <<x>>
      BY <1>3, <2>1, <3>2
    <3> QED
      BY <3>3, <3>4 DEF PutsOf
  <2>2. CASE login[d].stage # "once"
    BY <1>3, <2>2, QueuesHoldWrites
  <2> QED
    BY <2>1, <2>2
<1>5. PICK v : v = l \o [i \in 1..Len(pt) |-> Put(pt[i])]
  OBVIOUS
<1>6. v \in Seq(Requests) /\ PutsOf(v) = ToSet(pt) /\ (Ordered(pt) => PutsOrdered(v))
  BY <1>2, <1>4, <1>5, PutsRestored DEF Typed
<1>7. /\ up' = [up EXCEPT ![d] = v] /\ up'[d] = v
      /\ conn' = [conn EXCEPT ![d] = TRUE] /\ conn'[d] = TRUE /\ c = FALSE
  <2>1. up' = [up EXCEPT ![d] = v] /\ conn' = [conn EXCEPT ![d] = TRUE]
    BY <1>1, <1>3, <1>5 DEF Connect, Queues
  <2> QED
    BY <1>1, <2>1 DEF Connect, Queues, IInv, TypeOK
<1>8. TypeOK'
  <2>1. up' \in [Devices -> Seq(Requests)] /\ conn' \in [Devices -> BOOLEAN]
    BY <1>6, <1>7 DEF IInv, TypeOK
  <2> QED
    BY <2>1 DEF IInv, TypeOK, Connect, clientVars, appVars
<1>9. ~stranded' => QueueOK(disk'[d], puts'[d], held'[d], conn'[d], up'[d], down'[d])
  <2>1. ASSUME ~stranded
        PROVE  QueueOK(dk, pt, hd, TRUE, v, dn)
    <3>1. QueueOK(dk, pt, hd, FALSE, u, dn) /\ Typed(dk, pt, hd, FALSE, u, dn)
      BY <1>2, <1>7, <2>1
    <3>2. PutsOrdered(v)
      BY <1>6, <3>1 DEF QueueOK
    <3> QED
      BY <1>6, <3>1, <3>2, ConnectQueues
  <2> QED
    BY <1>1, <1>7, <2>1 DEF Connect, Queues, clientVars
<1>10. OthersKept(d)
  BY <1>7 DEF Connect, OthersKept, clientVars, IInv, TypeOK
<1>11. \A w \in Pending(d)' : Made(w, joined')
  BY <1>1, <1>2, <1>6, <1>7 DEF Connect, clientVars, Pending, Queues
<1>12. ~stranded' /\ Devices = {d} =>
         Consistent(Taken(ToSet(disk'[d])), Taken(PutsOf(held'[d]) \cup PutsOf(down'[d])), server', intended')
  BY DEF Connect, clientVars, IInv, ValuesInv
<1>13. joined \subseteq joined' /\ (stranded => stranded')
  BY DEF Connect
<1> QED
  BY <1>8, <1>9, <1>10, <1>11, <1>12, <1>13, DeviceStep

\* onDisconnect: what was held back is stranded, or there was nothing.
LEMMA DisconnectStep ==
    ASSUME IInv, NEW d \in Devices, Disconnect(d)
    PROVE  IInv'
<1>1. PICK dk, pt, hd, c, u, dn : Queues(d, dk, pt, hd, c, u, dn)
  BY DEF Queues
<1>2. /\ Typed(dk, pt, hd, c, u, dn)
      /\ \A w \in ToSet(dk) \cup ToSet(pt) \cup PutsOf(u) : Made(w, joined)
      /\ ~stranded => QueueOK(dk, pt, hd, c, u, dn)
      /\ Devices = {d} /\ ~stranded =>
           Consistent(Taken(ToSet(dk)), Taken(PutsOf(hd) \cup PutsOf(dn)), server, intended)
  BY <1>1, DeviceFacts
<1>3. /\ conn' = [conn EXCEPT ![d] = FALSE] /\ conn'[d] = FALSE
      /\ up' = [up EXCEPT ![d] = <<>>] /\ up'[d] = <<>>
      /\ down' = [down EXCEPT ![d] = <<>>] /\ down'[d] = <<>>
      /\ ~stranded' => ~stranded /\ hd = <<>>
  BY <1>1 DEF Disconnect, CutOff, Queues, IInv, TypeOK
<1>4. TypeOK'
  <2>1. up' \in [Devices -> Seq(Requests)] /\ down' \in [Devices -> Seq(Answers)] /\ conn' \in [Devices -> BOOLEAN]
    BY <1>3 DEF IInv, TypeOK
  <2> QED
    BY <2>1 DEF IInv, TypeOK, Disconnect, clientVars, appVars
<1>5. ~stranded' => QueueOK(disk'[d], puts'[d], held'[d], conn'[d], up'[d], down'[d])
  <2>1. ~stranded' => QueueOK(dk, pt, hd, FALSE, <<>>, <<>>)
    BY <1>2, <1>3, CutQueues
  <2> QED
    BY <1>1, <1>3, <2>1 DEF Disconnect, Queues, clientVars
<1>6. OthersKept(d)
  BY <1>3 DEF Disconnect, OthersKept, clientVars, IInv, TypeOK
<1>7. \A w \in Pending(d)' : Made(w, joined')
  BY <1>1, <1>2, <1>3, QueuesHoldWrites DEF Disconnect, clientVars, Pending, Queues
<1>8. ~stranded' /\ Devices = {d} =>
         Consistent(Taken(ToSet(disk'[d])), Taken(PutsOf(held'[d]) \cup PutsOf(down'[d])), server', intended')
  <2> SUFFICES ASSUME ~stranded', Devices = {d}
               PROVE  Consistent(Taken(ToSet(dk)), Taken(PutsOf(hd) \cup PutsOf(<<>>)), server, intended)
    BY <1>1, <1>3 DEF Disconnect, Queues, clientVars
  <2>1. Taken(PutsOf(hd) \cup PutsOf(<<>>)) = {}
    BY <1>3, QueuesHoldWrites DEF Taken
  <2>2. PICK s, t, D, E : /\ s = server /\ t = intended /\ D = Taken(ToSet(dk))
                          /\ E = Taken(PutsOf(hd) \cup PutsOf(dn))
    OBVIOUS
  <2>3. Consistent(D, {}, s, t)
    BY <1>2, <1>3, <2>2, ForgetKeeps
  <2> QED
    BY <2>1, <2>2, <2>3
<1>9. joined \subseteq joined' /\ (stranded => stranded')
  BY DEF Disconnect
<1> QED
  BY <1>4, <1>5, <1>6, <1>7, <1>8, <1>9, DeviceStep

\* restoreWrites: what is on disk is outstanding again, held back or not.
LEMMA RestartStep ==
    ASSUME IInv, NEW d \in Devices, Restart(d)
    PROVE  IInv'
<1>1. PICK dk, pt, hd, c, u, dn : Queues(d, dk, pt, hd, c, u, dn)
  BY DEF Queues
<1>2. /\ Typed(dk, pt, hd, c, u, dn)
      /\ \A w \in ToSet(dk) \cup ToSet(pt) \cup PutsOf(u) : Made(w, joined)
      /\ ~stranded => QueueOK(dk, pt, hd, c, u, dn)
      /\ Devices = {d} /\ ~stranded =>
           Consistent(Taken(ToSet(dk)), Taken(PutsOf(hd) \cup PutsOf(dn)), server, intended)
  BY <1>1, DeviceFacts
<1>3. /\ conn' = [conn EXCEPT ![d] = FALSE] /\ conn'[d] = FALSE
      /\ up' = [up EXCEPT ![d] = <<>>] /\ up'[d] = <<>>
      /\ down' = [down EXCEPT ![d] = <<>>] /\ down'[d] = <<>>
      /\ puts' = [puts EXCEPT ![d] = dk] /\ puts'[d] = dk
      /\ held' = [held EXCEPT ![d] = <<>>] /\ held'[d] = <<>>
  BY <1>1 DEF Restart, CutOff, Queues, IInv, TypeOK
<1>4. TypeOK'
  <2>1. /\ up' \in [Devices -> Seq(Requests)] /\ down' \in [Devices -> Seq(Answers)]
        /\ conn' \in [Devices -> BOOLEAN] /\ held' \in [Devices -> Seq(Acks)]
    BY <1>3 DEF IInv, TypeOK
  <2>2. puts' \in [Devices -> Seq(Writes)]
    BY <1>2, <1>3 DEF IInv, TypeOK, Typed
  <2>3. login' \in [Devices -> Logins] /\ chain' \in [Devices -> Members \cup {Nothing}]
    BY DEF Restart, IInv, TypeOK, Logins
  <2> QED
    BY <2>1, <2>2, <2>3 DEF IInv, TypeOK, Restart
<1>5. ~stranded' => QueueOK(disk'[d], puts'[d], held'[d], conn'[d], up'[d], down'[d])
  <2>1. ~stranded => QueueOK(dk, dk, <<>>, FALSE, <<>>, <<>>)
    BY <1>2, CutQueues
  <2> QED
    BY <1>1, <1>3, <2>1 DEF Restart, Queues
<1>6. OthersKept(d)
  BY <1>3 DEF Restart, OthersKept, IInv, TypeOK
<1>7. \A w \in Pending(d)' : Made(w, joined')
  BY <1>1, <1>2, <1>3, QueuesHoldWrites DEF Restart, Pending, Queues
<1>8. ~stranded' /\ Devices = {d} =>
         Consistent(Taken(ToSet(disk'[d])), Taken(PutsOf(held'[d]) \cup PutsOf(down'[d])), server', intended')
  <2> SUFFICES ASSUME ~stranded, Devices = {d}
               PROVE  Consistent(Taken(ToSet(dk)), Taken(PutsOf(<<>>) \cup PutsOf(<<>>)), server, intended)
    BY <1>1, <1>3 DEF Restart, Queues
  <2>1. Taken(PutsOf(<<>>) \cup PutsOf(<<>>)) = {}
    BY QueuesHoldWrites DEF Taken
  <2>2. PICK s, t, D, E : /\ s = server /\ t = intended /\ D = Taken(ToSet(dk))
                          /\ E = Taken(PutsOf(hd) \cup PutsOf(dn))
    OBVIOUS
  <2>3. Consistent(D, {}, s, t)
    BY <1>2, <2>2, ForgetKeeps
  <2> QED
    BY <2>1, <2>2, <2>3
<1>9. joined \subseteq joined' /\ (stranded => stranded')
  BY DEF Restart
<1> QED
  BY <1>4, <1>5, <1>6, <1>7, <1>8, <1>9, DeviceStep

-----------------------------------------------------------------------------
\* The messages.

\* What the server makes of a request.
LEMMA ExecuteIs ==
    ASSUME IInv, NEW d \in Devices, Execute(d)
    PROVE  \E h \in Requests, a \in Answers :
             /\ up[d] # <<>> /\ h = Head(up[d])
             /\ IsListen(a) <=> IsListen(h)
             /\ ~IsListen(h) => a.write = h.write
             /\ server' = IF ~IsListen(h) /\ h.write.member \notin Denied THEN Apply(server, h.write) ELSE server
             /\ down' = [down EXCEPT ![d] = Append(down[d], a)]
             /\ up' = [up EXCEPT ![d] = Tail(up[d])]
<1>1. up[d] \in Seq(Requests) /\ up[d] # <<>>
  BY DEF IInv, TypeOK, Execute
<1>2. PICK h \in Requests : h = Head(up[d])
  BY <1>1, HeadTailProperties
<1>3. PICK ok \in BOOLEAN : ok = (~IsListen(h) /\ h.write.member \notin Denied)
  OBVIOUS
<1>4. PICK a : a = IF IsListen(h)
                     THEN [type |-> "listen", member |-> h.member, record |-> server[h.member]]
                     ELSE [type |-> "put", write |-> h.write, ok |-> ok]
  OBVIOUS
<1>5. a \in Answers /\ (IsListen(a) <=> IsListen(h)) /\ (~IsListen(h) => a.write = h.write)
  <2>1. CASE IsListen(h)
    <3>1. h.member \in Members /\ server[h.member] \in Records
      BY <2>1 DEF Requests, IsListen, IInv, TypeOK
    <3> QED
      BY <1>4, <2>1, <3>1 DEF Answers, IsListen
  <2>2. CASE ~IsListen(h)
    <3>1. h.write \in Writes
      BY <2>2 DEF Requests, IsListen
    <3>2. a = [type |-> "put", write |-> h.write, ok |-> ok]
      BY <1>4, <2>2
    <3> QED
      BY <2>2, <3>1, <3>2 DEF Answers, Acks, IsListen
  <2> QED
    BY <2>1, <2>2
<1>6. /\ server' = IF ~IsListen(h) /\ h.write.member \notin Denied THEN Apply(server, h.write) ELSE server
      /\ down' = [down EXCEPT ![d] = Append(down[d], a)]
      /\ up' = [up EXCEPT ![d] = Tail(up[d])]
  BY <1>2, <1>3, <1>4 DEF Execute
<1> QED
  BY <1>1, <1>2, <1>5, <1>6

\* The server executes the oldest request of a connection.
LEMMA ExecuteStep ==
    ASSUME IInv, NEW d \in Devices, Execute(d)
    PROVE  IInv'
<1>1. PICK dk, pt, hd, c, u, dn : Queues(d, dk, pt, hd, c, u, dn)
  BY DEF Queues
<1>2. /\ Typed(dk, pt, hd, c, u, dn)
      /\ \A w \in ToSet(dk) \cup ToSet(pt) \cup PutsOf(u) : Made(w, joined)
      /\ ~stranded => QueueOK(dk, pt, hd, c, u, dn)
      /\ Devices = {d} /\ ~stranded =>
           Consistent(Taken(ToSet(dk)), Taken(PutsOf(hd) \cup PutsOf(dn)), server, intended)
  BY <1>1, DeviceFacts
<1>3. PICK h \in Requests, a \in Answers :
             /\ up[d] # <<>> /\ h = Head(up[d])
             /\ IsListen(a) <=> IsListen(h)
             /\ ~IsListen(h) => a.write = h.write
             /\ server' = IF ~IsListen(h) /\ h.write.member \notin Denied THEN Apply(server, h.write) ELSE server
             /\ down' = [down EXCEPT ![d] = Append(down[d], a)]
             /\ up' = [up EXCEPT ![d] = Tail(up[d])]
  BY ExecuteIs
<1>4. u # <<>> /\ h = Head(u)
  BY <1>1, <1>3 DEF Queues
<1>5. /\ up' = [up EXCEPT ![d] = Tail(u)] /\ up'[d] = Tail(u)
      /\ down' = [down EXCEPT ![d] = Append(dn, a)] /\ down'[d] = Append(dn, a)
  BY <1>1, <1>3 DEF Queues, IInv, TypeOK
<1>6. /\ Tail(u) \in Seq(Requests) /\ Append(dn, a) \in Seq(Answers)
      /\ PutsOf(u) = PutsOf(Tail(u)) \cup (IF IsListen(h) THEN {} ELSE {h.write})
  <2>1. u \in Seq(Requests) /\ dn \in Seq(Answers)
    BY <1>2 DEF Typed
  <2>2. Tail(u) \in Seq(Requests)
    BY <1>4, <2>1, HeadTailProperties
  <2>3. Append(dn, a) \in Seq(Answers)
    BY <2>1, AppendProperties
  <2>4. PutsOf(u) = PutsOf(Tail(u)) \cup (IF IsListen(h) THEN {} ELSE {h.write})
    BY <1>4, <2>1, PutsTail
  <2> QED
    BY <2>2, <2>3, <2>4
<1>7. PICK s : s = server
  OBVIOUS
<1>8. s \in [Members -> Records] /\ (~IsListen(h) => h.write \in Writes /\ Apply(s, h.write) \in [Members -> Records])
  <2>1. s \in [Members -> Records]
    BY <1>7 DEF IInv, TypeOK
  <2>2. ~IsListen(h) => h.write \in Writes
    BY DEF Requests, IsListen
  <2> QED
    BY <2>1, <2>2, ApplyIs
<1>9. TypeOK'
  <2>1. server' \in [Members -> Records]
    BY <1>3, <1>7, <1>8
  <2>2. up' \in [Devices -> Seq(Requests)] /\ down' \in [Devices -> Seq(Answers)]
    BY <1>5, <1>6 DEF IInv, TypeOK
  <2> QED
    BY <2>1, <2>2 DEF IInv, TypeOK, Execute, clientVars, appVars
<1>10. ~stranded =>
          /\ QueueOK(dk, pt, hd, c, Tail(u), Append(dn, a))
          /\ PutsOf(Append(dn, a)) = PutsOf(dn) \cup (IF IsListen(a) THEN {} ELSE {a.write})
          /\ ~IsListen(a) => a.write \in ToSet(dk) /\ Before(PutsOf(hd) \cup PutsOf(dn), {a.write})
  <2>1. (IsListen(a) <=> IsListen(Head(u))) /\ (~IsListen(a) => a.write = Head(u).write)
    BY <1>3, <1>4
  <2> SUFFICES ASSUME ~stranded
               PROVE  /\ QueueOK(dk, pt, hd, c, Tail(u), Append(dn, a))
                      /\ PutsOf(Append(dn, a)) = PutsOf(dn) \cup (IF IsListen(a) THEN {} ELSE {a.write})
                      /\ ~IsListen(a) => a.write \in ToSet(dk) /\ Before(PutsOf(hd) \cup PutsOf(dn), {a.write})
    OBVIOUS
  <2>2. QueueOK(dk, pt, hd, c, u, dn)
    BY <1>2
  <2> QED
    BY <1>2, <1>4, <2>1, <2>2, ExecuteQueues
<1>11. ~stranded' => QueueOK(disk'[d], puts'[d], held'[d], conn'[d], up'[d], down'[d])
  BY <1>1, <1>5, <1>10 DEF Execute, Queues, clientVars
<1>12. OthersKept(d)
  BY <1>5 DEF Execute, OthersKept, clientVars, IInv, TypeOK
<1>13. \A w \in Pending(d)' : Made(w, joined')
  BY <1>1, <1>2, <1>5, <1>6 DEF Execute, clientVars, Pending, Queues
<1>14. ~stranded' /\ Devices = {d} =>
         Consistent(Taken(ToSet(disk'[d])), Taken(PutsOf(held'[d]) \cup PutsOf(down'[d])), server', intended')
  <2> SUFFICES ASSUME ~stranded, Devices = {d}
               PROVE  Consistent(Taken(ToSet(dk)), Taken(PutsOf(hd) \cup PutsOf(Append(dn, a))), server', intended)
    BY <1>1, <1>5 DEF Execute, Queues, clientVars
  <2>1. PICK t, D, E : /\ t = intended /\ D = Taken(ToSet(dk)) /\ E = Taken(PutsOf(hd) \cup PutsOf(dn))
    OBVIOUS
  <2>2. Consistent(D, E, s, t)
    BY <1>2, <1>7, <2>1
  <2>3. CASE ~IsListen(h) /\ h.write.member \notin Denied
    <3>1. PICK w : w = h.write
      OBVIOUS
    <3>2. /\ w \in ToSet(dk) /\ Before(PutsOf(hd) \cup PutsOf(dn), {w})
          /\ PutsOf(Append(dn, a)) = PutsOf(dn) \cup {w}
      BY <1>3, <1>10, <2>3, <3>1
    <3>3. Taken(PutsOf(hd) \cup PutsOf(Append(dn, a))) = E \cup {w}
      BY <2>1, <2>3, <3>1, <3>2 DEF Taken
    <3>4. D \in SUBSET Writes /\ E \in SUBSET D /\ w \in D /\ Before(E, {w})
      <4>1. ToSet(dk) \subseteq Writes
        BY <1>2, QueuesHoldWrites DEF Typed
      <4>2. PutsOf(hd) \cup PutsOf(dn) \subseteq ToSet(dk)
        BY <1>2, ExecutedOnDisk DEF Typed
      <4> QED
        BY <2>1, <2>3, <3>1, <3>2, <4>1, <4>2 DEF Taken, Before
    <3>5. t \in [Members -> Records]
      BY <2>1 DEF IInv, TypeOK
    <3>6. Consistent(D, E \cup {w}, Apply(s, w), t)
      BY <1>8, <2>2, <3>4, <3>5, ExecuteKeeps
    <3> QED
      BY <1>3, <1>7, <2>1, <2>3, <3>1, <3>3, <3>6
  <2>4. CASE ~(~IsListen(h) /\ h.write.member \notin Denied)
    <3>1. Taken(PutsOf(hd) \cup PutsOf(Append(dn, a))) = E
      BY <1>3, <1>10, <2>1, <2>4 DEF Taken
    <3> QED
      BY <1>3, <1>7, <2>1, <2>2, <2>4, <3>1
  <2> QED
    BY <2>3, <2>4
<1>15. joined \subseteq joined' /\ (stranded => stranded')
  BY DEF Execute
<1> QED
  BY <1>9, <1>11, <1>12, <1>13, <1>14, <1>15, DeviceStep

\* Settled writes leave the records alone.
LEMMA SettleTaken ==
    ASSUME NEW dk, NEW pt, NEW hd, NEW c, NEW u, NEW dn, Typed(dk, pt, hd, c, u, dn),
           QueueOK(dk, pt, hd, c, u, dn), NEW R \in SUBSET (PutsOf(hd) \cup PutsOf(dn)),
           Before(R, ToSet(dk) \ R), NEW s, NEW t,
           Consistent(Taken(ToSet(dk)), Taken(PutsOf(hd) \cup PutsOf(dn)), s, t)
    PROVE  Consistent(Taken(ToSet(dk) \ R), Taken((PutsOf(hd) \cup PutsOf(dn)) \ R), s, t)
<1>1. PICK D, E, Q : D = Taken(ToSet(dk)) /\ E = Taken(PutsOf(hd) \cup PutsOf(dn)) /\ Q = Taken(R)
  OBVIOUS
<1>2. ToSet(dk) \subseteq Writes /\ PutsOf(hd) \cup PutsOf(dn) \subseteq ToSet(dk)
  BY QueuesHoldWrites, ExecutedOnDisk DEF Typed
<1>3. D \in SUBSET Writes /\ E \in SUBSET D /\ Q \in SUBSET E /\ Before(Q, D \ Q)
  BY <1>1, <1>2 DEF Taken, Before
<1>4. Consistent(D \ Q, E \ Q, s, t)
  BY <1>1, <1>3, SettleKeeps
<1>5. Taken(ToSet(dk) \ R) = D \ Q /\ Taken((PutsOf(hd) \cup PutsOf(dn)) \ R) = E \ Q
  BY <1>1 DEF Taken
<1> QED
  BY <1>4, <1>5

\* The callback of sendPut, with a listen unanswered and without.
LEMMA OnAckStep ==
    ASSUME IInv, NEW d \in Devices, OnAck(d)
    PROVE  IInv'
<1>1. PICK dk, pt, hd, c, u, dn : Queues(d, dk, pt, hd, c, u, dn)
  BY DEF Queues
<1>2. /\ Typed(dk, pt, hd, c, u, dn)
      /\ \A w \in ToSet(dk) \cup ToSet(pt) \cup PutsOf(u) : Made(w, joined)
      /\ ~stranded => QueueOK(dk, pt, hd, c, u, dn)
      /\ Devices = {d} /\ ~stranded =>
           Consistent(Taken(ToSet(dk)), Taken(PutsOf(hd) \cup PutsOf(dn)), server, intended)
  BY <1>1, DeviceFacts
<1>3. PICK h : h = Head(dn)
  OBVIOUS
<1>4. PICK w : w = h.write
  OBVIOUS
<1>5. dn # <<>> /\ ~IsListen(h) /\ ~IsListen(Head(dn)) /\ Head(dn).write = w /\ h = Head(down[d])
  BY <1>1, <1>3, <1>4 DEF OnAck, Queues
<1>6. h \in Acks /\ Tail(dn) \in Seq(Answers)
  <2>1. dn \in Seq(Answers)
    BY <1>2 DEF Typed
  <2>2. h \in Answers /\ Tail(dn) \in Seq(Answers)
    BY <1>3, <1>5, <2>1, HeadTailProperties
  <2> QED
    BY <1>5, <2>2 DEF Answers, IsListen
<1>7. PICK rest, kept : rest = Without(pt, {w.id}) /\ kept = Without(dk, {w.id})
  OBVIOUS
<1>8. rest \in Seq(Writes) /\ kept \in Seq(Writes) /\ ToSet(rest) \subseteq ToSet(pt) /\ ToSet(kept) \subseteq ToSet(dk)
  BY <1>2, <1>7, WithoutKeeps DEF Typed
<1>9. /\ puts' = [puts EXCEPT ![d] = rest] /\ puts'[d] = rest
      /\ down' = [down EXCEPT ![d] = Tail(dn)] /\ down'[d] = Tail(dn)
  <2>1. puts' = [puts EXCEPT ![d] = rest] /\ down' = [down EXCEPT ![d] = Tail(dn)]
    BY <1>1, <1>4, <1>5, <1>7 DEF OnAck, Queues
  <2> QED
    BY <2>1 DEF IInv, TypeOK
<1>10. ListenUnanswered(d) <=> HasListen(u) \/ HasListen(dn)
  BY <1>1 DEF ListenUnanswered, HasListen, Queues
<1>11. joined \subseteq joined' /\ (stranded => stranded')
  BY DEF OnAck
<1>12. puts' \in [Devices -> Seq(Writes)] /\ down' \in [Devices -> Seq(Answers)]
  BY <1>6, <1>8, <1>9 DEF IInv, TypeOK
<1>13. CASE ListenUnanswered(d)
  <2>1. PICK v : v = Append(hd, h)
    OBVIOUS
  <2>2. held' = [held EXCEPT ![d] = v] /\ held'[d] = v /\ disk' = disk
    <3>1. held' = [held EXCEPT ![d] = v] /\ disk' = disk
      BY <1>1, <1>5, <1>13, <2>1 DEF OnAck, Queues
    <3> QED
      BY <3>1 DEF IInv, TypeOK
  <2>3. v \in Seq(Acks)
    BY <1>2, <1>6, <2>1, AppendProperties DEF Typed
  <2>4. TypeOK'
    <3>1. held' \in [Devices -> Seq(Acks)]
      BY <2>2, <2>3 DEF IInv, TypeOK
    <3> QED
      BY <1>12, <2>2, <3>1 DEF IInv, TypeOK, OnAck, appVars
  <2>5. ~stranded => /\ QueueOK(dk, rest, v, c, u, Tail(dn))
                     /\ PutsOf(v) \cup PutsOf(Tail(dn)) = PutsOf(hd) \cup PutsOf(dn)
    BY <1>2, <1>3, <1>5, <1>7, <1>10, <1>13, <2>1, HoldQueues
  <2>6. ~stranded' => QueueOK(disk'[d], puts'[d], held'[d], conn'[d], up'[d], down'[d])
    BY <1>1, <1>9, <2>2, <2>5 DEF OnAck, Queues
  <2>7. OthersKept(d)
    BY <1>9, <2>2 DEF OnAck, OthersKept, IInv, TypeOK
  <2>8. \A x \in Pending(d)' : Made(x, joined')
    BY <1>1, <1>2, <1>8, <1>9, <2>2 DEF OnAck, Pending, Queues
  <2>9. ~stranded' /\ Devices = {d} =>
          Consistent(Taken(ToSet(disk'[d])), Taken(PutsOf(held'[d]) \cup PutsOf(down'[d])), server', intended')
    BY <1>1, <1>2, <1>9, <2>2, <2>5 DEF OnAck, Queues
  <2> QED
    BY <1>11, <2>4, <2>6, <2>7, <2>8, <2>9, DeviceStep
<1>14. CASE ~ListenUnanswered(d)
  <2>1. disk' = [disk EXCEPT ![d] = kept] /\ disk'[d] = kept /\ held' = held
    <3>1. Settle(d, <<h>>, cache[d], {}) /\ held' = held
      BY <1>5, <1>14 DEF OnAck
    <3>2. {<<h>>[i].write.id : i \in 1..Len(<<h>>)} = {w.id}
      BY <1>4
    <3>3. disk' = [disk EXCEPT ![d] = Without(disk[d], {w.id})]
      BY <3>1, <3>2, Zenon DEF Settle
    <3> QED
      BY <1>1, <1>7, <3>1, <3>3 DEF Queues, IInv, TypeOK
  <2>2. TypeOK'
    <3>1. disk' \in [Devices -> Seq(Writes)]
      BY <1>8, <2>1 DEF IInv, TypeOK
    <3> QED
      BY <1>12, <2>1, <3>1 DEF IInv, TypeOK, OnAck, appVars
  <2>3. ~stranded => SettleLeaves(dk, hd, c, u, dn, {w}, kept, rest, hd) /\ w \in PutsOf(dn)
    <3>1. ~HasListen(u) /\ ~HasListen(dn) /\ dn # <<>> /\ ~IsListen(Head(dn)) /\ w = Head(dn).write
      BY <1>5, <1>10, <1>14
    <3> QED
      BY <1>2, <1>7, <3>1, SettleQueues
  <2>4. ~stranded' => QueueOK(disk'[d], puts'[d], held'[d], conn'[d], up'[d], down'[d])
    BY <1>1, <1>9, <2>1, <2>3 DEF OnAck, Queues, SettleLeaves
  <2>5. OthersKept(d)
    BY <1>9, <2>1 DEF OnAck, OthersKept, IInv, TypeOK
  <2>6. \A x \in Pending(d)' : Made(x, joined')
    BY <1>1, <1>2, <1>8, <1>9, <2>1 DEF OnAck, Pending, Queues
  <2>7. ~stranded' /\ Devices = {d} =>
          Consistent(Taken(ToSet(disk'[d])), Taken(PutsOf(held'[d]) \cup PutsOf(down'[d])), server', intended')
    <3> SUFFICES ASSUME ~stranded, Devices = {d}
                 PROVE  Consistent(Taken(ToSet(dk) \ {w}), Taken((PutsOf(hd) \cup PutsOf(dn)) \ {w}), server, intended)
      BY <1>1, <1>9, <2>1, <2>3 DEF OnAck, Queues, SettleLeaves
    <3>1. Consistent(Taken(ToSet(dk)), Taken(PutsOf(hd) \cup PutsOf(dn)), server, intended)
      BY <1>2
    <3>2. {w} \subseteq PutsOf(hd) \cup PutsOf(dn) /\ Before({w}, ToSet(dk) \ {w})
      BY <2>3 DEF SettleLeaves
    <3> QED
      BY <1>2, <3>1, <3>2, SettleTaken
  <2> QED
    BY <1>11, <2>2, <2>4, <2>5, <2>6, <2>7, DeviceStep
<1> QED
  BY <1>13, <1>14

\* The callback of sendListen, the last one or not.
LEMMA OnListenStep ==
    ASSUME IInv, NEW d \in Devices, OnListen(d)
    PROVE  IInv'
<1>1. PICK dk, pt, hd, c, u, dn : Queues(d, dk, pt, hd, c, u, dn)
  BY DEF Queues
<1>2. /\ Typed(dk, pt, hd, c, u, dn)
      /\ \A w \in ToSet(dk) \cup ToSet(pt) \cup PutsOf(u) : Made(w, joined)
      /\ ~stranded => QueueOK(dk, pt, hd, c, u, dn)
      /\ Devices = {d} /\ ~stranded =>
           Consistent(Taken(ToSet(dk)), Taken(PutsOf(hd) \cup PutsOf(dn)), server, intended)
  BY <1>1, DeviceFacts
<1>3. PICK h : h = Head(dn)
  OBVIOUS
<1>4. dn # <<>> /\ IsListen(h) /\ IsListen(Head(dn)) /\ dn \in Seq(Answers) /\ h = Head(down[d])
  BY <1>1, <1>2, <1>3 DEF OnListen, Queues, Typed
<1>5. h.member \in Members /\ Tail(dn) \in Seq(Answers)
  <2>1. h \in Answers /\ Tail(dn) \in Seq(Answers)
    BY <1>3, <1>4, HeadTailProperties
  <2> QED
    BY <1>4, <2>1 DEF Answers, Acks, IsListen
<1>6. PICK quiet \in BOOLEAN : quiet = (~HasListen(u) /\ ~HasListen(Tail(dn)))
  OBVIOUS
<1>7. PICK R, ids : R = (IF quiet THEN PutsOf(hd) ELSE {}) /\ ids = {w.id : w \in R}
  OBVIOUS
<1>8. PICK kept, v : kept = Without(dk, ids) /\ v = IF quiet THEN <<>> ELSE hd
  OBVIOUS
<1>9. /\ kept \in Seq(Writes) /\ ToSet(kept) \subseteq ToSet(dk) /\ v \in Seq(Acks)
  BY <1>2, <1>8, WithoutKeeps DEF Typed
<1>10. /\ disk' = [disk EXCEPT ![d] = kept] /\ disk'[d] = kept
       /\ held' = [held EXCEPT ![d] = v] /\ held'[d] = v
       /\ down' = [down EXCEPT ![d] = Tail(dn)] /\ down'[d] = Tail(dn)
  <2>1. quiet <=> /\ \A i \in 1..Len(up[d]) : ~IsListen(up[d][i])
                  /\ \A i \in 2..Len(down[d]) : ~IsListen(down[d][i])
    <3>1. HasListen(Tail(dn)) <=> \E i \in 2..Len(dn) : IsListen(dn[i])
      BY <1>4, PutsTail
    <3> QED
      BY <1>1, <1>6, <3>1 DEF HasListen, Queues
  <2>2. PICK acks, cached : /\ acks = IF quiet THEN held[d] ELSE <<>>
                            /\ Settle(d, acks, cached, {h.member})
                            /\ held' = IF quiet THEN [held EXCEPT ![d] = <<>>] ELSE held
    <3> DEFINE cached == [cache[d] EXCEPT ![h.member] = h.record]
    <3>1. /\ Settle(d, IF quiet THEN held[d] ELSE <<>>, cached, {h.member})
          /\ held' = IF quiet THEN [held EXCEPT ![d] = <<>>] ELSE held
      BY <1>4, <2>1 DEF OnListen
    <3> QED
      BY <3>1
  <2>3. {acks[i].write.id : i \in 1..Len(acks)} = ids
    <3>1. CASE quiet
      <4>1. acks = hd /\ hd \in Seq(Acks)
        BY <1>1, <1>2, <2>2, <3>1 DEF Queues, Typed
      <4>2. \A i \in 1..Len(hd) : ~IsListen(hd[i])
        <5>1. \A i \in 1..Len(hd) : hd[i] \in Acks
          BY <4>1, ElementOfSeq
        <5> QED
          BY <5>1 DEF Acks, IsListen
      <4>3. ids = {w.id : w \in PutsOf(hd)}
        BY <1>7, <3>1
      <4> QED
        BY <4>1, <4>2, <4>3 DEF PutsOf
    <3>2. CASE ~quiet
      BY <1>7, <2>2, <3>2
    <3> QED
      BY <3>1, <3>2
  <2>4. disk' = [disk EXCEPT ![d] = Without(disk[d], ids)]
    BY <2>2, <2>3, Zenon DEF Settle
  <2>5. held' = [held EXCEPT ![d] = v]
    BY <1>1, <1>8, <2>2 DEF Queues, IInv, TypeOK
  <2>6. down' = [down EXCEPT ![d] = Tail(dn)]
    BY <1>1 DEF OnListen, Queues
  <2> QED
    BY <1>1, <1>8, <2>4, <2>5, <2>6 DEF Queues, IInv, TypeOK
<1>11. joined \subseteq joined' /\ (stranded => stranded')
  BY DEF OnListen
<1>12. TypeOK'
  <2>1. /\ disk' \in [Devices -> Seq(Writes)] /\ held' \in [Devices -> Seq(Acks)]
        /\ down' \in [Devices -> Seq(Answers)]
    BY <1>5, <1>9, <1>10 DEF IInv, TypeOK
  <2>2. login' \in [Devices -> Logins]
    <3>1. \E found \in BOOLEAN : login' \in {login, [login EXCEPT ![d] = Answered(h.member, found)]}
      <4> DEFINE shown == Shown(d, [cache[d] EXCEPT ![h.member] = h.record])
      <4>1. PICK found \in BOOLEAN : found = (shown[h.member] # Nothing)
        OBVIOUS
      <4>2. login' = IF login[d] = Waiting(h.member)
                       THEN [login EXCEPT ![d] = Answered(h.member, found)]
                       ELSE login
        BY <1>4, <4>1 DEF OnListen
      <4> QED
        BY <4>2
    <3> QED
      BY <1>5, <3>1, LoginStates, ZenonT(60) DEF IInv, TypeOK
  <2> QED
    BY <2>1, <2>2 DEF IInv, TypeOK, OnListen
<1>13. ~stranded => SettleLeaves(dk, hd, c, u, dn, R, kept, pt, v)
  <2>1. dn # <<>> /\ IsListen(Head(dn)) /\ (quiet <=> ~HasListen(u) /\ ~HasListen(Tail(dn)))
    BY <1>4, <1>6
  <2> QED
    BY <1>2, <1>7, <1>8, <2>1, ListenAnswerQueues
<1>14. ~stranded' => QueueOK(disk'[d], puts'[d], held'[d], conn'[d], up'[d], down'[d])
  BY <1>1, <1>10, <1>13 DEF OnListen, Queues, SettleLeaves
<1>15. OthersKept(d)
  BY <1>10 DEF OnListen, OthersKept, IInv, TypeOK
<1>16. \A x \in Pending(d)' : Made(x, joined')
  BY <1>1, <1>2, <1>9, <1>10 DEF OnListen, Pending, Queues
<1>17. ~stranded' /\ Devices = {d} =>
         Consistent(Taken(ToSet(disk'[d])), Taken(PutsOf(held'[d]) \cup PutsOf(down'[d])), server', intended')
  <2> SUFFICES ASSUME ~stranded, Devices = {d}
               PROVE  Consistent(Taken(ToSet(dk) \ R), Taken((PutsOf(hd) \cup PutsOf(dn)) \ R), server, intended)
    BY <1>1, <1>10, <1>13 DEF OnListen, Queues, SettleLeaves
  <2>1. Consistent(Taken(ToSet(dk)), Taken(PutsOf(hd) \cup PutsOf(dn)), server, intended)
    BY <1>2
  <2>2. R \subseteq PutsOf(hd) \cup PutsOf(dn) /\ Before(R, ToSet(dk) \ R)
    BY <1>7, <1>13 DEF SettleLeaves
  <2> QED
    BY <1>2, <2>1, <2>2, SettleTaken
<1> QED
  BY <1>11, <1>12, <1>14, <1>15, <1>16, <1>17, DeviceStep

-----------------------------------------------------------------------------
\* The theorems.

\* Every step keeps the invariant.
LEMMA NextIInv == IInv /\ [Next]_vars => IInv'
<1> SUFFICES ASSUME IInv, [Next]_vars
             PROVE  IInv'
  OBVIOUS
<1>1. CASE UNCHANGED vars
  <2>1. TypeOK'
    BY <1>1 DEF IInv, TypeOK, vars, clientVars, netVars, appVars
  <2> QED
    BY <1>1, <2>1, QuietStep DEF vars
<1>2. ASSUME NEW d \in Devices, App(d) PROVE IInv'
  BY <1>2, OnceStep, RedirectStep, OnFoundStep, OnMissingStep, StorePairStep DEF App
<1>3. ASSUME NEW d \in Devices, Net(d) PROVE IInv'
  BY <1>3, ExecuteStep, OnAckStep, OnListenStep DEF Net
<1> QED
  BY <1>1, <1>2, <1>3, ConnectStep, DisconnectStep, RestartStep DEF Next

\* The invariant of the queues and of the records they lead to.
THEOREM DirectoryInvariant == Spec => []IInv
<1>1. Init => IInv
  BY InitIInv
<1>2. IInv /\ [Next]_vars => IInv'
  BY NextIInv
<1> QED
  BY <1>1, <1>2, PTL DEF Spec

\* If one device writes and no acknowledgement was stranded, an empty queue means that
\* the server has what the app wrote, however often writes were sent (restoreState,
\* restoreWrites), held back (putsToAck) or refused.
THEOREM DrainedQueueIsStored == Spec => []DrainedMeansStored
<1>1. IInv => DrainedMeansStored
  <2> SUFFICES ASSUME IInv, NEW d \in Devices, Devices = {d}, disk[d] = <<>>, ~stranded
               PROVE  server = intended
    BY DEF DrainedMeansStored
  <2>1. Taken(ToSet(disk[d])) = {}
    BY QueuesHoldWrites DEF Taken
  <2>2. \A m \in Members : intended[m] = server[m]
    BY <2>1 DEF IInv, ValuesInv, Consistent
  <2>3. server \in [Members -> Records] /\ intended \in [Members -> Records]
    BY DEF IInv, TypeOK
  <2> QED
    BY <2>2, <2>3
<1> QED
  BY <1>1, DirectoryInvariant, PTL

\* On any number of devices, a record is lost only to the set of /users of a first login.
THEOREM OnlyFirstLoginsLose == Spec => LossNeedsFirstLogin
<1> DEFINE Safe == \A m \in Members :
                      /\ server[m] # Nothing /\ server'[m] = Nothing => joined \ {m} # {}
                      /\ server[m] \in Pairs /\ server'[m] = 0 => m \in joined
<1>1. IInv /\ [Next]_vars => [Safe]_vars
  <2> SUFFICES ASSUME IInv, Next
               PROVE  Safe
    OBVIOUS
  <2>1. CASE server' = server
    <3>1. Nothing \notin Pairs /\ 0 \notin Pairs
      BY DirectoryAssumption DEF Pairs
    <3> QED
      BY <2>1, <3>1
  <2>2. ASSUME NEW d \in Devices, Execute(d) PROVE Safe
    <3>1. PICK h \in Requests, a \in Answers :
             /\ up[d] # <<>> /\ h = Head(up[d])
             /\ IsListen(a) <=> IsListen(h)
             /\ ~IsListen(h) => a.write = h.write
             /\ server' = IF ~IsListen(h) /\ h.write.member \notin Denied THEN Apply(server, h.write) ELSE server
             /\ down' = [down EXCEPT ![d] = Append(down[d], a)]
             /\ up' = [up EXCEPT ![d] = Tail(up[d])]
      BY <2>2, ExecuteIs
    <3>2. CASE ~(~IsListen(h) /\ h.write.member \notin Denied)
      BY <2>1, <3>1, <3>2
    <3>3. CASE ~IsListen(h) /\ h.write.member \notin Denied
      <4>1. PICK s, w, u : s = server /\ w = h.write /\ u = up[d]
        OBVIOUS
      <4>2. w \in Writes /\ s \in [Members -> Records] /\ u \in Seq(Requests)
        BY <3>3, <4>1 DEF Requests, IsListen, IInv, TypeOK
      <4>3. \A m \in Members : server'[m] = IF Covers(w, m) THEN Effect(w, m) ELSE s[m]
        BY <3>1, <3>3, <4>1, <4>2, ApplyIs
      <4>4. Made(w, joined)
        <5>1. w \in PutsOf(u)
          BY <3>1, <3>3, <4>1, <4>2, PutsTail
        <5> QED
          BY <4>1, <5>1 DEF IInv, MadeInv, Pending
      <4>5. Nothing \notin Pairs /\ 0 \notin Pairs /\ Nothing # 0
        BY DirectoryAssumption DEF Pairs
      <4> SUFFICES ASSUME NEW m \in Members
                   PROVE  /\ server[m] # Nothing /\ server'[m] = Nothing => joined \ {m} # {}
                          /\ server[m] \in Pairs /\ server'[m] = 0 => m \in joined
        OBVIOUS
      <4>6. CASE w.all
        BY <4>1, <4>3, <4>4, <4>5, <4>6 DEF Made, Covers, Effect
      <4>7. CASE ~w.all
        BY <4>1, <4>3, <4>4, <4>5, <4>7 DEF Made, Covers, Effect
      <4> QED
        BY <4>6, <4>7
    <3> QED
      BY <3>2, <3>3
  <2>3. server' = server \/ \E d \in Devices : Execute(d)
    BY ZenonT(60) DEF Next, App, Net, Once, Redirect, OnFound, OnMissing, StorePair, Set, Connect, Disconnect,
           Restart, OnAck, OnListen
  <2> QED
    BY <2>1, <2>2, <2>3
<1> QED
  BY <1>1, DirectoryInvariant, PTL DEF Spec, LossNeedsFirstLogin

=============================================================================
