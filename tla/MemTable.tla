----------------------------- MODULE MemTable -----------------------------
(***************************************************************************)
(* LevelDB's memtable, a skip list with one writer and readers that take   *)
(* no lock: every load and store of a link is a step.  Links are loaded    *)
(* with acquire and stored with release, which with a single writer allows *)
(* what interleaving allows; max_height_ has no barrier, and a reader may  *)
(* see any value it ever had.                                              *)
(*                                                                         *)
(* A node stands for an entry (user key, sequence number).  Nodes are      *)
(* numbered in the order of InternalKeyComparator, so that the number of   *)
(* an entry is also the place to seek for it; sequence number 0 is never   *)
(* written.                                                                *)
(***************************************************************************)
EXTENDS Integers, FiniteSets, FiniteSetsExt

CONSTANTS
    Readers,     \* threads that read
    NumKeys,     \* user keys are 1..NumKeys
    MaxEntries,  \* bound on the entries added; also the largest sequence number
    MaxHeight,   \* kMaxHeight
    MaxReads     \* bound on the operations of readers

VARIABLES
    link,       \* next_ of each node at each level
    maxHeight,  \* max_height_
    added,      \* the nodes added so far
    writer,     \* Insert at work: node, height, level, and whether its link there is set
    sequence,   \* LastSequence(): entries up to it may be asked for
    reader,     \* what each reader does
    reads

memVars == <<link, maxHeight, added, writer, sequence>>
vars == <<memVars, reader, reads>>

Node(k, s) == (k - 1) * (MaxEntries + 1) + (MaxEntries - s) + 1
UserKey(n) == (n - 1) \div (MaxEntries + 1) + 1

head == 0
Null == NumKeys * (MaxEntries + 1) + 1    \* sorts after all keys
Garbage == -1                             \* what a link holds before it is set
Heights == 0..(MaxHeight - 1)

NoInsert == [node |-> head, height |-> 0, level |-> 0, set |-> FALSE]
NoRead == [op |-> "none", target |-> 0, at |-> head, level |-> 0, known |-> {}, found |-> Null]

Init ==
    /\ link = [n \in head..(Null - 1) |-> [i \in Heights |-> IF n = head THEN Null ELSE Garbage]]
    /\ maxHeight = 1
    /\ added = {}
    /\ writer = NoInsert
    /\ sequence = 0
    /\ reader = [r \in Readers |-> NoRead]
    /\ reads = 0

-----------------------------------------------------------------------------
\* The writer.

\* prev[level] of FindGreaterOrEqual: the writer sees all its own stores.
Prev(n, i) ==
    Max({m \in added \cup {head} : m < n /\ (m = head \/ link[m][i] # Garbage)})

\* Add: up to the loop of Insert.
Add(k, height) ==
    /\ writer = NoInsert
    /\ sequence < MaxEntries
    /\ writer' = [node |-> Node(k, sequence + 1), height |-> height, level |-> 0, set |-> FALSE]
    /\ maxHeight' = Max({maxHeight, height})
    /\ UNCHANGED <<link, added, sequence, reader, reads>>

\* NoBarrier_SetNext: the link of the new node.
SetOwnLink ==
    /\ writer # NoInsert /\ ~writer.set
    /\ link' = [link EXCEPT ![writer.node][writer.level] = link[Prev(writer.node, writer.level)][writer.level]]
    /\ writer' = [writer EXCEPT !.set = TRUE]
    /\ UNCHANGED <<maxHeight, added, sequence, reader, reads>>

\* The loop goes on, or the entry is in and Write raises LastSequence().
Advance ==
    IF writer.level + 1 < writer.height
      THEN /\ writer' = [writer EXCEPT !.level = @ + 1, !.set = FALSE]
           /\ UNCHANGED sequence
      ELSE /\ writer' = NoInsert
           /\ sequence' = sequence + 1

\* Mutant: the new node is published at its highest level first.
PublishTopFirst ==
    /\ writer # NoInsert /\ writer.set
    /\ LET top == writer.height - 1
           i == IF writer.level = 0 THEN top ELSE writer.level - 1
       IN  link' = [link EXCEPT ![Prev(writer.node, i)][i] = writer.node]
    /\ added' = added \cup {writer.node}
    /\ Advance
    /\ UNCHANGED <<maxHeight, reader, reads>>

\* SetNext on the previous node publishes the new one on this level.
Publish ==
    /\ writer # NoInsert /\ writer.set
    /\ link' = [link EXCEPT ![Prev(writer.node, writer.level)][writer.level] = writer.node]
    /\ added' = added \cup {writer.node}
    /\ Advance
    /\ UNCHANGED <<maxHeight, reader, reads>>

-----------------------------------------------------------------------------
\* Readers.  target is what they look for: FindGreaterOrEqual ("ge", from Seek and Get),
\* FindLessThan and FindLast ("lt", from Prev and SeekToLast), or the link of a node
\* ("next", from Next and SeekToFirst).  known remembers what was in when they began.

Begin(r, op, target, from) ==
    /\ reads < MaxReads
    /\ reads' = reads + 1
    /\ \E h \in 1..maxHeight :
           reader' = [reader EXCEPT ![r] = [op |-> op, target |-> target, at |-> from,
                                            level |-> IF op = "next" THEN 0 ELSE h - 1,
                                            known |-> added, found |-> Null]]
    /\ UNCHANGED memVars

Idle(r) == reader[r].op \in {"none", "got", "done"}

\* MemTable::Get for a sequence number that was already given out.
Get(r, k, s) == Idle(r) /\ Begin(r, "ge", Node(k, s), head)

SeekToFirst(r) == Idle(r) /\ Begin(r, "next", head, head)
SeekToLast(r) == Idle(r) /\ Begin(r, "lt", Null, head)
Next1(r) == reader[r].op \in {"got", "done"} /\ reader[r].found \in added /\ Begin(r, "next", reader[r].found, reader[r].found)
Prev1(r) == reader[r].op \in {"got", "done"} /\ reader[r].found \in added /\ Begin(r, "lt", reader[r].found, head)

\* One round of a search loop: a load, and on along the level, down, or out.
Load(r) ==
    LET me == reader[r]
        next == link[me.at][me.level]
    IN  /\ ~Idle(r)
        /\ reader' = [reader EXCEPT ![r] =
              IF me.op # "next" /\ next < me.target THEN [me EXCEPT !.at = next]
              ELSE IF me.level > 0 THEN [me EXCEPT !.level = @ - 1]
              ELSE [me EXCEPT !.op = IF me.op = "ge" THEN "got" ELSE "done", !.found = IF me.op = "lt" THEN me.at ELSE next]]
        /\ UNCHANGED <<memVars, reads>>

\* What Get makes of the node it found: the entry it returns, if any.
Found(k, n) == IF n # Null /\ UserKey(n) = k THEN {n} ELSE {}

-----------------------------------------------------------------------------
Next ==
    \/ \E k \in 1..NumKeys, h \in 1..MaxHeight : Add(k, h)
    \/ SetOwnLink \/ Publish
    \/ \E r \in Readers :
           \/ \E k \in 1..NumKeys, s \in 0..sequence : Get(r, k, s)
           \/ SeekToFirst(r) \/ SeekToLast(r) \/ Next1(r) \/ Prev1(r)
           \/ Load(r)

Spec == Init /\ [][Next]_vars

-----------------------------------------------------------------------------
\* Properties.

\* No reader ever follows a link that was not set, and none passes over an entry that
\* was in the list when it began: an iterator moves to the neighbour, or to one added
\* since, and Get at a sequence number sees exactly the newest entry of its key up to
\* it, whatever is being added.
ReadersMissNothing ==
    \A r \in Readers :
        LET me == reader[r] IN
        /\ me.at # Garbage /\ me.found \in added \cup {head, Null}
        /\ me.op = "done" =>
              \A n \in me.known : ~(me.found < n /\ n < me.target) /\ ~(me.target < n /\ n < me.found)
        /\ me.op = "got" =>
              LET k == UserKey(me.target)
              IN  Found(k, me.found) = Found(k, Min({n \in me.known : n >= me.target} \cup {Null}))

=============================================================================
