------------------------------ MODULE Formats -------------------------------
(***************************************************************************)
(* What LevelDB writes into its logs and manifests, and the names of its   *)
(* files: varints, write batches, version edits, decimal numbers.          *)
(*                                                                         *)
(* Widths are scaled down: a byte has Group bits and a flag, the four and  *)
(* the eight bytes of a batch's header are two and three, and a varint has *)
(* up to Groups32 or Groups64 bytes for Width32 or Width64 bits.           *)
(***************************************************************************)
EXTENDS Integers, Sequences, FiniteSets, FiniteSetsExt, SequencesExt

CONSTANTS
    Slices,         \* keys and values, sequences of bytes
    Numbers,        \* file numbers and sequence numbers
    MaxOps,         \* bound on the operations of a batch and the fields of an edit
    Tokens,         \* what the names in a directory are made of: digits and words
    MaxTokens

VARIABLES
    kind,           \* "batch", "edit" or "name"
    ops, rep,       \* the operations of a batch and its bytes
    edit,           \* a version edit, with the tags in the order they were set
    name            \* a name

vars == <<kind, ops, rep, edit, name>>

Group == 2
Flag == 2 ^ Group
Byte == 2 * Flag
Width32 == 5
Groups32 == 3
Width64 == 7
Groups64 == 4
NumLevels == 3
Four == 2
Eight == 3
MaxUint64 == 2 ^ Width64 - 1

-----------------------------------------------------------------------------
\* Coding.

EncodeFixed(n, size) == [i \in 1..size |-> (n \div Byte ^ (i - 1)) % Byte]
DecodeFixed(s) == MapThenSumSet(LAMBDA i : s[i] * Byte ^ (i - 1), 1..Len(s))

\* EncodeVarint32, EncodeVarint64
Varint(n) ==
    LET groups == Max({1} \cup {i \in 1..Groups64 : n \div 2 ^ (Group * (i - 1)) > 0})
    IN  [i \in 1..groups |-> ((n \div 2 ^ (Group * (i - 1))) % Flag) + (IF i < groups THEN Flag ELSE 0)]
Prefixed(s) == Varint(Len(s)) \o s

\* A reader returns the input behind what it read, and that.
Bad == [ok |-> FALSE, rest |-> <<>>, v |-> <<>>]
Good(s, n, v) == [ok |-> TRUE, rest |-> SubSeq(s, n + 1, Len(s)), v |-> v]
Then(r, Goes(_)) == Goes(r)

\* GetVarint32PtrFallback, GetVarint64Ptr
GetVarint(s, groups, width) ==
    LET ends == {i \in 1..Min({groups, Len(s)}) : s[i] < Flag}
        value == MapThenSumSet(LAMBDA i : (s[i] % Flag) * 2 ^ (Group * (i - 1)), 1..Min(ends)) % 2 ^ width
    IN  IF ends = {} THEN Bad ELSE Good(s, Min(ends), <<value>>)
GetVarint32(s) == GetVarint(s, Groups32, Width32)
GetVarint64(s) == GetVarint(s, Groups64, Width64)

\* Mutant: the length is trusted.
GetTrustingSlice(s) ==
    LET n == GetVarint32(s)
    IN  IF ~n.ok THEN Bad
        ELSE Good(n.rest, n.v[1], SubSeq(n.rest, 1, Min({n.v[1], Len(n.rest)})))

GetLengthPrefixedSlice(s) ==
    Then(GetVarint32(s), LAMBDA n :
        IF ~n.ok \/ Len(n.rest) < n.v[1] THEN Bad ELSE Good(n.rest, n.v[1], SubSeq(n.rest, 1, n.v[1])))

-----------------------------------------------------------------------------
\* Write batches.

Header == Eight + Four
Clear == [i \in 1..Header |-> 0]
Count(b) == DecodeFixed(SubSeq(b, Eight + 1, Header))
SetCount(b, n) == SubSeq(b, 1, Eight) \o EncodeFixed(n, Four) \o SubSeq(b, Header + 1, Len(b))
Sequence(b) == DecodeFixed(SubSeq(b, 1, Eight))
SetSequence(b, n) == EncodeFixed(n, Eight) \o SubSeq(b, Eight + 1, Len(b))

\* Put and Delete: the tag, the key, and the value of a Put.
Extended(b, op) ==
    LET body == IF op.type = 1 THEN Prefixed(op.key) \o Prefixed(op.value) ELSE Prefixed(op.key)
    IN  SetCount(b, Count(b) + 1) \o <<op.type>> \o body

\* WriteBatchInternal::Append
AppendBatch(dst, src) == SetCount(dst, Count(dst) + Count(src)) \o SubSeq(src, Header + 1, Len(src))

\* Iterate with a MemTableInserter: found are the operations handed over, each with the
\* next sequence number.
RECURSIVE Operations(_, _, _)
Operations(s, seq, found) ==
    LET key == GetLengthPrefixedSlice(Tail(s))
        value == IF Head(s) = 1 THEN GetLengthPrefixedSlice(key.rest) ELSE [key EXCEPT !.v = <<>>]
    IN  IF s = <<>> THEN [ok |-> TRUE, found |-> found]
        ELSE IF Head(s) \notin {0, 1} \/ ~key.ok \/ ~value.ok THEN [ok |-> FALSE, found |-> found]
        ELSE Operations(value.rest, seq + 1,
                        Append(found, [type |-> Head(s), key |-> key.v, value |-> value.v, seq |-> seq]))
InsertInto(b) ==
    LET r == Operations(SubSeq(b, Header + 1, Len(b)), Sequence(b), <<>>)
    IN  IF Len(b) < Header THEN [ok |-> FALSE, found |-> <<>>]
        ELSE [r EXCEPT !.ok = r.ok /\ Len(r.found) = Count(b)]

-----------------------------------------------------------------------------
\* Version edits: a number is <<>> or <<n>>.

Empty == [comparator |-> <<>>, log |-> <<>>, prev |-> <<>>, next |-> <<>>, last |-> <<>>,
          pointers |-> <<>>, deleted |-> {}, files |-> <<>>]

Numbered == <<[tag |-> 2, f |-> "log"], [tag |-> 9, f |-> "prev"], [tag |-> 3, f |-> "next"], [tag |-> 4, f |-> "last"]>>

\* The fields in the order of EncodeTo, each in bytes; deleted_files_ is a sorted set.
Fields(e) ==
    LET Number(i) == IF e[Numbered[i].f] = <<>> THEN <<>> ELSE <<Varint(Numbered[i].tag) \o Varint(e[Numbered[i].f][1])>>
        Pointer(p) == Varint(5) \o Varint(p.level) \o Prefixed(p.key)
        Deleted(d) == Varint(6) \o Varint(d[1]) \o Varint(d[2])
        File(f) == Varint(7) \o Varint(f.level) \o Varint(f.number) \o Varint(f.size) \o Prefixed(f.smallest) \o Prefixed(f.largest)
        Before(d, x) == d[1] < x[1] \/ (d[1] = x[1] /\ d[2] < x[2])
        Each(Encode(_), s) == [i \in 1..Len(s) |-> Encode(s[i])]
    IN  (IF e.comparator = <<>> THEN <<>> ELSE <<Varint(1) \o Prefixed(e.comparator[1])>>)
        \o Number(1) \o Number(2) \o Number(3) \o Number(4)
        \o Each(Pointer, e.pointers) \o Each(Deleted, SetToSortSeq(e.deleted, Before)) \o Each(File, e.files)
EncodeTo(e) == FlattenSeq(Fields(e))

GetLevel(s) == LET n == GetVarint32(s) IN IF n.ok /\ n.v[1] < NumLevels THEN n ELSE Bad

\* Readers one behind the other; the values they read.
RECURSIVE Reads(_, _, _)
Reads(s, readers, values) ==
    LET r == CASE Head(readers) = "level" -> GetLevel(s)
               [] Head(readers) = "number" -> GetVarint64(s)
               [] Head(readers) = "slice" -> GetLengthPrefixedSlice(s)
    IN  IF readers = <<>> THEN [ok |-> TRUE, rest |-> s, v |-> values]
        ELSE IF ~r.ok THEN Bad
        ELSE Reads(r.rest, Tail(readers), Append(values, IF Head(readers) = "slice" THEN r.v ELSE r.v[1]))

\* What follows a tag, and what it does to an edit.
Layout(t) ==
    CASE t = 1 -> <<"slice">>
      [] t \in {2, 3, 4, 9} -> <<"number">>
      [] t = 5 -> <<"level", "slice">>
      [] t = 6 -> <<"level", "number">>
      [] t = 7 -> <<"level", "number", "number", "slice", "slice">>
WithField(e, t, v) ==
    CASE t = 1 -> [e EXCEPT !.comparator = <<v[1]>>]
      [] t = 2 -> [e EXCEPT !.log = <<v[1]>>]
      [] t = 9 -> [e EXCEPT !.prev = <<v[1]>>]
      [] t = 3 -> [e EXCEPT !.next = <<v[1]>>]
      [] t = 4 -> [e EXCEPT !.last = <<v[1]>>]
      [] t = 5 -> [e EXCEPT !.pointers = Append(@, [level |-> v[1], key |-> v[2]])]
      [] t = 6 -> [e EXCEPT !.deleted = @ \cup {<<v[1], v[2]>>}]
      [] t = 7 -> [e EXCEPT !.files = Append(@, [level |-> v[1], number |-> v[2], size |-> v[3],
                                                 smallest |-> v[4], largest |-> v[5]])]

\* DecodeFrom
RECURSIVE DecodeFrom(_, _)
DecodeFrom(s, e) ==
    Then(GetVarint32(s), LAMBDA tag :
        IF ~tag.ok THEN [ok |-> s = <<>>, v |-> e]
        ELSE IF tag.v[1] \notin (1..7) \cup {9} THEN [ok |-> FALSE, v |-> e]
        ELSE Then(Reads(tag.rest, Layout(tag.v[1]), <<>>), LAMBDA r :
            IF ~r.ok THEN [ok |-> FALSE, v |-> e] ELSE DecodeFrom(r.rest, WithField(e, tag.v[1], r.v))))

-----------------------------------------------------------------------------
\* Names of files: a sequence of digits and words.

Digits == 0..9
IsDigit(x) == x \in {ToString(d) : d \in Digits}
DigitOf(x) == CHOOSE d \in Digits : ToString(d) = x

\* %06llu, with a width of two.
Decimal(n) ==
    LET wide == Max({2} \cup {i \in 1..4 : n \div 10 ^ (i - 1) > 0})
    IN  [i \in 1..wide |-> ToString((n \div 10 ^ (wide - i)) % 10)]

FileName(type, n) ==
    CASE type = "log" -> Decimal(n) \o <<".log">>
      [] type = "table" -> Decimal(n) \o <<".ldb">>
      [] type = "sst" -> Decimal(n) \o <<".sst">>
      [] type = "temp" -> Decimal(n) \o <<".dbtmp">>
      [] type = "descriptor" -> <<"MANIFEST-">> \o Decimal(n)
      [] type = "current" -> <<"CURRENT">>
      [] type = "lock" -> <<"LOCK">>
      [] type = "infolog" -> <<"LOG">>

\* ConsumeDecimalNumber: stops in front of a number that does not fit.
RECURSIVE Consume(_, _, _)
Consume(s, n, digits) ==
    LET d == DigitOf(Head(s))
    IN  IF s = <<>> \/ ~IsDigit(Head(s)) THEN [ok |-> digits > 0, rest |-> s, v |-> n]
        ELSE IF n > MaxUint64 \div 10 \/ (n = MaxUint64 \div 10 /\ d > MaxUint64 % 10) THEN [ok |-> FALSE, rest |-> s, v |-> n]
        ELSE Consume(Tail(s), 10 * n + d, digits + 1)

NotOwned == [ok |-> FALSE, type |-> "", number |-> 0]
Owned(type, n) == [ok |-> TRUE, type |-> type, number |-> n]
ParseFileName(s) ==
    LET manifest == s # <<>> /\ Head(s) = "MANIFEST-"
        r == Consume(IF manifest THEN Tail(s) ELSE s, 0, 0)
    IN  CASE s = <<"CURRENT">> -> Owned("current", 0)
          [] s = <<"LOCK">> -> Owned("lock", 0)
          [] s \in {<<"LOG">>, <<"LOG", ".old">>} -> Owned("infolog", 0)
          [] manifest -> IF r.ok /\ r.rest = <<>> THEN Owned("descriptor", r.v) ELSE NotOwned
          [] OTHER -> IF ~r.ok THEN NotOwned
                      ELSE CASE r.rest = <<".log">> -> Owned("log", r.v)
                             [] r.rest \in {<<".sst">>, <<".ldb">>} -> Owned("table", r.v)
                             [] r.rest = <<".dbtmp">> -> Owned("temp", r.v)
                             [] OTHER -> NotOwned

-----------------------------------------------------------------------------
Init ==
    /\ kind \in {"batch", "edit", "name"}
    /\ ops = <<>> /\ rep = Clear
    /\ edit = Empty
    /\ name = <<>>

Op == [type : {0}, key : Slices, value : {<<>>}] \cup [type : {1}, key : Slices, value : Slices]

Batch ==
    /\ kind = "batch" /\ Len(ops) < MaxOps
    /\ \E op \in Op :
          /\ ops' = Append(ops, op)
          /\ rep' \in {Extended(rep, op), AppendBatch(rep, Extended(Clear, op))}
    /\ UNCHANGED <<kind, edit, name>>
Sequenced ==
    /\ kind = "batch" /\ \E n \in Numbers : rep' = SetSequence(rep, n)
    /\ UNCHANGED <<kind, ops, edit, name>>

\* The setters of VersionEdit.
Edit ==
    /\ kind = "edit" /\ Len(Fields(edit)) < MaxOps
    /\ \/ \E s \in Slices : edit' = [edit EXCEPT !.comparator = <<s>>]
       \/ \E f \in {"log", "prev", "next", "last"}, n \in Numbers : edit' = [edit EXCEPT ![f] = <<n>>]
       \/ \E l \in 0..(NumLevels - 1), s \in Slices :
             edit' = [edit EXCEPT !.pointers = Append(@, [level |-> l, key |-> s])]
       \/ \E l \in 0..(NumLevels - 1), n \in Numbers : edit' = [edit EXCEPT !.deleted = @ \cup {<<l, n>>}]
       \/ \E l \in 0..(NumLevels - 1), n \in Numbers, s, t \in Slices :
             edit' = [edit EXCEPT !.files = Append(@, [level |-> l, number |-> n, size |-> n, smallest |-> s, largest |-> t])]
    /\ UNCHANGED <<kind, ops, rep, name>>

Name ==
    /\ kind = "name" /\ Len(name) < MaxTokens
    /\ \E x \in Tokens : name' = Append(name, x)
    /\ UNCHANGED <<kind, ops, rep, edit>>

Next == Batch \/ Sequenced \/ Edit \/ Name

Spec == Init /\ [][Next]_vars

-----------------------------------------------------------------------------
\* A batch is read back as it was built, however it was put together, with consecutive
\* sequence numbers; of one that was cut off, a prefix is applied and an error reported.
BatchReadsBack ==
    kind = "batch" =>
        LET all == [i \in 1..Len(ops) |->
                       [type |-> ops[i].type, key |-> ops[i].key, value |-> ops[i].value, seq |-> Sequence(rep) + i - 1]]
        IN  /\ InsertInto(rep) = [ok |-> TRUE, found |-> all]
            /\ \A n \in 0..(Len(rep) - 1) :
                  LET r == InsertInto(SubSeq(rep, 1, n)) IN ~r.ok /\ IsPrefix(r.found, all)

\* An edit is read back as it was; one that was cut off is refused, unless the cut is
\* between two fields.
EditReadsBack ==
    kind = "edit" =>
        LET s == EncodeTo(edit)
            ends == {Len(FlattenSeq(SubSeq(Fields(edit), 1, k))) : k \in 0..Len(Fields(edit))}
        IN  /\ DecodeFrom(s, Empty) = [ok |-> TRUE, v |-> edit]
            /\ \A n \in 0..Len(s) : DecodeFrom(SubSeq(s, 1, n), Empty).ok <=> n \in ends

\* A name that the database makes is taken for what it is; any other name is not owned,
\* or is a number that fits.
NamesParse ==
    kind = "name" =>
        LET p == ParseFileName(name)
            digits == SelectSeq(name, IsDigit)
            value == MapThenSumSet(LAMBDA i : DigitOf(digits[i]) * 10 ^ (Len(digits) - i), 1..Len(digits))
        IN  /\ p.ok => p.number = value /\ value <= MaxUint64
            /\ \A n \in Numbers, type \in {"log", "table", "sst", "temp", "descriptor"} :
                  name = FileName(type, n) => p = Owned(IF type = "sst" THEN "table" ELSE type, n)

=============================================================================
