------------------------------ MODULE Protobuf ------------------------------
(***************************************************************************)
(* nanopb: encoding messages by a table of field descriptors, and decoding *)
(* any bytes by such a table, with submessages, packed arrays, unions,     *)
(* extensions, callbacks and fields in memory that is allocated on the way *)
(* and must be released when decoding fails.                               *)
(*                                                                         *)
(* Widths are scaled down: a byte of a varint has Group payload bits and a *)
(* flag, Small bits stand for 32 and Large for 64, with odd bits in the    *)
(* last group, and Four and Eight bytes for the fixed widths.              *)
(*                                                                         *)
(* A descriptor is a record of tag, ltype, htype, atype, size (in bits or  *)
(* bytes), count (capacity of an array) and sub (the descriptors of a      *)
(* submessage or of extensions).  A message has a slot for each            *)
(* descriptor: n is what pSize points to (has_, count or which_) and v the *)
(* value; a pointer is <<>> or <<value>>.                                  *)
(***************************************************************************)
EXTENDS Integers, Sequences, FiniteSets, FiniteSetsExt, SequencesExt

CONSTANTS
    Schemas,    \* descriptor tables of messages
    MaxParts,   \* bound on the messages encoded one behind the other
    Fuels       \* how many allocations succeed

VARIABLES
    wire,       \* the bytes encoded so far
    parts,      \* the number of messages they came from, MaxParts once bytes are cut off
    sent,       \* the message, with its schema, if it is one and whole
    result      \* of the decoder, or None

vars == <<wire, parts, sent, result>>

Group == 4
Small == 6
Large == 9
Groups == 3
Flag == 2 ^ Group
Byte == 2 * Flag

None == [ok |-> TRUE, live |-> -1, schema |-> <<>>, msg |-> <<>>]
Four == 2
Eight == 3
Fixed(f) == IF f.ltype = "fixed32" THEN Four ELSE Eight
Packable(f) == f.ltype \in {"uvarint", "varint", "svarint", "fixed32", "fixed64"}

\* A number of so many bits as a signed one.
Signed(x, bits) == IF x >= 2 ^ (bits - 1) THEN x - 2 ^ bits ELSE x
SumTo(n, Term(_)) == MapThenSumSet(Term, 1..n)

\* pb_field_iter_next and pb_field_iter_find: the fields in the order of the table, and
\* the one with a tag, which extension ranges do not have.
FieldIter(schema) == [i \in 1..Len(schema) |-> i]
FieldIterFind(schema, tag) == {i \in 1..Len(schema) : schema[i].tag = tag /\ schema[i].ltype # "extension"}

-----------------------------------------------------------------------------
\* Output streams: what was written, how much may be, and whether it only counts.

Full(o) == [o EXCEPT !.ok = FALSE]

\* pb_write
Put(o, bytes) ==
    IF ~o.ok \/ (~o.sizing /\ Len(o.out) + Len(bytes) > o.max) THEN Full(o)
    ELSE [o EXCEPT !.out = @ \o bytes]

Sizing == [out |-> <<>>, max |-> 0, sizing |-> TRUE, ok |-> TRUE]
Into(max) == [out |-> <<>>, max |-> max, sizing |-> FALSE, ok |-> TRUE]

\* pb_encode_varint: as many groups as the value has, the last without the flag.
Varint(x) ==
    LET n == Max({1} \cup {i \in 1..Groups : x \div 2 ^ (Group * (i - 1)) > 0})
    IN  [i \in 1..n |-> ((x \div 2 ^ (Group * (i - 1))) % Flag) + (IF i < n THEN Flag ELSE 0)]

\* Mutant: a negative number without the one that keeps it apart from a positive one.
ZigZagEven(x) == IF x < 0 THEN -2 * x ELSE 2 * x

\* pb_encode_svarint
ZigZag(x) == IF x < 0 THEN -2 * x - 1 ELSE 2 * x
FixedBytes(x, n) == [i \in 1..n |-> (x \div Byte ^ (i - 1)) % Byte]

WireType(f) ==
    CASE f.ltype \in {"uvarint", "varint", "svarint"} -> 0
      [] f.ltype = "fixed64" -> 1
      [] f.ltype = "fixed32" -> 5
      [] OTHER -> 2

\* pb_encode_tag
PutTag(o, type, tag) == Put(o, Varint(8 * tag + type))

\* pb_encode_string
PutString(o, bytes) == Put(Put(o, Varint(Len(bytes))), bytes)

\* pb_check_proto3_default_value, for fields without a has_.
IsZero(f, v) == v = IF f.ltype \in {"bytes", "string", "length"} \/ f.atype = "pointer" THEN <<>> ELSE 0

RECURSIVE PutMessage(_, _, _)

\* pb_encode_submessage: count first, then write no more and no less.
PutSubmessage(o, schema, msg) ==
    LET size == Len(PutMessage(Sizing, schema, msg).out)
        head == Put(o, Varint(size))
        body == PutMessage(Into(size), schema, msg)
    IN  IF ~PutMessage(Sizing, schema, msg).ok THEN Full(o)
        ELSE IF ~head.ok \/ o.sizing THEN Put(head, [i \in 1..size |-> 0])
        ELSE IF Len(head.out) + size > o.max \/ Len(body.out) # size THEN Full(o)
        ELSE [head EXCEPT !.out = @ \o body.out, !.ok = body.ok]

\* The encoder of a value; strings end at the first zero.
PutValue(o, f, v) ==
    CASE f.ltype = "varint" -> Put(o, Varint(IF v < 0 THEN v + 2 ^ Large ELSE v))
      [] f.ltype = "uvarint" -> Put(o, Varint(v))
      [] f.ltype = "svarint" -> Put(o, Varint(ZigZag(v)))
      [] f.ltype \in {"fixed32", "fixed64"} -> Put(o, FixedBytes(v, Fixed(f)))
      [] f.ltype = "bytes" -> IF f.atype = "static" /\ Len(v) > f.size THEN Full(o) ELSE PutString(o, v)
      [] f.ltype = "string" -> PutString(o, SubSeq(v, 1, Min({Len(v)} \cup {i - 1 : i \in {j \in 1..Len(v) : v[j] = 0}})))
      [] f.ltype = "length" -> PutString(o, v)
      [] f.ltype = "message" -> PutSubmessage(o, f.sub, v)

PutTagged(o, f, v) == PutValue(PutTag(o, WireType(f), f.tag), f, v)

\* encode_array: packed if the type allows it.
PutArray(o, f, items) ==
    LET all == FoldLeft(LAMBDA x, v : PutValue(x, f, v), Sizing, items)
        head == Put(PutTag(o, 2, f.tag), Varint(Len(all.out)))
    IN  IF items = <<>> THEN o
        ELSE IF f.atype # "pointer" /\ Len(items) > f.count THEN Full(o)
        ELSE IF Packable(f) THEN FoldLeft(LAMBDA x, v : PutValue(x, f, v), head, items)
        ELSE FoldLeft(LAMBDA x, v : PutTagged(x, f, v), o, items)

\* encode_basic_field; a null pointer is a field that is not there.
PutField(o, f, slot) ==
    LET there == f.atype # "pointer" \/ slot.v # <<>>
        v == IF f.atype = "pointer" /\ there THEN slot.v[1] ELSE slot.v
    IN  CASE f.htype = "required" -> IF there THEN PutTagged(o, f, v) ELSE Full(o)
          [] f.htype = "singular" -> IF IsZero(f, slot.v) THEN o ELSE PutTagged(o, f, v)
          [] f.htype = "optional" -> IF (IF f.atype = "pointer" THEN there ELSE slot.n = 1) THEN PutTagged(o, f, v) ELSE o
          [] f.htype = "oneof" -> IF slot.n = f.tag THEN PutTagged(o, f, v) ELSE o
          [] f.htype = "repeated" -> IF there THEN PutArray(o, f, v) ELSE o

\* encode_callback_field: the callback writes its values, each with a tag.
PutCallback(o, f, slot) == FoldLeft(LAMBDA x, v : PutTagged(x, f, v), o, slot.v)

\* encode_extension_field: each extension that is there.
PutExtensions(o, f, slot) == PutMessage(o, f.sub, slot.v)

\* pb_encode
PutMessage(o, schema, msg) ==
    FoldLeft(LAMBDA x, i :
                IF schema[i].ltype = "extension" THEN PutExtensions(x, schema[i], msg[i])
                ELSE IF schema[i].atype = "callback" THEN PutCallback(x, schema[i], msg[i])
                ELSE PutField(x, schema[i], msg[i]),
             o, FieldIter(schema))

-----------------------------------------------------------------------------
\* Input streams: c.in is what is left, c.fuel and c.live stand for the heap.  A decoder
\* returns the stream and a value, also when it fails: what was allocated is in it.

Fail(c) == [c EXCEPT !.ok = FALSE]
Both(c, v) == [c |-> c, v |-> v]

\* What a caller does with the result of a decoder.
Then(r, Goes(_)) == Goes(r)

\* pb_read
Read(c, n) ==
    IF ~c.ok \/ Len(c.in) < n THEN Both(Fail(c), <<>>)
    ELSE Both([c EXCEPT !.in = SubSeq(@, n + 1, Len(@))], SubSeq(c.in, 1, n))

\* The length of the varint at the front, 0 if it does not end.
VarintLength(s) == LET ends == {i \in 1..Len(s) : s[i] < Flag} IN IF ends = {} THEN 0 ELSE Min(ends)
Payload(s, i) == s[i] % Flag

\* pb_decode_varint32: bytes beyond its width must extend the sign.
Varint32(c) ==
    LET n == VarintLength(c.in)
        Term(i) == IF Group * (i - 1) < Small THEN Payload(c.in, i) * 2 ^ (Group * (i - 1)) ELSE 0
        x == SumTo(n, Term) % 2 ^ Small
        Extends(i) == c.in[i] = IF Group * (i - 1) < Large - 1 THEN Byte - 1 ELSE 1
        beyond == {i \in 1..n : Group * (i - 1) >= Small /\ Payload(c.in, i) # 0}
        cut == n = 2 /\ Payload(c.in, 2) >= 2 ^ (Small - Group)
    IN  IF ~c.ok \/ n = 0 \/ cut \/ \E i \in beyond : x < 2 ^ (Small - 1) \/ ~Extends(i)
          THEN Both(Fail(c), 0) ELSE Both(Read(c, n).c, x)

\* pb_decode_varint: as many bytes as its width has room for.
Varint64(c) ==
    LET n == VarintLength(c.in)
        Term(i) == Payload(c.in, i) * 2 ^ (Group * (i - 1))
    IN  IF ~c.ok \/ n = 0 \/ Group * (n - 1) >= Large THEN Both(Fail(c), 0)
        ELSE Both(Read(c, n).c, SumTo(n, Term) % 2 ^ Large)

\* pb_make_string_substream, and pb_close_string_substream: the parent goes on behind it,
\* with the heap as the decoding of the substream left it.
Substream(c) == Then(Varint32(c), LAMBDA size : Read(size.c, size.v))
Enter(r) == [r.c EXCEPT !.in = r.v]
Leave(r, inner) == [inner EXCEPT !.in = r.c.in]

\* pb_skip_field
Skip(c, type) ==
    CASE type = 0 -> IF VarintLength(c.in) = 0 THEN Fail(c) ELSE Read(c, VarintLength(c.in)).c
      [] type = 1 -> Read(c, Eight).c
      [] type = 2 -> Substream(c).c
      [] type = 5 -> Read(c, Four).c
      [] OTHER -> Fail(c)

\* read_raw_value, for a callback: at most the bytes of its buffer.
RawValue(c, type) ==
    LET n == VarintLength(c.in)
    IN  CASE type = 0 -> IF n \in 1..(Groups + 1) THEN Read(c, n) ELSE Both(Fail(c), <<>>)
          [] type = 1 -> Read(c, Eight)
          [] type = 5 -> Read(c, Four)
          [] OTHER -> Both(Fail(c), <<>>)

-----------------------------------------------------------------------------
\* Memory.

\* allocate_field: a pointer that is already set is extended.
Allocate(c, pointer) ==
    IF ~c.ok \/ c.fuel = 0 THEN Fail(c)
    ELSE [c EXCEPT !.fuel = @ - 1, !.live = IF pointer = <<>> THEN @ + 1 ELSE @]

\* pb_message_set_to_defaults
RECURSIVE Default(_)
DefaultValue(f) ==
    IF f.htype = "repeated" \/ f.atype \in {"pointer", "callback"} \/ f.ltype \in {"bytes", "string"} THEN <<>>
    ELSE IF f.ltype = "length" THEN [i \in 1..f.size |-> 0]
    ELSE IF f.ltype \in {"message", "extension"} THEN Default(f.sub) ELSE 0
Default(schema) == [i \in 1..Len(schema) |-> [n |-> 0, v |-> DefaultValue(schema[i])]]

\* pb_release, pb_release_single_field: what is in a submessage goes first.
RECURSIVE Release(_, _, _)
ReleaseAll(c, schema, items) ==
    FoldLeft(LAMBDA r, m : Then(Release(r.c, schema, m), LAMBDA one : Both(one.c, Append(r.v, one.v))), Both(c, <<>>), items)
ReleaseField(c, f, slot) ==
    LET current == f.htype = "oneof" => slot.n = f.tag
        nested == f.ltype \in {"message", "extension"}
        items == IF f.htype = "repeated" \/ f.atype = "pointer" THEN slot.v ELSE <<slot.v>>
    IN  IF ~current THEN Both(c, slot)
        ELSE Then(IF nested THEN ReleaseAll(c, f.sub, items) ELSE Both(c, items), LAMBDA inner :
            IF f.atype = "pointer"
              THEN Both([inner.c EXCEPT !.live = IF slot.v = <<>> THEN @ ELSE @ - 1],
                        [slot EXCEPT !.v = <<>>, !.n = IF f.htype = "repeated" THEN 0 ELSE @])
            ELSE IF nested THEN Both(inner.c, [slot EXCEPT !.v = IF f.htype = "repeated" THEN inner.v ELSE inner.v[1]])
            ELSE Both(c, slot))
Release(c, schema, msg) ==
    FoldLeft(LAMBDA r, i : Then(ReleaseField(r.c, schema[i], r.v[i]), LAMBDA one : Both(one.c, [r.v EXCEPT ![i] = one.v])),
             Both(c, msg), FieldIter(schema))

-----------------------------------------------------------------------------
\* Decoders of values; old is what is there before.

RECURSIVE DecodeNoinit(_, _, _)

\* Mutant: what was allocated before the error is forgotten.
DecodeForgets(c, schema) ==
    LET r == DecodeNoinit(c, schema, Default(schema)) IN IF r.c.ok THEN r ELSE Both(r.c, Default(schema))

\* pb_decode: with defaults first, and nothing left allocated after an error.
Decode(c, schema) ==
    Then(DecodeNoinit(c, schema, Default(schema)), LAMBDA r : IF r.c.ok THEN r ELSE Release(r.c, schema, r.v))

\* A number must fit its field; negative ones may have been cut to 32 bits.
DecodeInt(c, f) ==
    LET r == Varint64(c)
        x == CASE f.ltype = "uvarint" -> r.v
               [] f.ltype = "varint" -> IF f.size = Large THEN Signed(r.v, Large) ELSE Signed(r.v % 2 ^ Small, Small)
               [] f.ltype = "svarint" -> IF r.v % 2 = 1 THEN -(r.v \div 2) - 1 ELSE r.v \div 2
        fits == IF f.ltype = "uvarint" THEN x < 2 ^ f.size ELSE -(2 ^ (f.size - 1)) <= x /\ x < 2 ^ (f.size - 1)
    IN  IF r.c.ok /\ fits THEN Both(r.c, x) ELSE Both(Fail(c), 0)

DecodeFixed(c, f) ==
    LET r == Read(c, Fixed(f))
        Term(i) == r.v[i] * Byte ^ (i - 1)
    IN  Both(r.c, IF r.c.ok THEN SumTo(Fixed(f), Term) ELSE 0)

\* pb_dec_bytes, pb_dec_string (which has a terminating zero to store) and
\* pb_dec_fixed_length_bytes.
DecodeBytes(c, f, old) ==
    Then(Varint32(c), LAMBDA size :
        IF ~size.c.ok THEN Both(size.c, old)
        ELSE IF f.atype = "pointer"
          THEN Then(Allocate(size.c, old), LAMBDA a :
                   IF ~a.ok THEN Both(a, old) ELSE Then(Read(a, size.v), LAMBDA r : Both(r.c, <<r.v>>)))
        ELSE IF size.v + (IF f.ltype = "string" THEN 1 ELSE 0) > f.size THEN Both(Fail(size.c), old)
        ELSE Read(size.c, size.v))
DecodeLength(c, f) ==
    Then(Varint32(c), LAMBDA size :
        IF size.v = 0 THEN Both(size.c, [i \in 1..f.size |-> 0])
        ELSE IF size.v # f.size THEN Both(Fail(c), DefaultValue(f)) ELSE Read(size.c, f.size))

\* pb_dec_submessage: entries of arrays start from defaults, others were initialized.
DecodeSubmessage(c, f, old) ==
    Then(Substream(c), LAMBDA r :
        IF ~r.c.ok THEN Both(r.c, old)
        ELSE Then(IF f.htype = "repeated" THEN Decode(Enter(r), f.sub) ELSE DecodeNoinit(Enter(r), f.sub, old),
                  LAMBDA m : Both(Leave(r, m.c), m.v)))

DecodeNumber(c, f) == IF f.ltype \in {"fixed32", "fixed64"} THEN DecodeFixed(c, f) ELSE DecodeInt(c, f)
DecodeValue(c, f, old) ==
    CASE Packable(f) -> DecodeNumber(c, f)
      [] f.ltype \in {"bytes", "string"} -> DecodeBytes(c, f, old)
      [] f.ltype = "length" -> DecodeLength(c, f)
      [] f.ltype = "message" -> DecodeSubmessage(c, f, old)

-----------------------------------------------------------------------------
\* Decoders of fields.

\* The items of a packed array, as long as there is room; memory for more is allocated
\* when what was allocated is used up.
RECURSIVE PackedItems(_, _, _, _)
PackedItems(c, f, items, room) ==
    LET used == Len(items) >= room
        guess == IF used THEN room + Len(c.in) ELSE room
        Stop(d, size) == [c |-> d, v |-> items, room |-> size]
    IN  IF c.in = <<>> \/ (f.atype = "static" /\ Len(items) >= f.count) THEN Stop(c, room)
        ELSE Then(IF f.atype = "pointer" /\ used THEN Allocate(c, IF room = 0 THEN <<>> ELSE <<items>>) ELSE c, LAMBDA more :
            IF ~more.ok THEN Stop(more, room)
            ELSE Then(DecodeNumber(more, f), LAMBDA r :
                IF ~r.c.ok THEN Stop(r.c, guess) ELSE PackedItems(r.c, f, Append(items, r.v), guess)))

\* decode_static_field, PB_HTYPE_REPEATED
StaticArray(c, f, type, slot) ==
    IF type = 2 /\ Packable(f)
      THEN Then(Substream(c), LAMBDA sub :
               IF ~sub.c.ok THEN Both(sub.c, slot)
               ELSE Then(PackedItems(Enter(sub), f, slot.v, 0), LAMBDA p :
                   Both(IF p.c.in # <<>> THEN Fail(Leave(sub, p.c)) ELSE Leave(sub, p.c), [n |-> Len(p.v), v |-> p.v])))
    ELSE IF slot.n >= f.count THEN Both(Fail(c), [slot EXCEPT !.n = @ + 1])
    ELSE Then(DecodeValue(c, f, IF f.ltype = "message" THEN Default(f.sub) ELSE <<>>), LAMBDA r :
             Both(r.c, [n |-> slot.n + 1, v |-> Append(slot.v, r.v)]))

StaticField(c, f, type, slot) ==
    IF f.htype = "repeated" THEN StaticArray(c, f, type, slot)
    ELSE Then(DecodeValue(c, f, IF f.htype = "oneof" /\ f.ltype = "message" THEN Default(f.sub) ELSE slot.v),
              LAMBDA r : CASE f.htype \in {"required", "singular"} -> Both(r.c, [slot EXCEPT !.v = r.v])
                           [] f.htype = "optional" -> Both(r.c, [n |-> 1, v |-> r.v])
                           [] f.htype = "oneof" -> Both(r.c, [n |-> f.tag, v |-> r.v]))

\* decode_pointer_field, PB_HTYPE_REPEATED, for numbers.
PointerArray(c, f, type, slot) ==
    LET items == IF slot.v = <<>> THEN <<>> ELSE slot.v[1]
    IN  IF type = 2
          THEN Then(Substream(c), LAMBDA sub :
                   IF ~sub.c.ok THEN Both(sub.c, slot)
                   ELSE Then(PackedItems(Enter(sub), f, items, Len(items)), LAMBDA p :
                       Both(Leave(sub, p.c), [n |-> Len(p.v), v |-> IF p.room = 0 THEN <<>> ELSE <<p.v>>])))
        ELSE Then(Allocate(c, slot.v), LAMBDA a :
                 IF ~a.ok THEN Both(a, [slot EXCEPT !.n = @ + 1])
                 ELSE Then(DecodeNumber(a, f), LAMBDA r : Both(r.c, [n |-> slot.n + 1, v |-> <<Append(items, r.v)>>])))

\* decode_pointer_field: a submessage that is there is released first.
PointerField(c, f, type, slot) ==
    LET N(freed) == IF f.htype = "oneof" THEN f.tag ELSE freed.v.n
        fresh == IF f.ltype = "message" THEN Default(f.sub) ELSE 0
    IN  IF f.htype = "repeated" THEN PointerArray(c, f, type, slot)
        ELSE Then(IF f.ltype = "message" /\ slot.v # <<>> THEN ReleaseField(c, f, slot) ELSE Both(c, slot), LAMBDA freed :
            IF f.ltype \in {"bytes", "string"}
              THEN Then(DecodeBytes(freed.c, f, freed.v.v), LAMBDA r : Both(r.c, [n |-> N(freed), v |-> r.v]))
            ELSE Then(Allocate(freed.c, freed.v.v), LAMBDA a :
                IF ~a.ok THEN Both(a, [n |-> N(freed), v |-> freed.v.v])
                ELSE Then(DecodeValue(a, f, fresh), LAMBDA r : Both(r.c, [n |-> N(freed), v |-> <<r.v>>]))))

\* The callback of a caller, which takes one number at a time.
Callback(c, items) == Then(Varint64(c), LAMBDA r : Both(r.c, IF r.c.ok THEN Append(items, r.v) ELSE items))
RECURSIVE CallbackAll(_, _)
CallbackAll(c, items) ==
    Then(Callback(c, items), LAMBDA r : IF ~r.c.ok \/ r.c.in = <<>> THEN r ELSE CallbackAll(r.c, r.v))

\* decode_callback_field: once for each value in a string; without a callback (count 0)
\* the field is skipped.
CallbackField(c, f, type, slot) ==
    IF f.count = 0 THEN Both(Skip(c, type), slot)
    ELSE Then(IF type = 2 THEN Substream(c) ELSE RawValue(c, type), LAMBDA sub :
        IF ~sub.c.ok THEN Both(sub.c, slot)
        ELSE Then(IF type = 2 THEN CallbackAll(Enter(sub), slot.v) ELSE Callback(Enter(sub), slot.v), LAMBDA r :
            Both(Leave(sub, r.c), [slot EXCEPT !.v = r.v])))

\* pb_release_union_field: the other member of the union that was there is released.
ReleaseUnion(c, schema, msg, i) ==
    LET old == {j \in 1..Len(schema) : schema[j].htype = "oneof" /\ msg[j].n = schema[j].tag} \ {i}
    IN  IF schema[i].htype # "oneof" \/ old = {} THEN Both(c, msg)
        ELSE Then(CHOOSE j \in old : TRUE, LAMBDA j :
                 Then(ReleaseField(c, schema[j], msg[j]), LAMBDA r : Both(r.c, [msg EXCEPT ![j] = r.v])))

\* decode_field, for the i-th field; which_ is one for all members of a union, and so is
\* their memory.
DecodeField(c, schema, msg, i, type) ==
    LET f == schema[i]
        Slot(u, r, k) ==
            IF k = i THEN r.v
            ELSE IF f.htype = "oneof" /\ schema[k].htype = "oneof" THEN [n |-> r.v.n, v |-> DefaultValue(schema[k])]
            ELSE u.v[k]
    IN  Then(ReleaseUnion(c, schema, msg, i), LAMBDA u :
            Then(CASE f.atype = "static" -> StaticField(u.c, f, type, u.v[i])
                   [] f.atype = "pointer" -> PointerField(u.c, f, type, u.v[i])
                   [] f.atype = "callback" -> CallbackField(u.c, f, type, u.v[i]), LAMBDA r : Both(r.c, [k \in 1..Len(schema) |-> Slot(u, r, k)])))

\* decode_extension, default_extension_decoder: the first one with that tag.
DecodeExtension(c, schema, msg, e, tag, type) ==
    LET mine == {i \in 1..Len(schema[e].sub) : schema[e].sub[i].tag = tag}
    IN  IF mine = {} THEN Both(Skip(c, type), msg)
        ELSE Then(DecodeField(c, schema[e].sub, msg[e].v, Min(mine), type), LAMBDA r :
                 Both(r.c, [msg EXCEPT ![e].v = [r.v EXCEPT ![Min(mine)].n = 1]]))

\* The loop of pb_decode_noinit: seen are the required fields met.
RECURSIVE Fields(_, _, _, _)
Fields(c, schema, msg, seen) ==
    LET Known(t) == FieldIterFind(schema, t.v \div 8)
        Ext(t) == {i \in 1..Len(schema) : schema[i].ltype = "extension" /\ schema[i].tag <= t.v \div 8}
        Stop(d, m) == [c |-> d, v |-> m, seen |-> seen]
    IN  Then(Varint32(c), LAMBDA t :
            IF c.in = <<>> \/ (t.c.ok /\ t.v = 0) THEN Stop(c, msg)
            ELSE IF ~t.c.ok THEN Stop(t.c, msg)
            ELSE Then(IF Known(t) # {} THEN DecodeField(t.c, schema, msg, Min(Known(t)), t.v % 8)
                      ELSE IF Ext(t) # {} THEN DecodeExtension(t.c, schema, msg, Min(Ext(t)), t.v \div 8, t.v % 8)
                      ELSE Both(Skip(t.c, t.v % 8), msg), LAMBDA r :
                     IF ~r.c.ok THEN Stop(r.c, r.v) ELSE Fields(r.c, schema, r.v, seen \cup Known(t))))

\* pb_decode_noinit: a zero ends a message, and no required field may be missing.
DecodeNoinit(c, schema, msg) ==
    LET Required == {i \in 1..Len(schema) : schema[i].htype = "required"}
    IN  Then(Fields(c, schema, msg, {}), LAMBDA r : Both(IF Required \subseteq r.seen THEN r.c ELSE Fail(r.c), r.v))

-----------------------------------------------------------------------------
\* A caller.

\* Values of a field that a caller may set, and the messages made of them.
RECURSIVE Messages(_)
Values(f) ==
    CASE f.ltype = "uvarint" -> {2 ^ f.size - 1}
      [] f.ltype \in {"varint", "svarint"} -> {1, -(2 ^ (f.size - 1))}
      [] f.ltype \in {"fixed32", "fixed64"} -> {0, Byte + 1}
      [] f.ltype = "string" -> {<<>>, [i \in 1..(f.size - 1) |-> Flag]}
      [] f.ltype \in {"bytes", "length"} -> {[i \in 1..f.size |-> Flag]}
      [] f.ltype = "message" -> Messages(f.sub)
Slots(f) ==
    LET there == CASE f.htype = "repeated" \/ f.atype = "callback" -> UNION {[1..k -> Values(f)] : k \in 0..2} [] OTHER -> Values(f)
        Number(v) == CASE f.atype = "callback" -> 0 [] f.htype = "repeated" -> Len(v) [] f.htype = "optional" /\ f.atype = "static" -> 1 [] OTHER -> 0
        Held(v) == IF f.atype = "pointer" THEN (IF v = <<>> /\ f.htype = "repeated" THEN <<>> ELSE <<v>>) ELSE v
        Found(m) == [k \in DOMAIN m |-> [m[k] EXCEPT !.n = IF f.sub[k].atype = "pointer" THEN Len(m[k].v) ELSE @]]
    IN  IF f.ltype = "extension" THEN {[n |-> 0, v |-> Found(m)] : m \in Messages(f.sub)}
        ELSE {[n |-> Number(v), v |-> Held(v)] : v \in there}
             \cup (IF f.htype = "optional" THEN {[n |-> 0, v |-> DefaultValue(f)]} ELSE {})
Messages(schema) ==
    LET union == {i \in 1..Len(schema) : schema[i].htype = "oneof"}
        All(i) == {[s EXCEPT !.n = IF i \in union THEN schema[i].tag ELSE @] : s \in Slots(schema[i])}
        Set(i, w) == IF i \in union /\ i # w THEN {[n |-> IF w = 0 THEN 0 ELSE schema[w].tag, v |-> DefaultValue(schema[i])]} ELSE All(i)
        Made(w) == FoldLeft(LAMBDA ms, i : {Append(m, s) : m \in ms, s \in Set(i, w)}, {<<>>}, FieldIter(schema))
    IN  UNION {Made(w) : w \in union \cup {0}}

Init == wire = <<>> /\ parts = 0 /\ sent = <<>> /\ result = None

\* The caller encodes a message into a buffer that is big enough.
EncodeOne(schema, msg) ==
    /\ result = None
    /\ parts < MaxParts
    /\ LET o == PutMessage(Into(1000), schema, msg)
       IN  o.ok /\ wire' = wire \o o.out
    /\ parts' = parts + 1
    /\ sent' = IF parts = 0 THEN <<[schema |-> schema, msg |-> msg]>> ELSE <<>>
    /\ UNCHANGED result

\* The end does not arrive.
CutOff ==
    /\ result = None
    /\ \E n \in 1..(Len(wire) - 1) : wire' = SubSeq(wire, 1, n)
    /\ parts' = MaxParts
    /\ sent' = <<>>
    /\ UNCHANGED result

\* The other side decodes what it got, by its own table.
DecodeOne(schema, fuel) ==
    /\ result = None
    /\ result' = Then(Decode([in |-> wire, ok |-> TRUE, fuel |-> fuel, live |-> 0], schema), LAMBDA r :
                     [ok |-> r.c.ok, live |-> r.c.live, schema |-> schema, msg |-> r.v])
    /\ UNCHANGED <<wire, parts, sent>>

Next ==
    \/ \E schema \in Schemas : \E msg \in Messages(schema) : EncodeOne(schema, msg)
    \/ CutOff
    \/ \E schema \in Schemas, fuel \in Fuels : DecodeOne(schema, fuel)

Spec == Init /\ [][Next]_vars

-----------------------------------------------------------------------------
\* Properties.

\* The pointers in a message that are set.
RECURSIVE Pointers(_, _)
Pointers(schema, msg) ==
    MapThenSumSet(LAMBDA i :
        LET f == schema[i]
            items == IF f.htype = "repeated" \/ f.atype = "pointer" THEN msg[i].v ELSE <<msg[i].v>>
            inner == IF f.ltype \in {"message", "extension"}
                       THEN MapThenSumSet(LAMBDA k : Pointers(f.sub, items[k]), 1..Len(items)) ELSE 0
        IN  inner + (IF f.atype = "pointer" THEN Len(msg[i].v) ELSE 0), 1..Len(schema))

\* Whatever bytes are decoded, cut off, of another message or of two, and wherever an
\* allocation fails: every block that was allocated is in the message, and after an
\* error there is none and no pointer is left over.
NothingLeaks ==
    result # None =>
        /\ result.live = Pointers(result.schema, result.msg)
        /\ ~result.ok => result.live = 0

\* A message that arrives whole is decoded as it was, by the size counted beforehand;
\* a buffer that is too small for it is refused.
RoundTrip ==
    \A m \in Range(sent) :
        /\ Len(PutMessage(Sizing, m.schema, m.msg).out) = Len(wire)
        /\ \A max \in 0..(Len(wire) - 1) : ~PutMessage(Into(max), m.schema, m.msg).ok
        /\ Decode([in |-> wire, ok |-> TRUE, fuel |-> 9, live |-> 0], m.schema).c.ok
        /\ result # None /\ result.schema = m.schema /\ result.ok => result.msg = m.msg

=============================================================================
