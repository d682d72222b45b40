------------------------------ MODULE LogFile ------------------------------
(***************************************************************************)
(* LevelDB's log format: log::Writer cuts records into physical records    *)
(* that never cross a block, log::Reader puts them together again.  The    *)
(* write-ahead log and the MANIFEST are written in it, and everything the  *)
(* database client keeps on the device is recovered through it.            *)
(*                                                                         *)
(* A file is a sequence of cells, one for a byte.  A physical record is a  *)
(* header, whose first cell stands for its type and length, and its        *)
(* payload; each payload cell names the record and the position in it.     *)
(* The checksum of a physical record is right when none of its cells was   *)
(* damaged.  Positions are byte offsets: cell p is file[p + 1].            *)
(***************************************************************************)
EXTENDS Integers, Sequences, SequencesExt

CONSTANTS
    BlockSize,  \* kBlockSize
    HeaderSize, \* kHeaderSize
    MaxRecords, \* bound on the records written
    MaxSize     \* bound on the size of a record

ASSUME LogFileAssumption ==
    /\ {BlockSize, HeaderSize, MaxRecords, MaxSize} \subseteq Nat
    /\ 1 < HeaderSize /\ HeaderSize < BlockSize

VARIABLES
    phase,    \* "write", "read", "end": ReadRecord returned false
    file,     \* the cells
    written,  \* the records: size, and the offsets of their first and past their last cell
    left,     \* what AddRecord has still to write of the last record, -1 between calls
    synced,   \* the length of the file at the last fsync
    damage,   \* what the medium did to the file: the offset of a bad cell, or -1
    initial,  \* initial_offset_
    start,    \* the offset of the first cell in buffer_
    end,      \* end_of_buffer_offset_
    eof,      \* eof_
    resync,   \* resyncing_
    scratch,  \* the payload cells collected so far
    fragment, \* in_fragmented_record
    result,   \* the records returned, as sequences of payload cells
    reported  \* reporter_->Corruption was called

writerVars == <<file, written, left, synced>>
bufferVars == <<start, end, eof>>
recordVars == <<resync, scratch, fragment, result, reported>>
vars == <<phase, writerVars, damage, initial, bufferVars, recordVars>>

Min2(a, b) == IF a < b THEN a ELSE b
ZeroCell == [kind |-> "zero"]
HeaderCell == [kind |-> "header"]
MetaCell(type, len) == [kind |-> "meta", type |-> type, len |-> len]
DataCell(rec, pos) == [kind |-> "data", rec |-> rec, pos |-> pos]
Repeat(cell, n) == [i \in 1..n |-> cell]

Init ==
    /\ phase = "write"
    /\ file = <<>>
    /\ written = <<>>
    /\ left = -1
    /\ synced = 0
    /\ damage = -1
    /\ initial = 0
    /\ start = 0
    /\ end = 0
    /\ eof = FALSE
    /\ resync = FALSE
    /\ scratch = <<>>
    /\ fragment = FALSE
    /\ result = <<>>
    /\ reported = FALSE

-----------------------------------------------------------------------------
\* The writer.

\* AddRecord is called; a writer opened on a file of some length goes on from there.
AddRecord(size) ==
    /\ phase = "write"
    /\ left = -1
    /\ Len(written) < MaxRecords
    /\ written' = Append(written, [size |-> size, from |-> -1, to |-> -1])
    /\ left' = size
    /\ UNCHANGED <<phase, file, synced, damage, initial, bufferVars, recordVars>>

Leftover == BlockSize - (Len(file) % BlockSize)

Type(begin, last) ==
    IF begin /\ last THEN "full" ELSE IF begin THEN "first" ELSE IF last THEN "last" ELSE "middle"

\* One round of AddRecord's loop: fill the trailer, then EmitPhysicalRecord.
Emit ==
    /\ phase = "write"
    /\ left >= 0
    /\ LET rec == Last(written)
           pad == IF Leftover < HeaderSize THEN Leftover ELSE 0
           at == Len(file) + pad
           avail == BlockSize - (at % BlockSize) - HeaderSize
           n == Min2(left, avail)
           begin == rec.from = -1
       IN  /\ file' = file \o Repeat(ZeroCell, pad)
                        \o <<MetaCell(Type(begin, n = left), n)>>
                        \o Repeat(HeaderCell, HeaderSize - 1)
                        \o [i \in 1..n |-> DataCell(Len(written), rec.size - left + i)]
           /\ written' = [written EXCEPT ![Len(written)] =
                            [@ EXCEPT !.from = IF begin THEN at ELSE @,
                                      !.to = IF n = left THEN at + HeaderSize + n ELSE @]]
           /\ left' = IF n = left THEN -1 ELSE left - n
    /\ UNCHANGED <<phase, synced, damage, initial, bufferVars, recordVars>>

Sync ==
    /\ phase = "write"
    /\ left = -1
    /\ synced' = Len(file)
    /\ UNCHANGED <<phase, file, written, left, damage, initial, bufferVars, recordVars>>

-----------------------------------------------------------------------------
\* What happens to the file before it is read.

\* Mutant: the trailer is taken to be as long as a header.
SkipToEarly(offset) ==
    LET inBlock == offset % BlockSize
    IN  IF inBlock >= BlockSize - HeaderSize THEN offset - inBlock + BlockSize
                                             ELSE offset - inBlock

\* SkipToInitialBlock: the block of the offset, or the next if it is in the trailer.
SkipTo(offset) ==
    LET inBlock == offset % BlockSize
    IN  IF inBlock > BlockSize - (HeaderSize - 1) THEN offset - inBlock + BlockSize
                                                  ELSE offset - inBlock

\* The reader's constructor and its first call.
Open(offset) ==
    /\ phase' = "read"
    /\ initial' = offset
    /\ resync' = (offset > 0)
    /\ start' = SkipTo(offset)
    /\ end' = SkipTo(offset)
    /\ UNCHANGED <<eof, scratch, fragment, result, reported>>

\* A crash keeps what was synced and any part of the rest; where a physical record
\* ends the file system may have preallocated zeros.
CrashAndOpen(length, zeros) ==
    /\ phase = "write"
    /\ length \in synced..Len(file)
    /\ zeros > 0 => length = Len(file)
    /\ file' = SubSeq(file, 1, length) \o Repeat(ZeroCell, zeros)
    /\ Open(0)
    /\ UNCHANGED <<written, left, synced, damage>>

\* The whole file is read, from some offset.
OpenAt(offset) ==
    /\ phase = "write"
    /\ left = -1
    /\ offset \in 1..Len(file)
    /\ Open(offset)
    /\ UNCHANGED <<writerVars, damage>>

\* The medium returns a bad cell.
DamageAndOpen(at) ==
    /\ phase = "write"
    /\ left = -1
    /\ at \in 0..(Len(file) - 1)
    /\ damage' = at
    /\ Open(0)
    /\ UNCHANGED writerVars

-----------------------------------------------------------------------------
\* The reader.  Physical records end in one of the outcomes of ReadPhysicalRecord,
\* which ReadRecord acts upon.

Reading == phase = "read"
Size == end - start
Meta == file[start + 1]
PayloadAt(p, n) == SubSeq(file, p + HeaderSize + 1, p + HeaderSize + n)
Damaged(from, to) == damage \in from..(to - 1)

\* "Last read was a full read, so this is a trailer to skip": the next block.
Refill ==
    /\ Reading
    /\ Size < HeaderSize
    /\ ~eof
    /\ LET to == Min2(end + BlockSize, Len(file))
       IN  /\ start' = end
           /\ end' = IF to < end THEN end ELSE to
           /\ eof' = (to - end < BlockSize)
    /\ UNCHANGED <<phase, writerVars, damage, initial, recordVars>>

\* ReportDrop, for drops at or after the initial offset.
Report(bytes, at) == reported' = (reported \/ at - bytes >= initial)

\* kEof: ReadRecord drops what it has of the record and returns false.
Eof ==
    /\ phase' = "end"
    /\ start' = end
    /\ scratch' = <<>>
    /\ UNCHANGED <<writerVars, damage, initial, end, eof, resync, fragment, result>>

\* Mutant: what was read of an unfinished record is returned.
TruncatedHeaderKeeps ==
    /\ Reading
    /\ Size < HeaderSize
    /\ eof
    /\ phase' = "end"
    /\ start' = end
    /\ scratch' = <<>>
    /\ result' = IF fragment THEN Append(result, scratch) ELSE result
    /\ UNCHANGED <<writerVars, damage, initial, end, eof, resync, fragment, reported>>

\* The file ends in the middle of a header.
TruncatedHeader ==
    /\ Reading
    /\ Size < HeaderSize
    /\ eof
    /\ Eof
    /\ UNCHANGED reported

\* The read of the next block fails.
ReadFails ==
    /\ Reading
    /\ Size < HeaderSize
    /\ ~eof
    /\ damage \in end..(end + BlockSize - 1)
    /\ Eof
    /\ reported' = TRUE

Parsed == Reading /\ Size >= HeaderSize

\* The length in the header, which is anything if a header cell is bad.
Lengths ==
    IF Damaged(start, start + HeaderSize) THEN 0..BlockSize
    ELSE IF Meta.kind = "meta" THEN {Meta.len} ELSE {0}

\* kBadRecord: a record begun is lost; the buffer goes on at next.
BadRecord(next, bytes, report) ==
    /\ start' = next
    /\ resync' = FALSE
    /\ fragment' = FALSE
    /\ scratch' = <<>>
    /\ IF report \/ (fragment /\ ~resync)
         THEN Report(IF fragment THEN Len(scratch) ELSE bytes, next)
         ELSE UNCHANGED reported
    /\ UNCHANGED <<phase, writerVars, damage, initial, end, eof, result>>

\* The payload goes past the buffer: at the end of the file the writer died, elsewhere
\* the record is bad.
BadLength ==
    /\ Parsed
    /\ \E n \in Lengths : HeaderSize + n > Size
    /\ IF eof THEN Eof /\ UNCHANGED reported ELSE BadRecord(end, Size, TRUE)

Fits == Parsed /\ \E n \in Lengths : HeaderSize + n <= Size

ZeroRecord ==
    /\ Fits
    /\ Meta.kind = "zero"
    /\ BadRecord(end, Size, FALSE)

\* The checksum is wrong: "length" itself may have been corrupted, so the rest of the
\* buffer is dropped.
BadChecksum ==
    /\ Fits
    /\ Meta.kind # "zero"
    /\ Meta.kind # "meta" \/ Damaged(start, start + HeaderSize + Meta.len)
    /\ BadRecord(end, Size, TRUE)

\* A good physical record, and where it ends.
Good ==
    /\ Parsed
    /\ Meta.kind = "meta"
    /\ HeaderSize + Meta.len <= Size
    /\ ~Damaged(start, start + HeaderSize + Meta.len)

PhysicalEnd == start + HeaderSize + Meta.len
Payload == PayloadAt(start, Meta.len)

\* "Skip physical record that started before initial_offset_".
SkipBelow ==
    /\ Good
    /\ start < initial
    /\ BadRecord(PhysicalEnd, 0, FALSE)

\* While resyncing the rest of a record that began before the initial offset is skipped.
Resync ==
    /\ Good
    /\ start >= initial
    /\ resync
    /\ Meta.type \in {"middle", "last"}
    /\ start' = PhysicalEnd
    /\ resync' = (Meta.type = "middle")
    /\ UNCHANGED <<phase, writerVars, damage, initial, end, eof, scratch, fragment, result, reported>>

Taken ==
    /\ Good
    /\ start >= initial
    /\ ~(resync /\ Meta.type \in {"middle", "last"})
    /\ start' = PhysicalEnd
    /\ resync' = FALSE
    /\ UNCHANGED <<phase, writerVars, damage, initial, end, eof>>

\* A record begun before this one has no end.
ReportPartial ==
    IF fragment /\ scratch # <<>> THEN Report(Len(scratch), PhysicalEnd) ELSE UNCHANGED reported

FullRecord ==
    /\ Taken
    /\ Meta.type = "full"
    /\ result' = Append(result, Payload)
    /\ scratch' = <<>>
    /\ fragment' = FALSE
    /\ ReportPartial

FirstFragment ==
    /\ Taken
    /\ Meta.type = "first"
    /\ scratch' = Payload
    /\ fragment' = TRUE
    /\ ReportPartial
    /\ UNCHANGED result

\* Mutant: a fragment is taken whether or not its record was begun.
LaterFragmentUnchecked ==
    /\ Taken
    /\ Meta.type \in {"middle", "last"}
    /\ IF Meta.type = "last"
         THEN /\ result' = Append(result, scratch \o Payload)
              /\ scratch' = <<>>
              /\ fragment' = FALSE
         ELSE /\ scratch' = scratch \o Payload
              /\ UNCHANGED <<result, fragment>>
    /\ UNCHANGED reported

\* A middle or last fragment belongs to a record that was begun, or is dropped.
LaterFragment ==
    /\ Taken
    /\ Meta.type \in {"middle", "last"}
    /\ IF ~fragment
         THEN /\ Report(Meta.len, PhysicalEnd)
              /\ UNCHANGED <<result, scratch, fragment>>
         ELSE /\ IF Meta.type = "last"
                   THEN /\ result' = Append(result, scratch \o Payload)
                        /\ scratch' = <<>>
                        /\ fragment' = FALSE
                   ELSE /\ scratch' = scratch \o Payload
                        /\ UNCHANGED <<result, fragment>>
              /\ UNCHANGED reported

-----------------------------------------------------------------------------
Write == (\E n \in 0..MaxSize : AddRecord(n)) \/ Emit \/ Sync

Medium ==
    \/ \E n \in 0..Len(file), z \in {0, HeaderSize} : CrashAndOpen(n, z)
    \/ \E o \in 1..Len(file) : OpenAt(o)
    \/ \E p \in 0..Len(file) : DamageAndOpen(p)

Read ==
    \/ Refill \/ TruncatedHeader \/ ReadFails
    \/ BadLength \/ ZeroRecord \/ BadChecksum
    \/ SkipBelow \/ Resync
    \/ FullRecord \/ FirstFragment \/ LaterFragment

Next == Write \/ Medium \/ Read

\* A reader that is called goes on until ReadRecord returns false.
Spec == Init /\ [][Next]_vars /\ WF_vars(Read)

-----------------------------------------------------------------------------
\* Properties.

\* The payload of the record number k.
RecordCells(k) == [i \in 1..written[k].size |-> DataCell(k, i)]
Wrote(s) == [i \in 1..Len(s) |-> RecordCells(s[i])]
Selected(P(_)) == SelectSeq([k \in 1..Len(written) |-> k], P)

\* The records that lie completely below offset n.
Complete(n) == Wrote(Selected(LAMBDA k : written[k].to # -1 /\ written[k].to <= n))

\* After a crash the log reads back as the records that were written, up to some point
\* at or after the last sync, and without a report: a record cut off by the crash is
\* neither returned in part nor taken for damage (log_reader.cc:154 and 239).  With zeros
\* after it, a record cut off is reported.
CrashKeepsPrefix ==
    phase = "end" /\ damage = -1 /\ initial = 0 =>
        /\ result = Complete(Len(file))
        /\ Complete(synced) = SubSeq(result, 1, Len(Complete(synced)))
        /\ ~reported \/ (left >= 0 /\ Last(file) = ZeroCell)

\* "The Reader will start reading at the first record located at physical position >=
\* initial_offset" (log_reader.h:41), and goes on to the last one.
ReadsFromOffset ==
    phase = "end" /\ damage = -1 =>
        result = Wrote(Selected(LAMBDA k : written[k].from >= initial /\ written[k].to \in 0..Len(file)))

\* Damage loses records but never makes one up or mixes two: what is returned was
\* written, and in this order.
DamageInventsNothing ==
    damage # -1 =>
        \E S \in SUBSET (1..Len(written)) : result = Wrote(Selected(LAMBDA k : k \in S))
=============================================================================
