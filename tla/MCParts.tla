------------------------------ MODULE MCParts -------------------------------
(* The parts of the storage stack that keep their own state, each by itself: part says
   which one is at work, and the others stay where they begin.  A variable that two
   parts have by the same name is renamed in one of them. *)
EXTENDS Parts, LogFile, TLC

VARIABLES
    part,
    entries, table, lru, inUse, usage, thread, alive,           \* TableCache
    wrote, blocks, snapshot, it, want,                          \* Iterators
    builder, tableFile,                                         \* SortedTable
    wire, parts, sent, decoded,                                 \* Protobuf
    kind, ops, rep, edit, name,                                 \* Formats
    codec, data                                                 \* Codecs

cacheVars == <<entries, table, lru, inUse, usage, thread, alive>>
iteratorVars == <<wrote, blocks, snapshot, it, want>>
tableVars == <<builder, tableFile>>
protobufVars == <<wire, parts, sent, decoded>>
formatVars == <<kind, ops, rep, edit, name>>
codecVars == <<codec, data>>

-----------------------------------------------------------------------------
\* One shard of two charges, three tables.
TC == INSTANCE TableCache WITH
          Threads <- {"t1", "t2"}, Files <- {1, 2, 3}, Capacity <- 2, Charges <- {1, 2}, MaxEntries <- 3

IT == INSTANCE Iterators WITH NumKeys <- 2, MaxSequence <- 3, NumChildren <- 2

\* Bytes are 0..2; keys that are prefixes of each other, and keys of the largest byte.
ST == INSTANCE SortedTable WITH
          Top <- 2, UserKeys <- {<<>>, <<0>>, <<0, 1>>, <<0, 2>>, <<2, 2>>}, Tags <- {1, 2},
          MaxEntries <- 3, RestartIntervals <- {1, 2}, BlockSizes <- {1, 5}, FilterBase <- 2,
          rep <- builder, file <- tableFile

\* Descriptor tables that have each kind of field.
F(tag, l, h, a, size, count, sub) ==
    [tag |-> tag, ltype |-> l, htype |-> h, atype |-> a, size |-> size, count |-> count, sub |-> sub]
Inner == <<F(1, "bytes", "optional", "pointer", 2, 0, <<>>), F(2, "uvarint", "required", "static", 6, 0, <<>>)>>
Schemas == {
    <<F(1, "varint", "optional", "static", 6, 0, <<>>), F(2, "uvarint", "repeated", "static", 9, 2, <<>>)>>,
    <<F(1, "message", "optional", "pointer", 0, 0, Inner), F(3, "svarint", "required", "static", 9, 0, <<>>)>>,
    <<F(2, "uvarint", "repeated", "pointer", 3, 0, <<>>),
      F(4, "extension", "optional", "static", 0, 0, <<F(5, "string", "optional", "pointer", 3, 0, <<>>)>>)>>,
    <<F(1, "bytes", "oneof", "pointer", 2, 0, <<>>), F(2, "message", "oneof", "pointer", 0, 0, Inner)>>,
    <<F(1, "message", "repeated", "static", 0, 2, Inner)>>,
    <<F(2, "uvarint", "optional", "callback", 6, 1, <<>>), F(5, "fixed32", "singular", "static", 0, 0, <<>>)>>,
    <<F(1, "length", "oneof", "static", 1, 0, <<>>), F(2, "string", "oneof", "static", 3, 0, <<>>)>>}
PB == INSTANCE Protobuf WITH Schemas <- Schemas, MaxParts <- 2, Fuels <- {1, 9}, result <- decoded

\* A slice whose bytes look like tags and lengths; a number that takes two bytes.
FO == INSTANCE Formats WITH
          Slices <- {<<>>, <<7>>, <<1, 0, 2, 0, 3>>}, Numbers <- {1, 100}, MaxOps <- 2, MaxTokens <- 4,
          Tokens <- {"0", "1", "2", "7", "MANIFEST-", ".log", ".ldb", ".sst", ".dbtmp", "CURRENT", "LOCK", "LOG", ".old"}

CO == INSTANCE Codecs WITH MaxBytes <- 6, Plain <- {0, 1, 6, 15}, MaxPlain <- 4, MaxText <- 5, kind <- codec

-----------------------------------------------------------------------------
PartNames == {"log", "names", "cache", "memtable", "iterators", "table", "protobuf",
          "files", "threads", "writer", "formats", "codecs", "repair", "versions", "binding", "arena"}

PartsInit ==
    /\ part \in PartNames
    /\ Init /\ NM!Init /\ TC!Init /\ MT!Init /\ PB!Init /\ EF!Init /\ ET!Init /\ EW!Init /\ VE!Init /\ CB!Init /\ AR!Init
    /\ IF part = "iterators" THEN IT!Init
       ELSE wrote = <<>> /\ blocks = <<>> /\ snapshot = 0 /\ it = 0 /\ want = 0
    /\ IF part = "table" THEN ST!Init ELSE builder = 0 /\ tableFile = 0
    /\ IF part = "formats" THEN FO!Init ELSE kind = "" /\ ops = <<>> /\ rep = <<>> /\ edit = 0 /\ name = <<>>
    /\ IF part = "codecs" THEN CO!Init ELSE codec = "" /\ data = <<>>
    /\ IF part = "repair" THEN RE!Init
       ELSE /\ readable = {} /\ logs = <<>> /\ tables = <<>> /\ lost = {} /\ current = 0 /\ repair = "" /\ faults = 0
            /\ todoLogs = {} /\ todoTables = {} /\ next = 0 /\ kept = {} /\ copy = 0 /\ stops = 0

\* Only the part at work takes a step.
Others ==
    /\ IF part = "log" THEN TRUE ELSE UNCHANGED vars
    /\ IF part = "names" THEN TRUE ELSE UNCHANGED namesVars
    /\ IF part = "cache" THEN TRUE ELSE UNCHANGED cacheVars
    /\ IF part = "memtable" THEN TRUE ELSE UNCHANGED memTableVars
    /\ IF part = "iterators" THEN TRUE ELSE UNCHANGED iteratorVars
    /\ IF part = "table" THEN TRUE ELSE UNCHANGED tableVars
    /\ IF part = "protobuf" THEN TRUE ELSE UNCHANGED protobufVars
    /\ IF part = "files" THEN TRUE ELSE UNCHANGED filesVars
    /\ IF part = "threads" THEN TRUE ELSE UNCHANGED threadsVars
    /\ IF part = "writer" THEN TRUE ELSE UNCHANGED envWriterVars
    /\ IF part = "formats" THEN TRUE ELSE UNCHANGED formatVars
    /\ IF part = "codecs" THEN TRUE ELSE UNCHANGED codecVars
    /\ IF part = "repair" THEN TRUE ELSE UNCHANGED repairVars
    /\ IF part = "versions" THEN TRUE ELSE UNCHANGED versionVars
    /\ IF part = "binding" THEN TRUE ELSE UNCHANGED bindingVars
    /\ IF part = "arena" THEN TRUE ELSE UNCHANGED arenaVars

PartsNext ==
    /\ UNCHANGED part
    /\ \/ part = "log" /\ Next
       \/ part = "names" /\ NM!Next
       \/ part = "cache" /\ TC!Next
       \/ part = "memtable" /\ MT!Next
       \/ part = "iterators" /\ IT!Step
       \/ part = "table" /\ ST!Next
       \/ part = "protobuf" /\ PB!Next
       \/ part = "files" /\ EF!Next
       \/ part = "threads" /\ ET!Next
       \/ part = "writer" /\ EW!Next
       \/ part = "formats" /\ FO!Next
       \/ part = "codecs" /\ CO!Next
       \/ part = "repair" /\ RE!Next
       \/ part = "versions" /\ VE!Next
       \/ part = "binding" /\ CB!Next
       \/ part = "arena" /\ AR!Next
    /\ Others

PartsSpec ==
    PartsInit /\ [][PartsNext]_<<part, vars, namesVars, cacheVars, memTableVars, iteratorVars, tableVars, protobufVars,
                                 filesVars, threadsVars, envWriterVars, formatVars, codecVars, repairVars,
                                 versionVars, bindingVars, arenaVars>>

-----------------------------------------------------------------------------
\* A log reads back as what was written: after a crash up to some point at or after the
\* last sync, from an offset all records that begin there or later, and from a damaged
\* file nothing that was not written (log_reader.cc, log_writer.cc).
LogReadsBack == part = "log" => CrashKeepsPrefix /\ ReadsFromOffset /\ DamageInventsNothing

\* An entry of the table cache is freed when the cache and the last thread have let go of
\* it and not before, and after an insertion the cache is over its capacity only with
\* entries in use (cache.cc).
CacheKeepsAccount == [][TC!FreedWhenUnused' /\ TC!RoomMade]_cacheVars

\* Whatever way an iterator is moved, it is at the key where it should be, with the value
\* of its snapshot (db_iter.cc, merger.cc, two_level_iterator.cc).
IteratorInPlace == part = "iterators" => IT!IteratorInPlace

\* A table reads back as it was built, by a scan, a seek or a get behind a filter (table/).
TableReadsBack == part = "table" => ST!TableReadsBack

\* Whatever is decoded, every block allocated is reachable from the message or freed, and
\* a message that was encoded is decoded to itself (pb_encode.c, pb_decode.c).
ProtobufSound == part = "protobuf" => PB!NothingLeaks /\ PB!RoundTrip

\* Batches, edits and names of files are read back as they were made, and refused when
\* they are cut off (write_batch.cc, version_edit.cc, filename.cc).
FormatsReadBack == part = "formats" => FO!BatchReadsBack /\ FO!EditReadsBack /\ FO!NamesParse

\* The checksum is the remainder, Base64 is canonical, and random numbers do not run dry
\* (crc32c.cc, fbase64.c, random.h).
CodecsAgree == part = "codecs" => CO!ChecksumIsRemainder /\ CO!Base64IsCanonical /\ CO!RandomGoesOn

=============================================================================
