-------------------------------- MODULE Arena --------------------------------
(***************************************************************************)
(* The memory of a memtable (util/arena.cc): pieces are cut from blocks,   *)
(* one after the other, large ones get a block of their own, and nothing   *)
(* is given back before the end.  Blocks come from new[], at addresses     *)
(* that are aligned.                                                       *)
(***************************************************************************)
EXTENDS Integers, Sequences, FiniteSets

CONSTANTS
    BlockSize,      \* kBlockSize
    Align,          \* the size of a pointer
    Sizes,          \* sizes that are asked for
    MaxGiven        \* bound on the pieces

VARIABLES
    blocks,                 \* blocks_: address and length
    allocPtr,               \* alloc_ptr_, 0 for NULL
    allocBytesRemaining,    \* alloc_bytes_remaining_
    given,                  \* the pieces: address, length and whether it is to be aligned
    memoryUsage             \* memory_usage_

vars == <<blocks, allocPtr, allocBytesRemaining, given, memoryUsage>>

Init == blocks = <<>> /\ allocPtr = 0 /\ allocBytesRemaining = 0 /\ given = {} /\ memoryUsage = 0

\* The bytes up to the next aligned address.
Slop(at) == (Align - (at % Align)) % Align

\* Where new[] finds room: behind the last block.
FreeAddress ==
    LET end == IF blocks = <<>> THEN Align ELSE blocks[Len(blocks)].at + blocks[Len(blocks)].length
    IN  end + Slop(end)

AllocateNewBlock(bytes) ==
    /\ blocks' = Append(blocks, [at |-> FreeAddress, length |-> bytes])
    /\ memoryUsage' = memoryUsage + bytes + Align

Give(at, bytes, aligned) ==
    /\ Cardinality(given) < MaxGiven
    /\ given' = given \cup {[at |-> at, length |-> bytes, aligned |-> aligned]}

\* Cut from what remains, of which the first bytes are left out.
Cut(slop, bytes, aligned) ==
    /\ Give(allocPtr + slop, bytes, aligned)
    /\ allocPtr' = allocPtr + slop + bytes /\ allocBytesRemaining' = allocBytesRemaining - slop - bytes
    /\ UNCHANGED <<blocks, memoryUsage>>

\* AllocateFallback: more than a quarter of a block is a block of its own; else the rest
\* of the current one is wasted.
AllocateFallback(bytes, aligned) ==
    /\ Give(FreeAddress, bytes, aligned)
    /\ IF bytes > BlockSize \div 4
         THEN AllocateNewBlock(bytes) /\ UNCHANGED <<allocPtr, allocBytesRemaining>>
         ELSE /\ AllocateNewBlock(BlockSize)
              /\ allocPtr' = FreeAddress + bytes /\ allocBytesRemaining' = BlockSize - bytes

Allocate(bytes) ==
    IF bytes <= allocBytesRemaining THEN Cut(0, bytes, FALSE) ELSE AllocateFallback(bytes, FALSE)

\* Mutant: the bytes left out are not counted.
AllocateAlignedShort(bytes) ==
    LET slop == Slop(allocPtr)
    IN  IF bytes <= allocBytesRemaining THEN Cut(slop, bytes, TRUE) ELSE AllocateFallback(bytes, TRUE)

AllocateAligned(bytes) ==
    LET slop == Slop(allocPtr)
    IN  IF bytes + slop <= allocBytesRemaining THEN Cut(slop, bytes, TRUE) ELSE AllocateFallback(bytes, TRUE)

Next == \E bytes \in Sizes : Allocate(bytes) \/ AllocateAligned(bytes)

Spec == Init /\ [][Next]_vars

-----------------------------------------------------------------------------
\* The memory of blocks, each with its pointer.
Held(bs) ==
    LET held[n \in 0..Len(bs)] == IF n = 0 THEN 0 ELSE held[n - 1] + bs[n].length + Align
    IN  held[Len(bs)]

Bytes(p) == p.at..(p.at + p.length - 1)

\* Whatever was asked for in whatever order, pieces share no byte, each lies in one block,
\* those that are to be aligned are, what remains is free, and the memory counted is that
\* of the blocks.
GivenApart ==
    /\ \A p \in given : \E i \in 1..Len(blocks) : Bytes(p) \subseteq Bytes(blocks[i])
    /\ \A p, q \in given : p # q => Bytes(p) \cap Bytes(q) = {}
    /\ \A p \in given : p.aligned => p.at % Align = 0
    /\ \A p \in given : Bytes(p) \cap (allocPtr..(allocPtr + allocBytesRemaining - 1)) = {}
    /\ allocBytesRemaining \in 0..BlockSize
    /\ memoryUsage = Held(blocks)
=============================================================================
