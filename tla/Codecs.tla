------------------------------- MODULE Codecs -------------------------------
(***************************************************************************)
(* Three algorithms.  LevelDB's checksum, a CRC that takes four bytes at a *)
(* time from an aligned address on, by four tables; the Base64 of the      *)
(* database client's WebSocket; and the random numbers behind the heights  *)
(* of a skip list's nodes.                                                 *)
(*                                                                         *)
(* Widths are scaled down: a byte of the checksum has two bits and a word  *)
(* eight; a byte of Base64 has four bits and a digit three; a seed has     *)
(* five bits, with a Mersenne prime of as many and a root of it.           *)
(***************************************************************************)
EXTENDS Integers, Sequences, SequencesExt, FiniteSetsExt, Bitwise

CONSTANTS
    MaxBytes,       \* bound on the bytes of a checksum
    Plain,          \* bytes to encode
    MaxPlain,
    MaxText         \* bound on the characters to decode

VARIABLES
    kind,           \* "crc", "plain", "text" or "random"
    data            \* bytes, characters or the seed

vars == <<kind, data>>

-----------------------------------------------------------------------------
\* Checksums.

Poly == 178         \* reversed, with its highest bit
Byte == 4
Word == 256
Ones == Word - 1

\* The remainder of one more bit.
Bit(l) == IF l % 2 = 1 THEN (l \div 2) ^^ Poly ELSE l \div 2

\* table0_, and table1_ to table3_: a byte followed by so many bytes of zeros.
Table0 == [c \in 0..(Byte - 1) |-> Bit(Bit(c))]
Longer(table) == [c \in 0..(Byte - 1) |-> (table[c] \div Byte) ^^ Table0[table[c] % Byte]]
Table1 == Longer(Table0)
Table2 == Longer(Table1)
Table3 == Longer(Table2)

Step1(l, b) == Table0[(l % Byte) ^^ b] ^^ (l \div Byte)

LoadWord(s, i) == s[i] + 4 * s[i + 1] + 16 * s[i + 2] + 64 * s[i + 3]

\* Mutant: the tables in the other order.
Step4Swapped(l, w) ==
    LET c == l ^^ w
    IN  (Table0[c % 4] ^^ Table1[(c \div 4) % 4]) ^^ (Table2[(c \div 16) % 4] ^^ Table3[c \div 64])

Step4(l, w) ==
    LET c == l ^^ w
    IN  (Table3[c % 4] ^^ Table2[(c \div 4) % 4]) ^^ (Table1[(c \div 16) % 4] ^^ Table0[c \div 64])

\* Extend, of data at an address: single bytes up to an aligned one, words, single bytes.
\* Four words at a time are words.
Extend(crc, s, address) ==
    LET aligned == (4 - (address % 4)) % 4
        head == IF aligned <= Len(s) THEN aligned ELSE 0
        words == (Len(s) - head) \div 4
        Bytes(l, from, to) == FoldLeft(LAMBDA x, i : Step1(x, s[i]), l, [i \in 1..(to - from) |-> from + i])
        atHead == Bytes(crc ^^ Ones, 0, head)
        atWords == FoldLeft(LAMBDA x, k : Step4(x, LoadWord(s, head + 4 * (k - 1) + 1)), atHead, [k \in 1..words |-> k])
    IN  Bytes(atWords, head + 4 * words, Len(s)) ^^ Ones

\* AcceleratedCRC32C, with an instruction for a byte and ones for words of two lengths.
\* Of a long string, as many bytes come first as the address is behind an aligned one;
\* what follows need not be aligned.
BigWord == 4
SmallWord == 2
HardwareCRC(l, bytes) == FoldLeft(LAMBDA x, b : Bit(Bit(x ^^ b)), l, bytes)
AcceleratedCRC32C(crc, s, address) ==
    LET long == Len(s) > BigWord
        head == IF long THEN address % BigWord ELSE 0
        big == IF long THEN (Len(s) - head) \div BigWord ELSE 0
        atBig == head + BigWord * big
        small == IF long /\ Len(s) - atBig >= SmallWord THEN 1 ELSE 0
        atSmall == atBig + SmallWord * small
        From(l, at, word, n) ==
            FoldLeft(LAMBDA x, k : HardwareCRC(x, SubSeq(s, at + word * (k - 1) + 1, at + word * k)), l, [k \in 1..n |-> k])
    IN  From(From(From(From(crc ^^ Ones, 0, 1, head), head, BigWord, big), atBig, SmallWord, small),
             atSmall, 1, Len(s) - atSmall) ^^ Ones

\* Rotate right and add a constant, of as many bits.
Delta == 162
Mask(crc) == (((crc \div 8) + (crc % 8) * 32) + Delta) % Word
Unmask(masked) == LET rot == (masked - Delta) % Word IN (rot \div 32) + (rot % 32) * 8

-----------------------------------------------------------------------------
\* Base64.  Characters are the digits 0..7 and three more.

Pad64 == 8
Space == 9
Other == 10

Quantum(a, b, c) == <<a \div 2, (a % 2) * 4 + b \div 4, (b % 4) * 2 + c \div 8, c % 8>>

\* f_b64_ntop: -1, here <<-1>>, if the target is too small for the text and its end.
Ntop(s, size) ==
    LET full == Len(s) \div 3
        rest == Len(s) % 3
        q == [k \in 1..full |-> Quantum(s[3 * k - 2], s[3 * k - 1], s[3 * k])]
        last == Quantum(s[3 * full + 1], IF rest = 2 THEN s[3 * full + 2] ELSE 0, 0)
        end == IF rest = 0 THEN <<>>
               ELSE <<last[1], last[2], IF rest = 1 THEN Pad64 ELSE last[3], Pad64>>
        text == FlattenSeq(q) \o end
    IN  IF Len(text) >= size THEN <<-1>> ELSE text

\* f_b64_pton, up to the pad or the end: out is the target up to tarindex, with the bits
\* of a byte that is not complete in part.
Digit(r, d, size) ==
    LET index == Len(r.out)
        need == IF r.state \in {1, 2} THEN index + 1 ELSE index
    IN  IF need >= size THEN [r EXCEPT !.ok = FALSE]
        ELSE CASE r.state = 0 -> [r EXCEPT !.state = 1, !.part = (d * 2) % 16]
               [] r.state = 1 -> [r EXCEPT !.state = 2, !.out = Append(@, r.part + d \div 4), !.part = (d % 4) * 4]
               [] r.state = 2 -> [r EXCEPT !.state = 3, !.out = Append(@, r.part + d \div 2), !.part = (d % 2) * 8]
               [] r.state = 3 -> [r EXCEPT !.state = 0, !.out = Append(@, r.part + d), !.part = 0]

\* Mutant: bits behind the last byte are not looked at.
PtonLenient(text, size) ==
    LET s == SelectSeq(text, LAMBDA x : x # Space)
        pad == Min({Len(s) + 1} \cup {i \in 1..Len(s) : s[i] = Pad64})
        r == FoldLeft(LAMBDA x, i : IF ~x.ok \/ s[i] = Other THEN [x EXCEPT !.ok = FALSE] ELSE Digit(x, s[i], size),
                      [ok |-> TRUE, state |-> 0, out |-> <<>>, part |-> 0], [i \in 1..(pad - 1) |-> i])
        padded == pad <= Len(s)
        tail == SubSeq(s, pad, Len(s))
    IN  IF ~r.ok \/ (IF padded THEN ~((r.state = 2 /\ tail = <<Pad64, Pad64>>) \/ (r.state = 3 /\ tail = <<Pad64>>)) ELSE r.state # 0)
          THEN <<-1>> ELSE r.out

\* What stands behind the digits is one or two pads, and white space anywhere; the bits
\* behind the last byte must be zeros.
Pton(text, size) ==
    LET s == SelectSeq(text, LAMBDA x : x # Space)
        pad == Min({Len(s) + 1} \cup {i \in 1..Len(s) : s[i] = Pad64})
        r == FoldLeft(LAMBDA x, i : IF ~x.ok \/ s[i] = Other THEN [x EXCEPT !.ok = FALSE] ELSE Digit(x, s[i], size),
                      [ok |-> TRUE, state |-> 0, out |-> <<>>, part |-> 0], [i \in 1..(pad - 1) |-> i])
        tail == SubSeq(s, pad, Len(s))
        whole == \/ r.state = 0 /\ tail = <<>>
                 \/ r.state = 2 /\ tail = <<Pad64, Pad64>> /\ r.part = 0
                 \/ r.state = 3 /\ tail = <<Pad64>> /\ r.part = 0
    IN  IF r.ok /\ whole THEN r.out ELSE <<-1>>

-----------------------------------------------------------------------------
\* Random numbers.

M == 31
A == 17

\* Random: the seeds that would stay what they are are replaced.
Seeded(s) == LET seed == s % (M + 1) IN IF seed \in {0, M} THEN 1 ELSE seed

\* Random::Next, without a division.
RandomNext(seed) ==
    LET product == seed * A
        once == (product \div (M + 1)) + (product % (M + 1))
    IN  IF once > M THEN once - M ELSE once

-----------------------------------------------------------------------------
Init ==
    \/ kind \in {"crc", "plain", "text"} /\ data = <<>>
    \/ kind = "random" /\ \E s \in 0..(2 * M) : data = <<Seeded(s)>>

Checksummed == kind = "crc" /\ Len(data) < MaxBytes /\ \E b \in 0..(Byte - 1) : data' = Append(data, b)
Encoded == kind = "plain" /\ Len(data) < MaxPlain /\ \E b \in Plain : data' = Append(data, b)
Decoded == kind = "text" /\ Len(data) < MaxText /\ \E c \in {0, 1, 6, Pad64, Space, Other} : data' = Append(data, c)
Drawn == kind = "random" /\ data' = <<RandomNext(data[1])>>

Next == (Checksummed \/ Encoded \/ Decoded \/ Drawn) /\ UNCHANGED kind

Spec == Init /\ [][Next]_vars

-----------------------------------------------------------------------------
\* The checksum of a string, bit by bit.
Reference(s) == FoldLeft(LAMBDA l, b : Bit(Bit(l ^^ b)), Ones, s) ^^ Ones

\* Tables, words, alignment and the instruction that is used do not matter: the checksum
\* is the remainder, also of a string that comes in two pieces, and masking loses nothing.
ChecksumIsRemainder ==
    kind = "crc" =>
        LET crc == Reference(data)
        IN  /\ \A address \in 0..3 : Extend(0, data, address) = crc /\ AcceleratedCRC32C(0, data, address) = crc
            /\ \A n \in 0..Len(data) :
                  Extend(Extend(0, SubSeq(data, 1, n), 1), SubSeq(data, n + 1, Len(data)), 2) = crc
            /\ Unmask(Mask(crc)) = crc

\* What is encoded is decoded again, if there is room for a byte more, and a text is only
\* accepted if it is, up to white space, the encoding of what it is decoded to.
Base64IsCanonical ==
    /\ kind = "plain" =>
          LET text == Ntop(data, 4 * ((Len(data) + 2) \div 3) + 1)
          IN  /\ text # <<-1>> /\ Pton(text, Len(data) + 1) = data
              /\ Ntop(data, Len(text)) = <<-1>>
    /\ kind = "text" =>
          LET s == Pton(data, MaxText)
          IN  s # <<-1>> => Ntop(s, 2 * MaxText) = SelectSeq(data, LAMBDA x : x # Space)

\* Whatever the seed given, and however many numbers were drawn, the generator never gets
\* to a seed that it cannot leave, and it draws the product modulo M.
RandomGoesOn == kind = "random" => data[1] \in 1..(M - 1) /\ RandomNext(data[1]) = (data[1] * A) % M

=============================================================================
