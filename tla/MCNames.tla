------------------------------ MODULE MCNames -------------------------------
(* Every pair of addresses of at most MaxLen characters. *)
EXTENDS Names

CONSTANT MaxLen

VARIABLES first, second

vars == <<first, second>>

\* The first address grows, then the second.
Init == first = <<>> /\ second = <<>>

TypeFirst(ch) ==
    /\ Len(first) < MaxLen /\ second = <<>>
    /\ first' = Append(first, ch)
    /\ UNCHANGED second

TypeSecond(ch) ==
    /\ Len(second) < MaxLen
    /\ second' = Append(second, ch)
    /\ UNCHANGED first

Next == \E ch \in Chars : TypeFirst(ch) \/ TypeSecond(ch)

Spec == Init /\ [][Next]_vars

\* The keys of two members never collide (DistinctKeys of Names).
KeysDistinct == DistinctKeys(first, second)

\* An escaped address is a legal key (LegalKey of Names).
KeyLegal == LegalKey(first)
=============================================================================
