-------------------------------- MODULE Names --------------------------------
(***************************************************************************)
(* The key of a member's record: login$ and ecdRedirect$ compute it from   *)
(* the email address, user.email.replace(/[.]/g, ','), because the path of *)
(* a Firebase reference cannot hold a dot.  An address is a sequence of    *)
(* characters.                                                             *)
(***************************************************************************)
EXTENDS Sequences, Naturals

CONSTANT Chars \* the characters of an address

\* Mutant: the dots are dropped.
EmailEscapedDropped(email) == SelectSeq(email, LAMBDA ch : ch # ".")

\* The key: every dot becomes a comma.
EmailEscaped(email) == [i \in 1..Len(email) |-> IF email[i] = "." THEN "," ELSE email[i]]

\* The characters a key must not hold lest the reference be refused or name another
\* place in the tree.  Of these only the dot is escaped.
Reserved == {".", "#", "$", "[", "]", "/"}

Holds(s, chars) == \E i \in 1..Len(s) : s[i] \in chars

\* Two addresses without a comma, as every unquoted address is, have different keys:
\* the members' records do not collide.
DistinctKeys(a, b) ==
    ~Holds(a, {","}) /\ ~Holds(b, {","}) /\ a # b => EmailEscaped(a) # EmailEscaped(b)

\* The key of an address whose only reserved characters are dots, however many, is
\* one the database takes.
LegalKey(a) == ~Holds(a, Reserved \ {"."}) => ~Holds(EmailEscaped(a), Reserved)
=============================================================================
