------------------------------ MODULE Durable ------------------------------
(***************************************************************************)
(* What LevelDB promises about its contents, whatever files it keeps them  *)
(* in: a write is in the database from the moment it returns; closing,     *)
(* compacting and opening change nothing; a process that dies loses        *)
(* nothing; a machine that dies loses nothing that was written with        *)
(* WriteOptions::sync.                                                     *)
(***************************************************************************)
EXTENDS Naturals

CONSTANT Writes

VARIABLES
    contents,      \* the writes that are in the database
    safe,          \* the writes that returned with sync
    open,          \* may the database be read and written?
    outages        \* how often the machine died

vars == <<contents, safe, open, outages>>

Init ==
    /\ contents = {}
    /\ safe = {}
    /\ open = FALSE
    /\ outages = 0

Write(w, sync) ==
    /\ open
    /\ contents' = contents \cup {w}
    /\ safe' = IF sync THEN safe \cup {w} ELSE safe
    /\ UNCHANGED <<open, outages>>

Open ==
    /\ ~open
    /\ open' = TRUE
    /\ UNCHANGED <<contents, safe, outages>>

ProcessDies ==
    /\ open' = FALSE
    /\ UNCHANGED <<contents, safe, outages>>

MachineDies ==
    /\ outages' = outages + 1
    /\ open' = FALSE
    /\ contents' \in SUBSET contents
    /\ safe \subseteq contents'
    /\ UNCHANGED safe

Next ==
    \/ \E w \in Writes, sync \in BOOLEAN : Write(w, sync)
    \/ Open
    \/ ProcessDies
    \/ MachineDies

Spec == Init /\ [][Next]_vars
=============================================================================
