---------------------------- MODULE MCDirectory ----------------------------
(* Directory on one device with a full queue, and on two that compete. *)
EXTENDS Directory, TLC

\* Without what only DrainedMeansStored and QueueDrains look at.
Shared == <<server, clientVars, netVars, appVars, pairs, joined, cuts>>

Interchangeable == Permutations(Devices)
=============================================================================
