----------------------------- MODULE MCSession ------------------------------
(* Session for TLC: two members, and two saga tasks at a time. *)
EXTENDS Session
=============================================================================
