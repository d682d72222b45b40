------------------------------ MODULE MCPortal ------------------------------
(* Portal for TLC: two members, and two redirects at a time. *)
EXTENDS Portal
=============================================================================
