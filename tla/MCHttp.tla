------------------------------- MODULE MCHttp -------------------------------
(* Http with two concurrent requests. *)
EXTENDS Http

=============================================================================
