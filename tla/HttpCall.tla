------------------------------ MODULE HttpCall ------------------------------
(***************************************************************************)
(* What the HTTP service promises the caller of get, post, put or delete,  *)
(* without retries, timeouts or a network: the promise of a request        *)
(* settles once, it resolves only for a request the server executed, and   *)
(* the server executes a request at most Budget times, even after the      *)
(* promise settled.                                                        *)
(***************************************************************************)
EXTENDS Naturals

CONSTANTS Requests, Budget

VARIABLES promise, execs

vars == <<promise, execs>>

Init ==
    /\ promise = [r \in Requests |-> "none"]
    /\ execs = [r \in Requests |-> 0]

Request(r) ==
    /\ promise[r] = "none"
    /\ promise' = [promise EXCEPT ![r] = "pending"]
    /\ UNCHANGED execs

Execute(r) ==
    /\ promise[r] # "none"
    /\ execs[r] < Budget
    /\ execs' = [execs EXCEPT ![r] = @ + 1]
    /\ UNCHANGED promise

Resolve(r) ==
    /\ promise[r] = "pending"
    /\ execs[r] > 0
    /\ promise' = [promise EXCEPT ![r] = "resolved"]
    /\ UNCHANGED execs

Reject(r) ==
    /\ promise[r] = "pending"
    /\ promise' = [promise EXCEPT ![r] = "rejected"]
    /\ UNCHANGED execs

Next == \E r \in Requests : Request(r) \/ Execute(r) \/ Resolve(r) \/ Reject(r)

Spec == Init /\ [][Next]_vars
=============================================================================
