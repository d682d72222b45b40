-------------------------------- MODULE Http --------------------------------
(***************************************************************************)
(* The HTTP service of the app: class Http of services/http/http.js, one   *)
(* axios instance whose error interceptor sends a request again when the   *)
(* server answered it with a 5xx status.                                   *)
(*                                                                         *)
(* A request r is one call of get, post, put or delete.  Its attempts      *)
(* follow one another; the caller holds one promise for all of them.  The  *)
(* network and the server are the environment: an attempt may be lost, may *)
(* be executed and its answer lost, may be answered by a gateway while the *)
(* server still has it, and may be executed long after the client gave up. *)
(***************************************************************************)
EXTENDS Naturals

CONSTANTS
    Requests,     \* the calls the app makes
    RetryCounts,  \* the values config.retryCount may be given
    MaxRetryCount \* the largest of them

ASSUME RetryCountsAssumption ==
    /\ MaxRetryCount \in Nat
    /\ RetryCounts \subseteq 0..MaxRetryCount
    /\ RetryCounts # {}

VARIABLES
    config,     \* this.config: retryRequests and retryCount
    promise,    \* what the caller of request r sees
    retryCount, \* error.config.__retryCount, 0 while it is undefined
    wire,       \* where the latest attempt of r is
    executed,   \* the requests whose latest attempt the server has executed
    orphans,    \* earlier attempts of r the server may still execute
    attempts,   \* how often r was sent
    execs       \* how often the server executed r

vars == <<config, promise, retryCount, wire, executed, orphans, attempts, execs>>
clientVars == <<config, promise, retryCount, attempts>>

Promises == {"none", "pending", "resolved", "rejected"}
Statuses == {"2xx", "4xx", "5xx"}

(***************************************************************************)
(* new Http() leaves retryRequests on; retryCount is any permitted value.  *)
(***************************************************************************)
Init ==
    /\ config \in [retryRequests : {TRUE}, retryCount : RetryCounts]
    /\ promise = [r \in Requests |-> "none"]
    /\ retryCount = [r \in Requests |-> 0]
    /\ wire = [r \in Requests |-> "none"]
    /\ executed = {}
    /\ orphans = [r \in Requests |-> 0]
    /\ attempts = [r \in Requests |-> 0]
    /\ execs = [r \in Requests |-> 0]

\* The server may still execute the latest attempt of r.
Executable(r) == wire[r] \in {"sent", "5xx"} /\ r \notin executed

\* The client turns away from the latest attempt of r: one the server has not
\* executed stays behind as an orphan.
Abandon(r) ==
    /\ executed' = executed \ {r}
    /\ orphans' = [orphans EXCEPT ![r] = IF Executable(r) THEN @ + 1 ELSE @]

\* this.http(options): hands the request to axios, which sends it.
Send(r) ==
    /\ wire' = [wire EXCEPT ![r] = "sent"]
    /\ attempts' = [attempts EXCEPT ![r] = @ + 1]
    /\ Abandon(r)

\* The await in request() is over, at every level of nested retries.
Settle(r, outcome) ==
    /\ promise' = [promise EXCEPT ![r] = outcome]
    /\ wire' = [wire EXCEPT ![r] = "none"]
    /\ Abandon(r)
    /\ UNCHANGED <<config, retryCount, attempts, execs>>

\* get, post, put and delete all end in request(), which sends once.
Request(r) ==
    /\ promise[r] = "none"
    /\ promise' = [promise EXCEPT ![r] = "pending"]
    /\ Send(r)
    /\ UNCHANGED <<config, retryCount, execs>>

\* response => response: the promise resolves with the answer.
OnResponse(r) ==
    /\ wire[r] = "2xx"
    /\ Settle(r, "resolved")

\* The test the error interceptor makes on a 5xx answer.
MayRetry(r) ==
    /\ config.retryRequests
    /\ \/ retryCount[r] = 0
       \/ retryCount[r] < config.retryCount

\* Mutant: the retry is not counted.
OnErrorRetryUncounted(r) ==
    /\ wire[r] = "5xx"
    /\ MayRetry(r)
    /\ Send(r)
    /\ UNCHANGED <<config, promise, retryCount, execs>>

\* The error interceptor on a 5xx answer it may retry: it counts on the request's
\* own config and calls this.request(error.config).
OnErrorRetry(r) ==
    /\ wire[r] = "5xx"
    /\ MayRetry(r)
    /\ retryCount' = [retryCount EXCEPT ![r] = @ + 1]
    /\ Send(r)
    /\ UNCHANGED <<config, promise, execs>>

\* Mutant: the interceptor returns the error instead of rejecting with it.
OnErrorReturned(r) ==
    /\ \/ wire[r] = "4xx"
       \/ wire[r] = "5xx" /\ ~MayRetry(r)
    /\ Settle(r, "resolved")

\* The error interceptor on any other answer: Promise.reject(error).
OnErrorReject(r) ==
    /\ \/ wire[r] = "4xx"
       \/ wire[r] = "5xx" /\ ~MayRetry(r)
    /\ Settle(r, "rejected")

\* Mutant: an error without a response is swallowed.
OnNoResponseSwallowed(r) ==
    /\ wire[r] # "none"
    /\ Settle(r, "pending")

\* axios gives up: the connection failed, or its timeout fired although an answer
\* may be on its way.  error.response is undefined, so the interceptor rejects.
OnNoResponse(r) ==
    /\ wire[r] # "none"
    /\ Settle(r, "rejected")

\* setConfig between any two steps: the interceptor reads this.config when it runs.
SetConfig(retryRequests, count) ==
    /\ config' = [retryRequests |-> retryRequests, retryCount |-> count]
    /\ UNCHANGED <<promise, retryCount, wire, executed, orphans, attempts, execs>>

-----------------------------------------------------------------------------
\* The environment.

\* The server executes the attempt in flight, or one already answered for it by a
\* gateway's 5xx.
Execute(r) ==
    /\ Executable(r)
    /\ executed' = executed \cup {r}
    /\ execs' = [execs EXCEPT ![r] = @ + 1]
    /\ UNCHANGED <<clientVars, wire, orphans>>

\* The server executes an attempt the client no longer waits for.
ExecuteOrphan(r) ==
    /\ orphans[r] > 0
    /\ orphans' = [orphans EXCEPT ![r] = @ - 1]
    /\ execs' = [execs EXCEPT ![r] = @ + 1]
    /\ UNCHANGED <<clientVars, wire, executed>>

\* An answer arrives: a success means this attempt was executed, a 4xx that it was
\* refused, a 5xx says nothing.
Answer(r, status) ==
    /\ wire[r] = "sent"
    /\ status = "2xx" => r \in executed
    /\ status = "4xx" => r \notin executed
    /\ wire' = [wire EXCEPT ![r] = status]
    /\ UNCHANGED <<clientVars, executed, orphans, execs>>

Handle(r) ==
    \/ OnResponse(r)
    \/ OnErrorRetry(r)
    \/ OnErrorReject(r)
    \/ OnNoResponse(r)

Next ==
    \/ \E r \in Requests :
          \/ Request(r)
          \/ OnResponse(r)
          \/ OnErrorRetry(r)
          \/ OnErrorReject(r)
          \/ OnNoResponse(r)
          \/ Execute(r)
          \/ ExecuteOrphan(r)
          \/ \E status \in Statuses : Answer(r, status)
    \/ \E b \in BOOLEAN, count \in RetryCounts : SetConfig(b, count)

\* axios's timer and the event loop: an attempt is answered or times out, and what
\* arrived is handled.
Fairness == \A r \in Requests : WF_vars(Handle(r))

Spec == Init /\ [][Next]_vars /\ Fairness

-----------------------------------------------------------------------------
\* Properties.

\* The values the service's state can take: a configuration always has both
\* fields, whatever setConfig was given.
TypeOK ==
    /\ config \in [retryRequests : BOOLEAN, retryCount : RetryCounts]
    /\ promise \in [Requests -> Promises]
    /\ retryCount \in [Requests -> Nat]
    /\ wire \in [Requests -> {"none", "sent"} \cup Statuses]
    /\ executed \subseteq Requests
    /\ orphans \in [Requests -> Nat]
    /\ attempts \in [Requests -> Nat]
    /\ execs \in [Requests -> Nat]

\* The most retries one request can see.  The interceptor tests !__retryCount before
\* it compares, so the first retry is made whatever retryCount says, 0 included.
RetryLimit == IF MaxRetryCount = 0 THEN 1 ELSE MaxRetryCount

\* However answers, timeouts and changes of the configuration interleave, the error
\* interceptor sends a request at most RetryLimit times after the first.
RetryBound == \A r \in Requests : attempts[r] <= 1 + RetryLimit

\* The server executes a request at most once for each time the interceptor counted
\* and once more, late executions of abandoned attempts included: nothing but a
\* retry after a 5xx can execute a request twice.
DuplicatesOnlyByRetry == \A r \in Requests : execs[r] <= 1 + retryCount[r]

\* What a caller of get, post, put or delete is promised.
Call == INSTANCE HttpCall WITH Budget <- 1 + RetryLimit

\* The retrying client implements the promise of HttpCall.
CallSpec == Call!Spec

\* Every promise request() returned is resolved or rejected in the end, although
\* the interceptor may send the request again.
EverySettles ==
    \A r \in Requests : promise[r] = "pending" ~> promise[r] \in {"resolved", "rejected"}
=============================================================================
