------------------------------- MODULE Portal -------------------------------
(***************************************************************************)
(* "Go to ECD": the saga of state/portal/saga.js, the portal slice, the    *)
(* member's tokens in the directory, and the OAuth server.                 *)
(*                                                                         *)
(* ecdRedirect$ reads the record of the member who tapped, checks its      *)
(* access token, refreshes the pair when the check fails, opens the link   *)
(* and stores the new pair.  After the read it is a chain of promises that *)
(* nothing cancels: chains of several taps run side by side, go on after a *)
(* change of member, and are lost when the app is killed.                  *)
(*                                                                         *)
(* A grant of the OAuth server is a number; the access and the refresh     *)
(* token it hands out are named by it, and 0 is a token that is not there. *)
(* http.post is used as HttpCall promises: an attempt may be executed and  *)
(* its answer lost, sent again, or executed after the caller was told that *)
(* it failed.                                                              *)
(***************************************************************************)
EXTENDS Naturals, Sequences, Reducers

CONSTANTS
    Members,
    Chains,     \* the slots for redirects, the bound on concurrent ones
    Nothing,    \* no record, no answer
    Rotates,    \* whether the OAuth server replaces the refresh token on use
    MaxGrants,  \* bound on the pairs the OAuth server hands out
    MaxRestarts \* bound on kills of the app

ASSUME PortalAssumption ==
    /\ Rotates \in BOOLEAN
    /\ MaxGrants \in Nat
    /\ Nothing \notin [access : Nat, refresh : Nat]

VARIABLES
    user,        \* the member the Dashboard shows
    portal,      \* the portal slice: its flags
    stage,       \* where each chain is
    who,         \* the user of the action that started the chain
    token,       \* the record the chain read
    answer,      \* the pair oauth/token made out for the chain's latest attempt
    records,     \* the record of each member on the server
    local,       \* the records as the database client shows them: with its own writes
    outbox,      \* writes the server has not got, kept on the device
    issued,      \* how many grants the OAuth server has made
    owner,       \* the member a grant was made for
    liveAccess,  \* the access tokens the OAuth server accepts
    liveRefresh, \* the refresh tokens the OAuth server accepts
    late,        \* refresh tokens in attempts nobody waits for any more
    opened,      \* the link opened last: whose redirect, and the token in it
    lost,        \* members for whom a pair was made out that never reached the app
    restarts     \* how often the app was killed

chainVars == <<stage, who, token, answer>>
oauthVars == <<issued, owner, liveAccess, liveRefresh, late>>
databaseVars == <<records, local, outbox>>
vars == <<user, portal, chainVars, databaseVars, oauthVars, opened, lost, restarts>>

Grants == 1..MaxGrants
Tokens == 0..MaxGrants
Record == [access : Tokens, refresh : Tokens]
Pair(a, r) == [access |-> a, refresh |-> r]

Stages == {"idle", "read", "check", "checked", "refresh"}

\* A member has no record, one as login$ makes it, without tokens, or one with the
\* tokens of a grant, which the ECD site put there.
Init ==
    /\ user \in Members
    /\ portal = InitialState
    /\ stage = [c \in Chains |-> "idle"]
    /\ who = [c \in Chains |-> Nothing]
    /\ token = [c \in Chains |-> Nothing]
    /\ answer = [c \in Chains |-> Nothing]
    /\ issued \in Tokens
    /\ owner \in [Grants -> Members \cup {Nothing}]
    /\ \A n \in Grants : owner[n] = Nothing <=> n > issued
    /\ liveAccess = 1..issued
    /\ liveRefresh = 1..issued
    /\ records \in [Members -> {Nothing, Pair(0, 0)} \cup {Pair(n, n) : n \in 1..issued}]
    /\ \A m \in Members : records[m] \notin {Nothing, Pair(0, 0)} => owner[records[m].access] = m
    /\ local = records
    /\ outbox = <<>>
    /\ late = {}
    /\ opened = Nothing
    /\ lost = {}
    /\ restarts = 0

-----------------------------------------------------------------------------
\* The saga and the promises it leaves behind.

\* Go to ECD: nothing disables the button while a redirect is in progress.
EcdRedirect(c) ==
    /\ stage[c] = "idle"
    /\ stage' = [stage EXCEPT ![c] = "read"]
    /\ who' = [who EXCEPT ![c] = user]
    /\ portal' = PortalReducer(portal, "ECD_REDIRECT")
    /\ UNCHANGED <<user, token, answer, databaseVars, oauthVars, opened, lost, restarts>>

\* once delivered a record: its access token is sent to oauth/check_token.
OnRecord(c) ==
    /\ stage[c] = "read"
    /\ local[who[c]] # Nothing
    /\ token' = [token EXCEPT ![c] = local[who[c]]]
    /\ stage' = [stage EXCEPT ![c] = "check"]
    /\ UNCHANGED <<user, portal, who, answer, databaseVars, oauthVars, opened, lost, restarts>>

\* The chain of promises of c is over.
EndChain(c) ==
    /\ stage' = [stage EXCEPT ![c] = "idle"]
    /\ who' = [who EXCEPT ![c] = Nothing]
    /\ token' = [token EXCEPT ![c] = Nothing]
    /\ answer' = [answer EXCEPT ![c] = Nothing]

\* once failed, or delivered null, whose refreshToken cannot be read.  The error is
\* swallowed by the error callback ...
OnReadSwallowed(c) ==
    /\ stage[c] = "read"
    /\ EndChain(c)
    /\ UNCHANGED <<user, portal, databaseVars, oauthVars, opened, lost, restarts>>

\* ... or rejects the promise the saga awaits: ECD_REDIRECT_FAIL.
OnReadFail(c) ==
    /\ stage[c] = "read"
    /\ EndChain(c)
    /\ portal' = PortalReducer(portal, "ECD_REDIRECT_FAIL")
    /\ UNCHANGED <<user, databaseVars, oauthVars, opened, lost, restarts>>

\* The check succeeded: the link is opened with the token of the record.
OnChecked(c) ==
    /\ stage[c] = "checked"
    /\ opened' = [member |-> who[c], token |-> token[c].access]
    /\ EndChain(c)
    /\ UNCHANGED <<user, portal, databaseVars, oauthVars, lost, restarts>>

\* The check was refused, failed or timed out: the pair is refreshed.
OnCheckFailed(c) ==
    /\ stage[c] \in {"check", "checked"}
    /\ stage' = [stage EXCEPT ![c] = "refresh"]
    /\ UNCHANGED <<user, portal, who, token, answer, databaseVars, oauthVars, opened, lost, restarts>>

\* Mutant: the pair is stored in the record of the member on the Dashboard.
OnRefreshedCurrentUser(c) ==
    /\ stage[c] = "refresh"
    /\ answer[c] # Nothing
    /\ opened' = [member |-> who[c], token |-> answer[c].access]
    /\ local' = [local EXCEPT ![user] = answer[c]]
    /\ outbox' = Append(outbox, [member |-> user, record |-> answer[c]])
    /\ EndChain(c)
    /\ UNCHANGED <<user, portal, records, oauthVars, lost, restarts>>

\* Mutant: the refresh token of the old record is stored again.
OnRefreshedOldToken(c) ==
    /\ stage[c] = "refresh"
    /\ answer[c] # Nothing
    /\ opened' = [member |-> who[c], token |-> answer[c].access]
    /\ local' = [local EXCEPT ![who[c]] = Pair(answer[c].access, token[c].refresh)]
    /\ outbox' = Append(outbox, [member |-> who[c], record |-> Pair(answer[c].access, token[c].refresh)])
    /\ EndChain(c)
    /\ UNCHANGED <<user, portal, records, oauthVars, lost, restarts>>

\* The pair arrived: the link is opened with the new token and the pair is stored
\* in the record of the member who tapped.
OnRefreshed(c) ==
    /\ stage[c] = "refresh"
    /\ answer[c] # Nothing
    /\ opened' = [member |-> who[c], token |-> answer[c].access]
    /\ local' = [local EXCEPT ![who[c]] = answer[c]]
    /\ outbox' = Append(outbox, [member |-> who[c], record |-> answer[c]])
    /\ EndChain(c)
    /\ UNCHANGED <<user, portal, records, oauthVars, lost, restarts>>

\* The latest attempt of a refresh is given up: a pair made out for it is lost, and
\* one the server has not executed may still be.
GiveUp(cs) ==
    /\ lost' = lost \cup {who[c] : c \in {d \in cs : answer[d] # Nothing}}
    /\ late' = late \cup {token[c].refresh : c \in {d \in cs : stage[d] = "refresh" /\ answer[d] = Nothing}}

\* The error interceptor sends the refresh again after a 5xx.
OnRefreshRetry(c) ==
    /\ stage[c] = "refresh"
    /\ GiveUp({c})
    /\ answer' = [answer EXCEPT ![c] = Nothing]
    /\ UNCHANGED <<user, portal, stage, who, token, databaseVars, issued, owner, liveAccess,
                   liveRefresh, opened, restarts>>

\* Mutant: a failed refresh starts over with the check.
OnRefreshFailedAgain(c) ==
    /\ stage[c] = "refresh"
    /\ GiveUp({c})
    /\ stage' = [stage EXCEPT ![c] = "check"]
    /\ answer' = [answer EXCEPT ![c] = Nothing]
    /\ UNCHANGED <<user, portal, who, token, databaseVars, issued, owner, liveAccess,
                   liveRefresh, opened, restarts>>

\* The refresh failed for good: its catch does nothing.
OnRefreshFailed(c) ==
    /\ stage[c] = "refresh"
    /\ GiveUp({c})
    /\ EndChain(c)
    /\ UNCHANGED <<user, portal, databaseVars, issued, owner, liveAccess, liveRefresh,
                   opened, restarts>>

-----------------------------------------------------------------------------
\* The OAuth server.

\* oauth/check_token accepts the token of the record.
CheckToken(c) ==
    /\ stage[c] = "check"
    /\ token[c].access \in liveAccess
    /\ stage' = [stage EXCEPT ![c] = "checked"]
    /\ UNCHANGED <<user, portal, who, token, answer, databaseVars, oauthVars, opened, lost, restarts>>

\* oauth/token makes out a new pair for refresh token k: the owner's access tokens
\* die, and with rotation k does.
Refreshed(k) == Pair(issued + 1, IF Rotates THEN issued + 1 ELSE k)

Grant(k) ==
    /\ k \in liveRefresh
    /\ issued < MaxGrants
    /\ issued' = issued + 1
    /\ owner' = [owner EXCEPT ![issued + 1] = owner[k]]
    /\ liveAccess' = {n \in liveAccess : owner[n] # owner[k]} \cup {issued + 1}
    /\ liveRefresh' = IF Rotates THEN (liveRefresh \ {k}) \cup {issued + 1} ELSE liveRefresh

\* The latest attempt of a chain's refresh is executed.
RefreshToken(c) ==
    /\ stage[c] = "refresh"
    /\ answer[c] = Nothing
    /\ Grant(token[c].refresh)
    /\ answer' = [answer EXCEPT ![c] = Refreshed(token[c].refresh)]
    /\ UNCHANGED <<user, portal, stage, who, token, databaseVars, late, opened, lost, restarts>>

\* An attempt nobody waits for is executed; more like it may be under way.
RefreshLate(k) ==
    /\ k \in late
    /\ Grant(k)
    /\ late' \in {late, late \ {k}}
    /\ lost' = lost \cup {owner[k]}
    /\ UNCHANGED <<user, portal, chainVars, databaseVars, opened, restarts>>

\* An access token expires.
Expire(n) ==
    /\ n \in liveAccess
    /\ liveAccess' = liveAccess \ {n}
    /\ UNCHANGED <<user, portal, chainVars, databaseVars, issued, owner, liveRefresh, late,
                   opened, lost, restarts>>

-----------------------------------------------------------------------------
\* The rest of the app.

\* Another member signs in; the chains of the one before go on.
SwitchMember(m) ==
    /\ m # user
    /\ user' = m
    /\ UNCHANGED <<portal, chainVars, databaseVars, oauthVars, opened, lost, restarts>>

\* The app is killed and started again, with a fresh store; queued writes survive.
Restart ==
    /\ restarts < MaxRestarts
    /\ restarts' = restarts + 1
    /\ portal' = InitialState
    /\ GiveUp(Chains)
    /\ stage' = [c \in Chains |-> "idle"]
    /\ who' = [c \in Chains |-> Nothing]
    /\ token' = [c \in Chains |-> Nothing]
    /\ answer' = [c \in Chains |-> Nothing]
    /\ UNCHANGED <<user, databaseVars, issued, owner, liveAccess, liveRefresh, opened>>

\* The oldest queued set reaches the server and replaces the member's record.
Flush ==
    /\ outbox # <<>>
    /\ records' = [records EXCEPT ![Head(outbox).member] = Head(outbox).record]
    /\ outbox' = Tail(outbox)
    /\ UNCHANGED <<user, portal, chainVars, local, oauthVars, opened, lost, restarts>>

-----------------------------------------------------------------------------
Next ==
    \/ \E c \in Chains :
          \/ EcdRedirect(c)
          \/ OnRecord(c)
          \/ OnReadSwallowed(c)
          \/ OnReadFail(c)
          \/ OnChecked(c)
          \/ OnCheckFailed(c)
          \/ OnRefreshed(c)
          \/ OnRefreshRetry(c)
          \/ OnRefreshFailed(c)
          \/ CheckToken(c)
          \/ RefreshToken(c)
    \/ \E k \in Grants : RefreshLate(k) \/ Expire(k)
    \/ \E m \in Members : SwitchMember(m)
    \/ Restart
    \/ Flush

\* What the app does about a promise of http.post: HttpCall settles it.
Settle(c) ==
    \/ OnChecked(c)
    \/ OnCheckFailed(c)
    \/ OnRefreshed(c)
    \/ OnRefreshFailed(c)

\* The promises of http.post settle, as Http shows; once may wait for a connection.
Fairness == \A c \in Chains : WF_vars(Settle(c))

Spec == Init /\ [][Next]_vars /\ Fairness

-----------------------------------------------------------------------------
\* Properties.

\* The values the state can take: a chain beyond the read holds a record.
TypeOK ==
    /\ user \in Members
    /\ portal \in SUBSET PortalFlags
    /\ stage \in [Chains -> Stages]
    /\ who \in [Chains -> Members \cup {Nothing}]
    /\ token \in [Chains -> Record \cup {Nothing}]
    /\ answer \in [Chains -> Record \cup {Nothing}]
    /\ records \in [Members -> Record \cup {Nothing}]
    /\ local \in [Members -> Record \cup {Nothing}]
    /\ outbox \in Seq([member : Members, record : Record])
    /\ issued \in Tokens
    /\ owner \in [Grants -> Members \cup {Nothing}]
    /\ liveAccess \subseteq Grants
    /\ liveRefresh \subseteq Grants
    /\ late \subseteq Tokens
    /\ opened \in [member : Members, token : Tokens] \cup {Nothing}
    /\ lost \subseteq Members
    /\ restarts \in Nat
    /\ \A c \in Chains : stage[c] \in {"check", "checked", "refresh"} => token[c] \in Record

\* A link is opened with a token the OAuth server made out for the member who tapped,
\* although another may have signed in since, refreshed pairs of both are queued, and
\* the record was written by earlier redirects.
LinkIsOwn == opened # Nothing => opened.token \in Grants /\ owner[opened.token] = opened.member

HasTokens(record) == record # Nothing /\ record.refresh # 0

\* When the OAuth server keeps refresh tokens, every pair that is stored or queued
\* can be refreshed: no order of overlapping redirects, retries, late executions and
\* restarts leaves a member with a record from which ecdRedirect$ cannot recover.
StoredPairUsable ==
    ~Rotates =>
        /\ \A m \in Members :
              /\ HasTokens(records[m]) => records[m].refresh \in liveRefresh
              /\ HasTokens(local[m]) => local[m].refresh \in liveRefresh
        /\ \A i \in 1..Len(outbox) : outbox[i].record.refresh \in liveRefresh

\* When the OAuth server rotates refresh tokens, a member's pair becomes unusable
\* only if an answer of oauth/token was lost (by a retry, a timeout, a late execution
\* or a kill); overlapping redirects alone never do that.
PairLostOnlyWithAnswer ==
    \A m \in Members \ lost :
        HasTokens(local[m]) =>
            \/ local[m].refresh \in liveRefresh
            \/ \E c \in Chains :
                  who[c] = m /\ answer[c] # Nothing /\ answer[c].refresh \in liveRefresh

\* A redirect that has read its record ends, in an opened link or in silence.
RedirectEnds ==
    \A c \in Chains : stage[c] \in {"check", "checked", "refresh"} ~> stage[c] = "idle"

\* A failed redirect is flagged as failed.
FailureIsFlagged ==
    [][\A c \in Chains : OnReadFail(c) => "redirectFail" \in portal']_vars
=============================================================================
