---------------------------- MODULE PortalProofs ----------------------------
(***************************************************************************)
(* Proofs about Portal, for any number of members, redirects and grants.   *)
(*                                                                         *)
(* That a link carries the token of the member who tapped depends on every *)
(* place a pair passes through: the record on the server, its local copy,  *)
(* the queued writes, what a chain has read and what it was answered.  The *)
(* inductive invariant says that each of them only holds pairs of its own  *)
(* member, and, without rotation, only pairs that can be refreshed.        *)
(***************************************************************************)
EXTENDS Portal, SequenceTheorems, TLAPS

\* Live tokens come from grants that were made, each for a member.
Issued ==
    /\ liveAccess \subseteq 1..issued
    /\ liveRefresh \subseteq 1..issued
    /\ \A n \in 1..issued : owner[n] \in Members

\* Token n, if it is there, was made out for m.
Mine(n, m) == n # 0 => n \in 1..issued /\ owner[n] = m

Own(r, m) == Mine(r.access, m) /\ Mine(r.refresh, m)

\* The database and what is on its way to it hold pairs of their own member, and
\* without rotation pairs that can be refreshed.
DatabaseOK ==
    /\ \A m \in Members : records[m] # Nothing => Own(records[m], m)
    /\ \A m \in Members : local[m] # Nothing => Own(local[m], m)
    /\ \A i \in 1..Len(outbox) : Own(outbox[i].record, outbox[i].member)
    /\ StoredPairUsable

\* A chain in flight belongs to a member and holds that member's pairs; a token about
\* to go into a link is there.
ChainOK(c) ==
    /\ stage[c] # "idle" => who[c] \in Members
    /\ stage[c] \in {"check", "checked", "refresh"} => token[c] \in Record /\ Own(token[c], who[c])
    /\ stage[c] = "checked" => token[c].access # 0
    /\ answer[c] # Nothing =>
          /\ stage[c] = "refresh"
          /\ answer[c].access # 0 /\ Own(answer[c], who[c])
          /\ ~Rotates => answer[c].refresh \in liveRefresh

OpenedOwn == opened # Nothing => opened.token # 0 /\ Mine(opened.token, opened.member)

IInv == TypeOK /\ Issued /\ DatabaseOK /\ OpenedOwn /\ \A c \in Chains : ChainOK(c)

Writes == [member : Members, record : Record]

-----------------------------------------------------------------------------
\* A record is a pair and not Nothing.
LEMMA RecordFacts ==
    /\ MaxGrants \in Nat
    /\ \A r \in Record : r # Nothing /\ r.access \in Tokens /\ r.refresh \in Tokens
    /\ \A a, r \in Tokens : Pair(a, r) \in Record
<1>1. Record \subseteq [access : Nat, refresh : Nat]
  BY PortalAssumption DEF Record, Tokens
<1> QED
  BY <1>1, PortalAssumption DEF Record, Pair

\* At the start only records hold tokens, each its own member's.
LEMMA InitIInv == Init => IInv
<1> SUFFICES ASSUME Init
             PROVE  IInv
  OBVIOUS
<1> USE DEF Init
<1>1. MaxGrants \in Nat /\ issued \in 0..MaxGrants /\ 1..issued \subseteq Grants /\ 1..issued \subseteq Tokens
  BY PortalAssumption DEF Tokens, Grants
<1>2. \A n \in 1..issued : owner[n] \in Members /\ ~(n > issued)
  BY <1>1 DEF Grants
<1>3. ASSUME NEW m \in Members, records[m] # Nothing
      PROVE  records[m] \in Record /\ Own(records[m], m) /\ (records[m].refresh # 0 => records[m].refresh \in 1..issued)
  <2>1. CASE records[m] = Pair(0, 0)
    <3>1. 0 \in Tokens
      BY <1>1 DEF Tokens
    <3> QED
      BY <2>1, <3>1, RecordFacts DEF Own, Mine, Pair
  <2>2. CASE records[m] # Pair(0, 0)
    <3>1. PICK n \in 1..issued : records[m] = Pair(n, n)
      BY <1>3, <2>2
    <3>2. owner[n] = m
      BY <1>3, <2>2, <3>1 DEF Pair
    <3> QED
      BY <1>1, <3>1, <3>2, RecordFacts DEF Own, Mine, Pair
  <2> QED
    BY <2>1, <2>2
<1>4. records \in [Members -> Record \cup {Nothing}]
  BY <1>3
<1>5. TypeOK
  <2>1. outbox \in Seq([member : Members, record : Record])
    BY EmptySeq
  <2>2. portal \in SUBSET PortalFlags
    BY DEF InitialState
  <2>3. stage \in [Chains -> Stages] /\ \A c \in Chains : stage[c] = "idle"
    BY DEF Stages
  <2> QED
    BY <1>1, <1>4, <2>1, <2>2, <2>3 DEF TypeOK
<1>6. Len(outbox) = 0
  BY EmptySeq
<1> QED
  BY <1>1, <1>2, <1>3, <1>5, <1>6 DEF IInv, Issued, DatabaseOK, OpenedOwn, ChainOK,
     StoredPairUsable, HasTokens

-----------------------------------------------------------------------------
\* Grants are only added, and without rotation no refresh token dies.
Grow ==
    /\ issued \in Nat /\ issued' \in Nat /\ issued <= issued'
    /\ \A n \in 1..issued : owner'[n] = owner[n]
    /\ ~Rotates => liveRefresh \subseteq liveRefresh'

\* A token stays its member's while grants are only added.
LEMMA MineKept == ASSUME Grow PROVE \A n, m : Mine(n, m) => Mine(n, m)'
<1> SUFFICES ASSUME NEW n, NEW m, Mine(n, m), n # 0
             PROVE  n \in 1..issued' /\ owner'[n] = m
  BY DEF Mine
<1>1. n \in 1..issued /\ owner[n] = m
  BY DEF Mine
<1> QED
  BY <1>1 DEF Grow

\* A pair stays its member's.
LEMMA OwnKept ==
    ASSUME Grow, NEW r, NEW m, Own(r, m)
    PROVE  Own(r, m)'
BY MineKept DEF Own

\* A step without a grant adds nothing and takes nothing.
LEMMA QuietGrow == ASSUME TypeOK, UNCHANGED <<issued, owner, liveRefresh>> PROVE Grow
<1>1. issued \in Nat
  BY RecordFacts DEF TypeOK, Tokens
<1> QED
  BY <1>1 DEF Grow

\* A chain that a step does not touch stays as good as it was.
LEMMA ChainKept ==
    ASSUME Grow, NEW d \in Chains, ChainOK(d),
           stage'[d] = stage[d], who'[d] = who[d], token'[d] = token[d], answer'[d] = answer[d]
    PROVE  ChainOK(d)'
<1>1. PICK s, w, k, a : s = stage[d] /\ w = who[d] /\ k = token[d] /\ a = answer[d]
  OBVIOUS
<1>2. Own(k, w) => Own(k, w)'
  BY OwnKept
<1>3. Own(a, w) => Own(a, w)'
  BY OwnKept
<1> QED
  BY <1>1, <1>2, <1>3 DEF ChainOK, Own, Mine, Grow

\* A step that writes no record leaves the database in order.
LEMMA DatabaseKept == ASSUME TypeOK, DatabaseOK, Grow, UNCHANGED databaseVars PROVE DatabaseOK'
<1>1. UNCHANGED <<records, local, outbox>>
  BY DEF databaseVars
<1>2. \A n, m : Mine(n, m) => Mine(n, m)'
  BY MineKept
<1> QED
  BY <1>1, <1>2, SMTT(30) DEF DatabaseOK, StoredPairUsable, HasTokens, Own, Mine, Grow

\* The link opened last stays its member's.
LEMMA OpenedKept == ASSUME OpenedOwn, Grow, UNCHANGED opened PROVE OpenedOwn'
<1>1. \A n, m : Mine(n, m) => Mine(n, m)'
  BY MineKept
<1> QED
  BY <1>1 DEF OpenedOwn, Mine

\* An ended chain holds nothing, and the others are as they were.
LEMMA EndChainOK ==
    ASSUME IInv, Grow, NEW c \in Chains, EndChain(c)
    PROVE  /\ stage' \in [Chains -> Stages]
           /\ who' \in [Chains -> Members \cup {Nothing}]
           /\ token' \in [Chains -> Record \cup {Nothing}]
           /\ answer' \in [Chains -> Record \cup {Nothing}]
           /\ \A d \in Chains : stage'[d] \in {"check", "checked", "refresh"} => token'[d] \in Record
           /\ \A d \in Chains : ChainOK(d)'
<1>1. TypeOK
  BY DEF IInv
<1>2. /\ stage' \in [Chains -> Stages] /\ stage'[c] = "idle"
      /\ who' \in [Chains -> Members \cup {Nothing}]
      /\ token' \in [Chains -> Record \cup {Nothing}]
      /\ answer' \in [Chains -> Record \cup {Nothing}] /\ answer'[c] = Nothing
      /\ \A d \in Chains : d # c =>
            stage'[d] = stage[d] /\ who'[d] = who[d] /\ token'[d] = token[d] /\ answer'[d] = answer[d]
  BY <1>1 DEF EndChain, TypeOK, Stages
<1>3. ChainOK(c)'
  BY <1>2 DEF ChainOK
<1>4. \A d \in Chains : d # c => ChainOK(d)'
  BY <1>2, ChainKept DEF IInv
<1>5. \A d \in Chains : stage'[d] \in {"check", "checked", "refresh"} => token'[d] \in Record
  BY <1>1, <1>2 DEF TypeOK
<1> QED
  BY <1>2, <1>3, <1>4, <1>5

\* The steps that end a chain without a pair: nothing is stored, nothing is granted.
LEMMA EndStep ==
    ASSUME IInv, NEW c \in Chains,
           OnReadSwallowed(c) \/ OnReadFail(c) \/ OnChecked(c) \/ OnRefreshFailed(c)
    PROVE  IInv'
<1>1. TypeOK /\ Issued /\ DatabaseOK /\ OpenedOwn /\ ChainOK(c)
  BY DEF IInv
<1>2. /\ EndChain(c)
      /\ UNCHANGED <<user, records, local, outbox, issued, owner, liveAccess, liveRefresh, restarts>>
      /\ portal' \in {portal, PortalReducer(portal, "ECD_REDIRECT_FAIL")}
      /\ \/ UNCHANGED opened
         \/ stage[c] = "checked" /\ opened' = [member |-> who[c], token |-> token[c].access]
      /\ (UNCHANGED <<lost, late>>) \/ (stage[c] = "refresh" /\ GiveUp({c}))
  BY DEF OnReadSwallowed, OnReadFail, OnChecked, OnRefreshFailed, databaseVars, oauthVars
<1>3. Grow
  BY <1>1, <1>2, QuietGrow
<1>4. lost' \subseteq Members /\ late' \subseteq Tokens
  BY <1>1, <1>2, RecordFacts DEF TypeOK, GiveUp, ChainOK
<1>5. opened' \in [member : Members, token : Tokens] \cup {Nothing} /\ OpenedOwn'
  <2>1. CASE UNCHANGED opened
    BY <1>1, <1>3, <2>1, OpenedKept DEF TypeOK
  <2>2. CASE stage[c] = "checked" /\ opened' = [member |-> who[c], token |-> token[c].access]
    <3>1. /\ who[c] \in Members /\ token[c] \in Record /\ token[c].access # 0
          /\ Mine(token[c].access, who[c])
      BY <1>1, <2>2 DEF ChainOK, Own
    <3> QED
      BY <1>2, <2>2, <3>1, RecordFacts DEF OpenedOwn, Mine
  <2> QED
    BY <1>2, <2>1, <2>2
<1>6. TypeOK'
  <2>1. portal' \in SUBSET PortalFlags
    BY <1>1, <1>2 DEF TypeOK, PortalReducer, PortalFlags
  <2> QED
    BY <1>1, <1>2, <1>3, <1>4, <1>5, <2>1, EndChainOK DEF TypeOK
<1>7. Issued' /\ DatabaseOK'
  BY <1>1, <1>2, <1>3, DatabaseKept DEF Issued, databaseVars
<1> QED
  BY <1>2, <1>3, <1>5, <1>6, <1>7, EndChainOK DEF IInv

\* The steps that move a chain along.
LEMMA MoveStep ==
    ASSUME IInv, NEW c \in Chains,
           EcdRedirect(c) \/ OnRecord(c) \/ OnCheckFailed(c) \/ OnRefreshRetry(c) \/ CheckToken(c)
    PROVE  IInv'
<1>1. TypeOK /\ Issued /\ DatabaseOK /\ OpenedOwn /\ ChainOK(c)
  BY DEF IInv
<1>2. /\ UNCHANGED <<user, records, local, outbox, issued, owner, liveAccess, liveRefresh, opened, restarts>>
      /\ portal' \in {portal, PortalReducer(portal, "ECD_REDIRECT")}
      /\ (UNCHANGED <<lost, late>>) \/ (stage[c] = "refresh" /\ GiveUp({c}))
  BY DEF EcdRedirect, OnRecord, OnCheckFailed, OnRefreshRetry, CheckToken, databaseVars, oauthVars
<1>3. Grow
  BY <1>1, <1>2, QuietGrow
<1>4. lost' \subseteq Members /\ late' \subseteq Tokens
  BY <1>1, <1>2, RecordFacts DEF TypeOK, GiveUp, ChainOK
<1>5. /\ stage' \in [Chains -> Stages]
      /\ who' \in [Chains -> Members \cup {Nothing}]
      /\ token' \in [Chains -> Record \cup {Nothing}]
      /\ answer' \in [Chains -> Record \cup {Nothing}]
      /\ \A d \in Chains : d # c =>
            stage'[d] = stage[d] /\ who'[d] = who[d] /\ token'[d] = token[d] /\ answer'[d] = answer[d]
      /\ \/ stage'[c] = "read" /\ who'[c] \in Members /\ answer'[c] = Nothing
         \/ /\ stage'[c] = "check" /\ who'[c] = who[c] /\ who[c] \in Members /\ answer'[c] = Nothing
            /\ token'[c] = local[who[c]] /\ local[who[c]] # Nothing
         \/ /\ stage'[c] = "refresh" /\ who'[c] = who[c] /\ token'[c] = token[c] /\ answer'[c] = Nothing
            /\ stage[c] \in {"check", "checked", "refresh"}
         \/ /\ stage'[c] = "checked" /\ who'[c] = who[c] /\ token'[c] = token[c] /\ answer'[c] = Nothing
            /\ stage[c] = "check" /\ token[c].access \in liveAccess
  <2> USE <1>1 DEF TypeOK, Stages
  <2>1. CASE EcdRedirect(c)
    BY <2>1 DEF EcdRedirect, ChainOK
  <2>2. CASE OnRecord(c)
    <3>1. who[c] \in Members /\ answer[c] = Nothing
      BY <2>2 DEF OnRecord, ChainOK
    <3> QED
      BY <2>2, <3>1 DEF OnRecord
  <2>3. CASE OnCheckFailed(c)
    BY <2>3 DEF OnCheckFailed, ChainOK
  <2>4. CASE OnRefreshRetry(c)
    BY <2>4 DEF OnRefreshRetry
  <2>5. CASE CheckToken(c)
    BY <2>5 DEF CheckToken, ChainOK
  <2> QED
    BY <2>1, <2>2, <2>3, <2>4, <2>5
<1>6. ChainOK(c)' /\ (stage'[c] \in {"check", "checked", "refresh"} => token'[c] \in Record)
  <2>1. CASE stage'[c] = "read"
    BY <1>5, <2>1 DEF ChainOK
  <2>2. CASE stage'[c] = "check"
    BY <1>1, <1>2, <1>5, <2>2 DEF ChainOK, DatabaseOK, Own, Mine, TypeOK
  <2>3. CASE stage'[c] = "refresh"
    BY <1>1, <1>2, <1>5, <2>3 DEF ChainOK, Own, Mine
  <2>4. CASE stage'[c] = "checked"
    <3>1. token[c].access # 0
      BY <1>1, <1>5, <2>4, RecordFacts DEF TypeOK, Grants
    <3> QED
      BY <1>1, <1>2, <1>5, <2>4, <3>1 DEF ChainOK, Own, Mine
  <2> QED
    BY <1>5, <2>1, <2>2, <2>3, <2>4
<1>7. \A d \in Chains : ChainOK(d)'
  BY <1>3, <1>5, <1>6, ChainKept DEF IInv
<1>8. TypeOK'
  <2>1. portal' \in SUBSET PortalFlags
    BY <1>1, <1>2 DEF TypeOK, PortalReducer, PortalFlags
  <2>2. \A d \in Chains : stage'[d] \in {"check", "checked", "refresh"} => token'[d] \in Record
    BY <1>7 DEF ChainOK
  <2> QED
    BY <1>1, <1>2, <1>4, <1>5, <2>1, <2>2 DEF TypeOK
<1>9. Issued' /\ DatabaseOK' /\ OpenedOwn'
  BY <1>1, <1>2, <1>3, DatabaseKept, OpenedKept DEF Issued, databaseVars
<1> QED
  BY <1>7, <1>8, <1>9 DEF IInv

\* The pair of a chain goes into a link and into the record of its member.
LEMMA OnRefreshedStep == ASSUME IInv, NEW c \in Chains, OnRefreshed(c) PROVE IInv'
<1> DEFINE w == [member |-> who[c], record |-> answer[c]]
<1>1. TypeOK /\ Issued /\ DatabaseOK /\ ChainOK(c)
  BY DEF IInv
<1>2. /\ EndChain(c) /\ stage[c] = "refresh" /\ answer[c] # Nothing
      /\ UNCHANGED <<user, portal, records, issued, owner, liveAccess, liveRefresh, late, lost, restarts>>
      /\ opened' = [member |-> who[c], token |-> answer[c].access]
      /\ local' = [local EXCEPT ![who[c]] = answer[c]]
      /\ outbox' = Append(outbox, w)
  BY DEF OnRefreshed, oauthVars
<1>3. Grow
  BY <1>1, <1>2, QuietGrow
<1>4. /\ who[c] \in Members /\ answer[c] \in Record /\ answer[c].access # 0
      /\ Own(answer[c], who[c]) /\ (~Rotates => answer[c].refresh \in liveRefresh)
  BY <1>1, <1>2 DEF ChainOK, TypeOK
<1>5. opened' \in [member : Members, token : Tokens] \cup {Nothing} /\ OpenedOwn'
  BY <1>2, <1>4, RecordFacts DEF OpenedOwn, Own, Mine
<1>6. /\ outbox \in Seq(Writes) /\ w \in Writes
      /\ outbox' \in Seq(Writes) /\ Len(outbox) \in Nat /\ Len(outbox') = Len(outbox) + 1
      /\ \A i \in 1..Len(outbox) : outbox'[i] = outbox[i]
      /\ outbox'[Len(outbox) + 1] = w
  <2>1. outbox \in Seq(Writes) /\ w \in Writes
    BY <1>1, <1>4 DEF TypeOK, Writes
  <2> QED
    BY <1>2, <2>1, AppendProperties, LenProperties
<1>7. local' \in [Members -> Record \cup {Nothing}]
  BY <1>1, <1>2, <1>4 DEF TypeOK
<1>8. TypeOK'
  BY <1>1, <1>2, <1>3, <1>5, <1>6, <1>7, EndChainOK DEF TypeOK, Writes
<1>9. DatabaseOK'
  <2>1. \A i \in 1..Len(outbox') : outbox'[i] = w \/ (i \in 1..Len(outbox) /\ outbox'[i] = outbox[i])
    BY <1>6
  <2>2. \A m \in Members : local'[m] = IF m = who[c] THEN answer[c] ELSE local[m]
    BY <1>1, <1>2 DEF TypeOK
  <2>3. \A n, m : Mine(n, m)' <=> Mine(n, m)
    BY <1>2 DEF Mine
  <2>4. (\A i \in 1..Len(outbox) : Own(outbox[i].record, outbox[i].member))'
    BY <1>1, <1>2, <1>4, <2>1, <2>3 DEF DatabaseOK, Own, Mine
  <2>5. (\A m \in Members : local[m] # Nothing => Own(local[m], m))'
    BY <1>1, <1>2, <1>4, <2>2, <2>3 DEF DatabaseOK, Own, Mine
  <2>6. (\A m \in Members : records[m] # Nothing => Own(records[m], m))'
    BY <1>1, <1>2, <2>3 DEF DatabaseOK, Own, Mine
  <2>7. StoredPairUsable'
    BY <1>1, <1>2, <1>4, <2>1, <2>2 DEF DatabaseOK, StoredPairUsable, HasTokens
  <2> QED
    BY <2>4, <2>5, <2>6, <2>7 DEF DatabaseOK, Own, Mine
<1>10. Issued'
  BY <1>1, <1>2 DEF Issued
<1> QED
  BY <1>2, <1>3, <1>5, <1>8, <1>9, <1>10, EndChainOK DEF IInv

\* A grant adds a number that nobody had, for the owner of the token it was asked with.
LEMMA GrantFacts ==
    ASSUME IInv, NEW k, Grant(k)
    PROVE  /\ k \in 1..issued /\ k \in Tokens /\ owner[k] \in Members
           /\ issued + 1 \in Grants /\ issued + 1 \in Tokens /\ issued + 1 # 0
           /\ issued' = issued + 1 /\ issued \in Nat
           /\ owner' \in [Grants -> Members \cup {Nothing}]
           /\ owner'[k] = owner[k] /\ owner'[issued + 1] = owner[k]
           /\ liveAccess' \subseteq Grants /\ liveRefresh' \subseteq Grants
           /\ Grow /\ Issued'
<1>1. TypeOK /\ Issued
  BY DEF IInv
<1>2. /\ k \in liveRefresh /\ issued < MaxGrants /\ issued' = issued + 1
      /\ owner' = [owner EXCEPT ![issued + 1] = owner[k]]
      /\ liveAccess' = {n \in liveAccess : owner[n] # owner[k]} \cup {issued + 1}
      /\ liveRefresh' = IF Rotates THEN (liveRefresh \ {k}) \cup {issued + 1} ELSE liveRefresh
  BY DEF Grant
<1>3. /\ issued \in Nat /\ issued + 1 \in Grants /\ issued + 1 \in Tokens /\ issued + 1 # 0
      /\ 1..issued \subseteq Grants /\ 1..issued \subseteq Tokens /\ 1..issued \subseteq 1..(issued + 1)
      /\ issued + 1 \in 1..(issued + 1) /\ issued + 1 \notin 1..issued
  BY <1>1, <1>2, RecordFacts DEF TypeOK, Grants, Tokens
<1>4. k \in 1..issued /\ owner[k] \in Members
  BY <1>1, <1>2 DEF Issued
<1>5. owner \in [Grants -> Members \cup {Nothing}]
  BY <1>1 DEF TypeOK
<1>6. /\ owner' \in [Grants -> Members \cup {Nothing}]
      /\ \A n \in 1..issued : owner'[n] = owner[n]
      /\ owner'[issued + 1] = owner[k]
  BY <1>2, <1>3, <1>4, <1>5
<1>7. /\ liveAccess' \subseteq 1..(issued + 1) /\ liveRefresh' \subseteq 1..(issued + 1)
      /\ liveAccess' \subseteq Grants /\ liveRefresh' \subseteq Grants
  BY <1>1, <1>2, <1>3 DEF Issued
<1>8. \A n \in 1..(issued + 1) : n \in 1..issued \/ n = issued + 1
  BY <1>3
<1>9. Grow
  BY <1>2, <1>3, <1>6 DEF Grow
<1>10. Issued'
  BY <1>1, <1>2, <1>4, <1>6, <1>7, <1>8 DEF Issued
<1> QED
  BY <1>2, <1>3, <1>4, <1>6, <1>7, <1>9, <1>10

\* The pair made out for a chain is its member's.
LEMMA RefreshTokenStep == ASSUME IInv, NEW c \in Chains, RefreshToken(c) PROVE IInv'
<1> DEFINE k == token[c].refresh
           pair == Refreshed(k)
<1>1. TypeOK /\ DatabaseOK /\ OpenedOwn /\ ChainOK(c)
  BY DEF IInv
<1>2. /\ UNCHANGED <<user, portal, stage, who, token, records, local, outbox, late, opened, lost, restarts>>
      /\ stage[c] = "refresh" /\ Grant(k) /\ answer' = [answer EXCEPT ![c] = pair]
  BY DEF RefreshToken, databaseVars
<1>3. /\ k \in 1..issued /\ k \in Tokens /\ owner[k] \in Members
      /\ issued + 1 \in Grants /\ issued + 1 \in Tokens /\ issued + 1 # 0
      /\ issued' = issued + 1 /\ issued \in Nat
      /\ owner' \in [Grants -> Members \cup {Nothing}]
      /\ owner'[k] = owner[k] /\ owner'[issued + 1] = owner[k]
      /\ liveAccess' \subseteq Grants /\ liveRefresh' \subseteq Grants
      /\ Grow /\ Issued'
  BY <1>2, GrantFacts
<1>4. who[c] \in Members /\ owner[k] = who[c] /\ token[c] \in Record
  BY <1>1, <1>2, <1>3 DEF ChainOK, Own, Mine
<1>5. /\ pair \in Record /\ pair.access = issued + 1
      /\ pair.refresh = IF Rotates THEN issued + 1 ELSE k
  BY <1>3, RecordFacts DEF Refreshed, Pair
<1>6. /\ answer' \in [Chains -> Record \cup {Nothing}] /\ answer'[c] = pair
      /\ \A d \in Chains : d # c => answer'[d] = answer[d]
  BY <1>1, <1>2, <1>5 DEF TypeOK
<1>7. ChainOK(c)'
  <2>1. Own(answer[c], who[c])'
    BY <1>2, <1>3, <1>4, <1>5, <1>6 DEF Own, Mine
  <2>2. Own(token[c], who[c])'
    <3>1. PICK r, m : r = token[c] /\ m = who[c]
      OBVIOUS
    <3>2. Own(r, m)'
      BY <1>1, <1>2, <1>3, <3>1, OwnKept DEF ChainOK
    <3> QED
      BY <1>2, <3>1, <3>2 DEF Own, Mine
  <2>3. ~Rotates => answer'[c].refresh \in liveRefresh'
    BY <1>2, <1>5, <1>6 DEF Grant
  <2>4. answer'[c].access # 0
    BY <1>3, <1>5, <1>6
  <2> QED
    BY <1>2, <1>4, <2>1, <2>2, <2>3, <2>4 DEF ChainOK, Own, Mine
<1>8. \A d \in Chains : ChainOK(d)'
  BY <1>2, <1>3, <1>6, <1>7, ChainKept DEF IInv
<1>9. TypeOK'
  BY <1>1, <1>2, <1>3, <1>6 DEF TypeOK
<1>10. DatabaseOK' /\ OpenedOwn'
  BY <1>1, <1>2, <1>3, DatabaseKept, OpenedKept DEF databaseVars
<1> QED
  BY <1>3, <1>8, <1>9, <1>10 DEF IInv

\* A late grant changes no pair the app holds.
LEMMA RefreshLateStep == ASSUME IInv, NEW k \in Grants, RefreshLate(k) PROVE IInv'
<1>1. TypeOK /\ DatabaseOK /\ OpenedOwn
  BY DEF IInv
<1>2. /\ UNCHANGED <<user, portal, stage, who, token, answer, records, local, outbox, opened, restarts>>
      /\ Grant(k) /\ late' \in {late, late \ {k}} /\ lost' = lost \cup {owner[k]}
  BY DEF RefreshLate, chainVars, databaseVars
<1>3. /\ owner[k] \in Members /\ issued' \in Tokens /\ Grow /\ Issued'
      /\ owner' \in [Grants -> Members \cup {Nothing}]
      /\ liveAccess' \subseteq Grants /\ liveRefresh' \subseteq Grants
  BY <1>2, GrantFacts
<1>4. TypeOK'
  BY <1>1, <1>2, <1>3 DEF TypeOK
<1>5. \A d \in Chains : ChainOK(d)'
  BY <1>2, <1>3, ChainKept DEF IInv
<1>6. DatabaseOK' /\ OpenedOwn'
  BY <1>1, <1>2, <1>3, DatabaseKept, OpenedKept DEF databaseVars
<1> QED
  BY <1>3, <1>4, <1>5, <1>6 DEF IInv

\* Expiry, a change of member and stuttering touch no pair.
LEMMA QuietStep ==
    ASSUME IInv, (\E n \in Grants : Expire(n)) \/ (\E m \in Members : SwitchMember(m)) \/ UNCHANGED vars
    PROVE  IInv'
<1>1. TypeOK /\ Issued /\ DatabaseOK /\ OpenedOwn
  BY DEF IInv
<1>2. /\ UNCHANGED <<portal, stage, who, token, answer, records, local, outbox, issued, owner>>
      /\ UNCHANGED <<liveRefresh, late, opened, lost, restarts>>
      /\ liveAccess' \subseteq liveAccess /\ user' \in Members
  BY <1>1 DEF Expire, SwitchMember, vars, chainVars, databaseVars, oauthVars, TypeOK
<1>3. Grow
  BY <1>1, <1>2, QuietGrow
<1>4. TypeOK' /\ Issued'
  BY <1>1, <1>2 DEF TypeOK, Issued
<1>5. \A d \in Chains : ChainOK(d)'
  BY <1>2, <1>3, ChainKept DEF IInv
<1>6. DatabaseOK' /\ OpenedOwn'
  BY <1>1, <1>2, <1>3, DatabaseKept, OpenedKept DEF databaseVars
<1> QED
  BY <1>4, <1>5, <1>6 DEF IInv

\* A restart forgets every chain.
LEMMA RestartStep == ASSUME IInv, Restart PROVE IInv'
<1>1. TypeOK /\ Issued /\ DatabaseOK /\ OpenedOwn
  BY DEF IInv
<1>2. /\ UNCHANGED <<user, records, local, outbox, issued, owner, liveAccess, liveRefresh, opened>>
      /\ stage' = [c \in Chains |-> "idle"] /\ who' = [c \in Chains |-> Nothing]
      /\ token' = [c \in Chains |-> Nothing] /\ answer' = [c \in Chains |-> Nothing]
      /\ portal' = {} /\ GiveUp(Chains) /\ restarts' = restarts + 1
  BY DEF Restart, databaseVars, InitialState
<1>3. Grow
  BY <1>1, <1>2, QuietGrow
<1>4. lost' \subseteq Members /\ late' \subseteq Tokens
  <2>1. \A c \in Chains : answer[c] # Nothing => who[c] \in Members
    BY DEF IInv, ChainOK
  <2>2. \A c \in Chains : stage[c] = "refresh" => token[c].refresh \in Tokens
    BY RecordFacts DEF IInv, ChainOK
  <2> QED
    BY <1>1, <1>2, <2>1, <2>2 DEF TypeOK, GiveUp
<1>5. restarts' \in Nat /\ stage' \in [Chains -> Stages] /\ portal' \in SUBSET PortalFlags
  BY <1>1, <1>2 DEF TypeOK, Stages
<1>6. TypeOK'
  BY <1>1, <1>2, <1>4, <1>5 DEF TypeOK
<1>7. \A d \in Chains : ChainOK(d)'
  BY <1>2 DEF ChainOK
<1>8. Issued' /\ DatabaseOK' /\ OpenedOwn'
  BY <1>1, <1>2, <1>3, DatabaseKept, OpenedKept DEF databaseVars, Issued
<1> QED
  BY <1>6, <1>7, <1>8 DEF IInv

\* The server takes over the oldest queued write.
LEMMA FlushStep == ASSUME IInv, Flush PROVE IInv'
<1>1. TypeOK /\ Issued /\ DatabaseOK /\ OpenedOwn
  BY DEF IInv
<1>2. /\ UNCHANGED <<user, portal, stage, who, token, answer, local, issued, owner, liveAccess>>
      /\ UNCHANGED <<liveRefresh, late, opened, lost, restarts>>
      /\ outbox # <<>> /\ outbox' = Tail(outbox)
      /\ records' = [records EXCEPT ![Head(outbox).member] = Head(outbox).record]
  BY DEF Flush, chainVars, oauthVars
<1>3. Grow
  BY <1>1, <1>2, QuietGrow
<1>4. /\ outbox \in Seq(Writes) /\ Head(outbox) \in Writes /\ outbox' \in Seq(Writes)
      /\ 1 \in 1..Len(outbox) /\ Head(outbox) = outbox[1]
      /\ \A i \in 1..Len(outbox') : i + 1 \in 1..Len(outbox) /\ outbox'[i] = outbox[i + 1]
  <2>1. outbox \in Seq(Writes)
    BY <1>1 DEF TypeOK, Writes
  <2>2. Len(outbox) \in Nat \ {0} /\ Len(outbox') = Len(outbox) - 1
    BY <1>2, <2>1, EmptySeq, HeadTailProperties
  <2> QED
    BY <1>2, <2>1, <2>2, HeadTailProperties
<1>5. Head(outbox).member \in Members /\ Head(outbox).record \in Record
  BY <1>4 DEF Writes
<1>6. \A m \in Members : records'[m] = IF m = Head(outbox).member THEN Head(outbox).record ELSE records[m]
  BY <1>1, <1>2, <1>5 DEF TypeOK
<1>7. TypeOK' /\ Issued'
  BY <1>1, <1>2, <1>4, <1>5 DEF TypeOK, Issued, Writes
<1>8. \A d \in Chains : ChainOK(d)'
  BY <1>2, <1>3, ChainKept DEF IInv
<1>9. DatabaseOK'
  <2>1. \A n, m : Mine(n, m)' <=> Mine(n, m)
    BY <1>2 DEF Mine
  <2>2. Own(Head(outbox).record, Head(outbox).member)
    BY <1>1, <1>4 DEF DatabaseOK
  <2>3. (\A m \in Members : records[m] # Nothing => Own(records[m], m))'
    BY <1>1, <1>2, <1>6, <2>1, <2>2 DEF DatabaseOK, Own, Mine
  <2>4. (\A m \in Members : local[m] # Nothing => Own(local[m], m))'
    BY <1>1, <1>2, <2>1 DEF DatabaseOK, Own, Mine
  <2>5. (\A i \in 1..Len(outbox) : Own(outbox[i].record, outbox[i].member))'
    BY <1>1, <1>2, <1>4, <2>1 DEF DatabaseOK, Own, Mine
  <2>6. StoredPairUsable'
    BY <1>1, <1>2, <1>4, <1>6 DEF DatabaseOK, StoredPairUsable, HasTokens
  <2> QED
    BY <2>3, <2>4, <2>5, <2>6 DEF DatabaseOK, Own, Mine
<1> QED
  BY <1>1, <1>2, <1>3, <1>7, <1>8, <1>9, OpenedKept DEF IInv

-----------------------------------------------------------------------------
\* The inductive invariant holds in every reachable state.
THEOREM Invariance == Spec => []IInv
<1>1. Init => IInv
  BY InitIInv
<1>2. IInv /\ [Next]_vars => IInv'
  <2> SUFFICES ASSUME IInv, [Next]_vars
               PROVE  IInv'
    OBVIOUS
  <2>1. ASSUME NEW c \in Chains,
               \/ EcdRedirect(c) \/ OnRecord(c) \/ OnCheckFailed(c) \/ OnRefreshRetry(c) \/ CheckToken(c)
               \/ OnReadSwallowed(c) \/ OnReadFail(c) \/ OnChecked(c) \/ OnRefreshFailed(c)
               \/ OnRefreshed(c) \/ RefreshToken(c)
        PROVE  IInv'
    BY <2>1, MoveStep, EndStep, OnRefreshedStep, RefreshTokenStep
  <2>2. ASSUME NEW k \in Grants, RefreshLate(k)
        PROVE  IInv'
    BY <2>2, RefreshLateStep
  <2>3. CASE (\E n \in Grants : Expire(n)) \/ (\E m \in Members : SwitchMember(m)) \/ UNCHANGED vars
    BY <2>3, QuietStep
  <2>4. CASE Restart \/ Flush
    BY <2>4, RestartStep, FlushStep
  <2> QED
    BY <2>1, <2>2, <2>3, <2>4 DEF Next
<1> QED
  BY <1>1, <1>2, PTL DEF Spec

\* The state of redirects, records and tokens stays well formed.
THEOREM TypeCorrect == Spec => []TypeOK
<1>1. IInv => TypeOK
  BY DEF IInv
<1> QED
  BY <1>1, Invariance, PTL

\* Whatever overlaps, every link ecdRedirect$ opens carries a token made out for the
\* member who tapped.
THEOREM LinksAreOwn == Spec => []LinkIsOwn
<1>1. IInv => LinkIsOwn
  <2> SUFFICES ASSUME IInv, opened # Nothing
               PROVE  opened.token \in Grants /\ owner[opened.token] = opened.member
    BY DEF LinkIsOwn
  <2>1. opened.token \in 1..issued /\ owner[opened.token] = opened.member
    BY DEF IInv, OpenedOwn, Mine
  <2>2. 1..issued \subseteq Grants
    BY RecordFacts DEF IInv, TypeOK, Tokens, Grants
  <2> QED
    BY <2>1, <2>2
<1> QED
  BY <1>1, Invariance, PTL

\* With an OAuth server that keeps refresh tokens, no interleaving of redirects,
\* retries, late executions and restarts stores a pair that cannot be refreshed.
THEOREM StoredPairsUsable == Spec => []StoredPairUsable
<1>1. IInv => StoredPairUsable
  BY DEF IInv, DatabaseOK
<1> QED
  BY <1>1, Invariance, PTL

-----------------------------------------------------------------------------
\* With rotation, a pair is made out once, and until its chain has stored it nobody
\* else can use it up: its refresh token is in no record the app sees, no chain has
\* read it and no attempt carries it.

Holding == {"check", "checked", "refresh"}

AnswerFresh(c) ==
    /\ answer[c].refresh \in liveRefresh
    /\ answer[c].refresh \notin late
    /\ \A m \in Members : local[m] # Nothing => local[m].refresh # answer[c].refresh
    /\ \A d \in Chains : stage[d] \in Holding => token[d].refresh # answer[c].refresh
    /\ \A d \in Chains : d # c /\ answer[d] # Nothing => answer[d].refresh # answer[c].refresh

AnswersFresh == Rotates => \A c \in Chains : answer[c] # Nothing => AnswerFresh(c)

LateIssued == \A k \in late : k <= issued

PairInv == LateIssued /\ AnswersFresh /\ PairLostOnlyWithAnswer

\* At the start no attempt was made, and every pair of a record can be refreshed.
LEMMA InitPairInv == Init => PairInv
<1> SUFFICES ASSUME Init
             PROVE  PairInv
  OBVIOUS
<1> USE DEF Init
<1>1. LateIssued /\ AnswersFresh
  BY DEF LateIssued, AnswersFresh
<1>2. ASSUME NEW m \in Members, HasTokens(local[m])
      PROVE  local[m].refresh \in liveRefresh
  BY <1>2 DEF HasTokens, Pair
<1> QED
  BY <1>1, <1>2 DEF PairInv, PairLostOnlyWithAnswer

\* Steps that make out no pair and store none: chains may read the record, and drop an
\* answer only at the price of losing it.
LEMMA PairKept ==
    ASSUME IInv, PairInv, UNCHANGED <<local, issued, owner, liveRefresh>>, lost \subseteq lost',
           \A d \in Chains :
              /\ answer'[d] # Nothing => answer'[d] = answer[d] /\ who'[d] = who[d]
              /\ answer[d] # Nothing => answer'[d] # Nothing \/ who[d] \in lost'
              /\ stage'[d] \in Holding =>
                    \/ stage[d] \in Holding /\ token'[d] = token[d]
                    \/ who[d] \in Members /\ local[who[d]] # Nothing /\ token'[d] = local[who[d]],
           \A k \in late' : k \in late \/ \E d \in Chains : stage[d] \in Holding /\ k = token[d].refresh
    PROVE  PairInv'
<1>1. issued \in Nat
  BY RecordFacts DEF IInv, TypeOK, Tokens
<1>2. \A d \in Chains : stage[d] \in Holding => token[d].refresh \in Tokens /\ token[d].refresh <= issued
  BY <1>1, RecordFacts DEF IInv, ChainOK, Own, Mine, Holding
<1>3. LateIssued'
  BY <1>2 DEF PairInv, LateIssued
<1>4. ASSUME Rotates, NEW c \in Chains, answer'[c] # Nothing
      PROVE  AnswerFresh(c)'
  <2>1. answer'[c] = answer[c] /\ AnswerFresh(c)
    BY <1>4 DEF PairInv, AnswersFresh
  <2>2. answer[c].refresh \in liveRefresh' /\ answer[c].refresh \notin late'
    BY <2>1 DEF AnswerFresh
  <2>3. \A m \in Members : local'[m] # Nothing => local'[m].refresh # answer[c].refresh
    BY <2>1 DEF AnswerFresh
  <2>4. \A d \in Chains : stage'[d] \in Holding => token'[d].refresh # answer[c].refresh
    BY <2>1 DEF AnswerFresh
  <2>5. \A d \in Chains : d # c /\ answer'[d] # Nothing => answer'[d].refresh # answer[c].refresh
    BY <2>1 DEF AnswerFresh
  <2> QED
    BY <2>1, <2>2, <2>3, <2>4, <2>5 DEF AnswerFresh
<1>5. ASSUME NEW m \in Members, m \notin lost', HasTokens(local'[m])
      PROVE  \/ local'[m].refresh \in liveRefresh'
             \/ \E c \in Chains :
                   who'[c] = m /\ answer'[c] # Nothing /\ answer'[c].refresh \in liveRefresh'
  BY <1>5 DEF PairInv, PairLostOnlyWithAnswer, HasTokens
<1> QED
  BY <1>3, <1>4, <1>5 DEF PairInv, AnswersFresh, PairLostOnlyWithAnswer, HasTokens

\* The chain stores its pair: nobody else had it.
LEMMA OnRefreshedPair ==
    ASSUME IInv, PairInv, NEW c \in Chains, OnRefreshed(c)
    PROVE  PairInv'
<1>1. /\ answer[c] # Nothing
      /\ local' = [local EXCEPT ![who[c]] = answer[c]]
      /\ EndChain(c)
      /\ UNCHANGED <<issued, owner, liveRefresh, late, lost>>
  BY DEF OnRefreshed, oauthVars
<1>2. who[c] \in Members /\ answer[c] \in Record
  BY <1>1 DEF IInv, ChainOK, TypeOK
<1>3. \A m \in Members : local'[m] = IF m = who[c] THEN answer[c] ELSE local[m]
  BY <1>1 DEF IInv, TypeOK
<1>4. /\ stage'[c] = "idle" /\ answer'[c] = Nothing
      /\ \A d \in Chains : d # c =>
            stage'[d] = stage[d] /\ who'[d] = who[d] /\ token'[d] = token[d] /\ answer'[d] = answer[d]
  BY <1>1 DEF EndChain, IInv, TypeOK
<1>5. LateIssued'
  BY <1>1 DEF PairInv, LateIssued
<1>6. ASSUME Rotates, NEW d \in Chains, answer'[d] # Nothing
      PROVE  AnswerFresh(d)'
  <2>1. d # c /\ answer'[d] = answer[d] /\ AnswerFresh(d)
    BY <1>4, <1>6 DEF PairInv, AnswersFresh
  <2>2. answer[c].refresh # answer[d].refresh
    BY <1>1, <2>1 DEF AnswerFresh
  <2>3. \A m \in Members : local'[m] # Nothing => local'[m].refresh # answer[d].refresh
    BY <1>3, <2>1, <2>2 DEF AnswerFresh
  <2>4. \A e \in Chains : stage'[e] \in Holding => token'[e].refresh # answer[d].refresh
    BY <1>4, <2>1 DEF AnswerFresh, Holding
  <2>5. \A e \in Chains : e # d /\ answer'[e] # Nothing => answer'[e].refresh # answer[d].refresh
    BY <1>4, <2>1 DEF AnswerFresh
  <2> QED
    BY <1>1, <2>1, <2>3, <2>4, <2>5 DEF AnswerFresh
<1>7. ASSUME NEW m \in Members, m \notin lost, HasTokens(local'[m])
      PROVE  \/ local'[m].refresh \in liveRefresh
             \/ \E d \in Chains : who'[d] = m /\ answer'[d] # Nothing /\ answer'[d].refresh \in liveRefresh
  <2>1. CASE m = who[c]
    <3>1. answer[c].refresh \in liveRefresh
      BY <1>1 DEF PairInv, AnswersFresh, AnswerFresh, IInv, ChainOK
    <3> QED
      BY <1>3, <2>1, <3>1
  <2>2. CASE m # who[c]
    <3>1. HasTokens(local[m]) /\ local'[m] = local[m]
      BY <1>3, <1>7, <2>2
    <3>2. \/ local[m].refresh \in liveRefresh
          \/ \E d \in Chains : who[d] = m /\ answer[d] # Nothing /\ answer[d].refresh \in liveRefresh
      BY <1>7, <3>1 DEF PairInv, PairLostOnlyWithAnswer
    <3> QED
      BY <1>4, <2>2, <3>1, <3>2
  <2> QED
    BY <2>1, <2>2
<1> QED
  BY <1>1, <1>5, <1>6, <1>7 DEF PairInv, AnswersFresh, PairLostOnlyWithAnswer

\* What a grant does to refresh tokens other than the one it was asked with.
LEMMA GrantKeeps ==
    ASSUME IInv, NEW k, Grant(k)
    PROVE  /\ \A n \in liveRefresh : n # k => n \in liveRefresh'
           /\ Rotates => issued + 1 \in liveRefresh'
           /\ ~Rotates => liveRefresh' = liveRefresh
           /\ \A n \in 1..issued : n # issued + 1
           /\ k \in 1..issued /\ issued \in Nat /\ issued' = issued + 1
<1>1. k \in 1..issued /\ issued \in Nat /\ issued' = issued + 1
  BY GrantFacts
<1> QED
  BY <1>1 DEF Grant

\* Without rotation every pair stays usable, whatever is granted.
LEMMA PairKeptWithout ==
    ASSUME IInv', ~Rotates
    PROVE  AnswersFresh' /\ PairLostOnlyWithAnswer'
BY DEF IInv, DatabaseOK, StoredPairUsable, AnswersFresh, PairLostOnlyWithAnswer

\* A chain's attempt is executed: the pair it made out replaces the one that died.
LEMMA RefreshTokenPair ==
    ASSUME IInv, IInv', PairInv, NEW c \in Chains, RefreshToken(c)
    PROVE  PairInv'
<1> DEFINE k == token[c].refresh
           pair == Refreshed(k)
<1>1. /\ UNCHANGED <<stage, who, token, local, late, lost>>
      /\ stage[c] = "refresh" /\ Grant(k) /\ answer[c] = Nothing
      /\ answer' = [answer EXCEPT ![c] = pair]
  BY DEF RefreshToken, databaseVars
<1>2. /\ \A n \in liveRefresh : n # k => n \in liveRefresh'
      /\ Rotates => issued + 1 \in liveRefresh'
      /\ ~Rotates => liveRefresh' = liveRefresh
      /\ \A n \in 1..issued : n # issued + 1
      /\ k \in 1..issued /\ issued \in Nat /\ issued' = issued + 1
  BY <1>1, GrantKeeps
<1>3. /\ answer'[c] = pair /\ (Rotates => pair.refresh = issued + 1)
      /\ \A d \in Chains : d # c => answer'[d] = answer[d]
  BY <1>1 DEF IInv, TypeOK, Refreshed, Pair
<1>4. LateIssued'
  <2>1. LateIssued /\ late \subseteq Tokens
    BY DEF PairInv, IInv, TypeOK
  <2>2. Tokens \subseteq Nat
    BY RecordFacts DEF Tokens
  <2>3. \A n \in late : n \in Nat /\ n <= issued
    BY <2>1, <2>2 DEF LateIssued
  <2> QED
    BY <1>1, <1>2, <2>3 DEF LateIssued
<1>5. CASE ~Rotates
  BY <1>4, <1>5, PairKeptWithout DEF PairInv
<1>6. CASE Rotates
  <2>1. pair # Nothing /\ who[c] \in Members /\ owner[k] = who[c]
    <3>1. ChainOK(c)
      BY DEF IInv
    <3>2. who[c] \in Members /\ owner[k] = who[c]
      BY <1>1, <1>2, <3>1 DEF ChainOK, Own, Mine
    <3>3. k \in Tokens /\ issued + 1 \in Tokens
      BY <1>1, GrantFacts
    <3>4. pair \in Record
      BY <3>3, RecordFacts DEF Refreshed
    <3> QED
      BY <3>2, <3>4, RecordFacts
  <2>2. \A m \in Members : local[m] # Nothing => local[m].refresh # issued + 1
    BY <1>2 DEF IInv, DatabaseOK, Own, Mine
  <2>3. \A d \in Chains : stage[d] \in Holding => token[d].refresh # issued + 1
    BY <1>2 DEF IInv, ChainOK, Own, Mine, Holding
  <2>4. \A d \in Chains : answer[d] # Nothing => answer[d].refresh # issued + 1
    BY <1>2 DEF IInv, ChainOK, Own, Mine
  <2>5. issued + 1 \notin late
    BY <1>2 DEF PairInv, LateIssued
  <2>6. AnswerFresh(c)'
    BY <1>1, <1>2, <1>3, <1>6, <2>2, <2>3, <2>4, <2>5 DEF AnswerFresh
  <2>7. ASSUME NEW d \in Chains, d # c, answer'[d] # Nothing
        PROVE  AnswerFresh(d)'
    <3>1. answer'[d] = answer[d] /\ AnswerFresh(d)
      BY <1>3, <1>6, <2>7 DEF PairInv, AnswersFresh
    <3>2. answer[d].refresh # k /\ answer[d].refresh # issued + 1
      BY <1>1, <2>4, <2>7, <3>1 DEF AnswerFresh, Holding
    <3>3. answer[d].refresh \in liveRefresh'
      BY <1>2, <3>1, <3>2 DEF AnswerFresh
    <3>4. \A e \in Chains : e # d /\ answer'[e] # Nothing => answer'[e].refresh # answer[d].refresh
      BY <1>3, <1>6, <3>1, <3>2 DEF AnswerFresh
    <3> QED
      BY <1>1, <3>1, <3>3, <3>4 DEF AnswerFresh
  <2>8. ASSUME NEW m \in Members, m \notin lost, HasTokens(local[m])
        PROVE  \/ local[m].refresh \in liveRefresh'
               \/ \E d \in Chains :
                     who[d] = m /\ answer'[d] # Nothing /\ answer'[d].refresh \in liveRefresh'
    <3>1. CASE m = who[c]
      BY <1>2, <1>3, <1>6, <2>1, <3>1
    <3>2. CASE m # who[c]
      <4>1. local[m] # Nothing /\ local[m].refresh # k
        BY <1>2, <2>1, <2>8, <3>2 DEF HasTokens, IInv, DatabaseOK, Own, Mine
      <4>2. CASE local[m].refresh \in liveRefresh
        BY <1>2, <4>1, <4>2
      <4>3. CASE \E d \in Chains : who[d] = m /\ answer[d] # Nothing /\ answer[d].refresh \in liveRefresh
        <5>1. PICK d \in Chains : who[d] = m /\ answer[d] # Nothing /\ answer[d].refresh \in liveRefresh
          BY <4>3
        <5>2. d # c /\ answer'[d] = answer[d] /\ AnswerFresh(d)
          BY <1>1, <1>3, <1>6, <5>1 DEF PairInv, AnswersFresh
        <5>3. answer[d].refresh # k
          BY <1>1, <5>2 DEF AnswerFresh, Holding
        <5> QED
          BY <1>2, <5>1, <5>2, <5>3
      <4> QED
        BY <2>8, <4>2, <4>3 DEF PairInv, PairLostOnlyWithAnswer
    <3> QED
      BY <3>1, <3>2
  <2> QED
    BY <1>1, <1>4, <2>6, <2>7, <2>8 DEF PairInv, AnswersFresh, PairLostOnlyWithAnswer
<1> QED
  BY <1>5, <1>6

\* A late execution takes a refresh token that no answer holds, and its owner counts as
\* having lost a pair.
LEMMA RefreshLatePair ==
    ASSUME IInv, IInv', PairInv, NEW k \in Grants, RefreshLate(k)
    PROVE  PairInv'
<1>1. /\ UNCHANGED <<stage, who, token, answer, local>>
      /\ k \in late /\ Grant(k) /\ late' \subseteq late /\ lost' = lost \cup {owner[k]}
  BY DEF RefreshLate, chainVars, databaseVars
<1>2. /\ \A n \in liveRefresh : n # k => n \in liveRefresh'
      /\ k \in 1..issued /\ issued \in Nat /\ issued' = issued + 1
  BY <1>1, GrantKeeps
<1>3. LateIssued'
  <2>1. LateIssued /\ late \subseteq Tokens
    BY DEF PairInv, IInv, TypeOK
  <2>2. Tokens \subseteq Nat
    BY RecordFacts DEF Tokens
  <2>3. \A n \in late : n \in Nat /\ n <= issued
    BY <2>1, <2>2 DEF LateIssued
  <2> QED
    BY <1>1, <1>2, <2>3 DEF LateIssued
<1>4. CASE ~Rotates
  BY <1>3, <1>4, PairKeptWithout DEF PairInv
<1>5. CASE Rotates
  <2>1. ASSUME NEW d \in Chains, answer[d] # Nothing
        PROVE  AnswerFresh(d) /\ answer[d].refresh # k
    BY <1>1, <1>5, <2>1 DEF PairInv, AnswersFresh, AnswerFresh
  <2>2. ASSUME NEW d \in Chains, answer[d] # Nothing
        PROVE  AnswerFresh(d)'
    BY <1>1, <1>2, <2>1, <2>2 DEF AnswerFresh
  <2>3. ASSUME NEW m \in Members, m \notin lost', HasTokens(local[m])
        PROVE  \/ local[m].refresh \in liveRefresh'
               \/ \E d \in Chains :
                     who[d] = m /\ answer[d] # Nothing /\ answer[d].refresh \in liveRefresh'
    <3>1. local[m] # Nothing /\ local[m].refresh # k
      BY <1>1, <1>2, <2>3 DEF HasTokens, IInv, DatabaseOK, Own, Mine
    <3>2. \/ local[m].refresh \in liveRefresh
          \/ \E d \in Chains : who[d] = m /\ answer[d] # Nothing /\ answer[d].refresh \in liveRefresh
      BY <1>1, <2>3 DEF PairInv, PairLostOnlyWithAnswer
    <3> QED
      BY <1>2, <2>1, <3>1, <3>2
  <2> QED
    BY <1>1, <1>3, <2>2, <2>3 DEF PairInv, AnswersFresh, PairLostOnlyWithAnswer
<1> QED
  BY <1>4, <1>5

\* A step of one chain other than an execution and the storing of its pair.
LEMMA ChainPair ==
    ASSUME IInv, PairInv, NEW c \in Chains,
           \/ EcdRedirect(c) \/ OnRecord(c) \/ OnReadSwallowed(c) \/ OnReadFail(c) \/ OnChecked(c)
           \/ OnCheckFailed(c) \/ OnRefreshRetry(c) \/ OnRefreshFailed(c) \/ CheckToken(c)
    PROVE  PairInv'
<1>1. /\ stage \in [Chains -> Stages] /\ who \in [Chains -> Members \cup {Nothing}]
      /\ token \in [Chains -> Record \cup {Nothing}] /\ answer \in [Chains -> Record \cup {Nothing}]
      /\ ChainOK(c)
  BY DEF IInv, TypeOK
<1>2. CASE EcdRedirect(c)
  <2>1. UNCHANGED <<local, issued, owner, liveRefresh, late, lost, token, answer>> /\ answer[c] = Nothing
    BY <1>1, <1>2 DEF EcdRedirect, databaseVars, oauthVars, ChainOK
  <2>2. /\ \A d \in Chains : d # c => stage'[d] = stage[d] /\ who'[d] = who[d]
        /\ stage'[c] = "read"
    BY <1>1, <1>2 DEF EcdRedirect
  <2> QED
    BY <2>1, <2>2, PairKept DEF Holding
<1>3. CASE OnRecord(c)
  <2>1. UNCHANGED <<local, issued, owner, liveRefresh, late, lost, who, answer>>
    BY <1>3 DEF OnRecord, databaseVars, oauthVars
  <2>2. /\ \A d \in Chains : d # c => stage'[d] = stage[d] /\ token'[d] = token[d]
        /\ who[c] \in Members /\ local[who[c]] # Nothing /\ token'[c] = local[who[c]]
    BY <1>1, <1>3 DEF OnRecord, ChainOK
  <2> QED
    BY <2>1, <2>2, PairKept
<1>4. CASE OnCheckFailed(c) \/ CheckToken(c)
  <2>1. UNCHANGED <<local, issued, owner, liveRefresh, late, lost, who, token, answer>>
    BY <1>4 DEF OnCheckFailed, CheckToken, databaseVars, oauthVars
  <2>2. /\ \A d \in Chains : d # c => stage'[d] = stage[d]
        /\ stage[c] \in Holding
    BY <1>1, <1>4 DEF OnCheckFailed, CheckToken, Holding
  <2> QED
    BY <2>1, <2>2, PairKept
<1>5. CASE OnReadSwallowed(c) \/ OnReadFail(c) \/ OnChecked(c)
  <2>1. /\ UNCHANGED <<local, issued, owner, liveRefresh, late, lost>> /\ EndChain(c)
        /\ answer[c] = Nothing
    BY <1>1, <1>5 DEF OnReadSwallowed, OnReadFail, OnChecked, databaseVars, oauthVars, ChainOK
  <2>2. /\ stage'[c] = "idle" /\ answer'[c] = Nothing
        /\ \A d \in Chains : d # c =>
              stage'[d] = stage[d] /\ who'[d] = who[d] /\ token'[d] = token[d] /\ answer'[d] = answer[d]
    BY <1>1, <2>1 DEF EndChain
  <2> QED
    BY <2>1, <2>2, PairKept DEF Holding
<1>6. CASE OnRefreshRetry(c) \/ OnRefreshFailed(c)
  <2>1. UNCHANGED <<local, issued, owner, liveRefresh>> /\ GiveUp({c}) /\ stage[c] = "refresh"
    BY <1>6 DEF OnRefreshRetry, OnRefreshFailed, databaseVars
  <2>2. /\ answer'[c] = Nothing /\ (stage'[c] \in Holding => token'[c] = token[c])
        /\ \A d \in Chains : d # c =>
              stage'[d] = stage[d] /\ who'[d] = who[d] /\ token'[d] = token[d] /\ answer'[d] = answer[d]
    BY <1>1, <1>6 DEF OnRefreshRetry, OnRefreshFailed, EndChain, Holding
  <2>3. lost \subseteq lost' /\ (answer[c] # Nothing => who[c] \in lost')
    BY <2>1 DEF GiveUp
  <2>4. \A k \in late' : k \in late \/ k = token[c].refresh
    BY <2>1 DEF GiveUp
  <2>5. stage[c] \in Holding
    BY <2>1 DEF Holding
  <2> QED
    BY <2>1, <2>2, <2>3, <2>4, <2>5, PairKept
<1> QED
  BY <1>2, <1>3, <1>4, <1>5, <1>6

\* A kill loses every answer that was not stored, and says so.
LEMMA RestartPair == ASSUME IInv, PairInv, Restart PROVE PairInv'
<1>1. /\ UNCHANGED <<local, issued, owner, liveRefresh>> /\ GiveUp(Chains)
      /\ \A d \in Chains : stage'[d] = "idle" /\ answer'[d] = Nothing
  BY DEF Restart, databaseVars
<1>2. /\ lost \subseteq lost'
      /\ \A d \in Chains : answer[d] # Nothing => who[d] \in lost'
  BY <1>1 DEF GiveUp
<1>3. \A k \in late' : k \in late \/ \E d \in Chains : stage[d] \in Holding /\ k = token[d].refresh
  BY <1>1 DEF GiveUp, Holding
<1> QED
  BY <1>1, <1>2, <1>3, PairKept DEF Holding

\* Expiry, a change of member, a write that reaches the server, and stuttering.
LEMMA QuietPair ==
    ASSUME IInv, PairInv,
           \/ \E n \in Grants : Expire(n)
           \/ \E m \in Members : SwitchMember(m)
           \/ Flush
           \/ UNCHANGED vars
    PROVE  PairInv'
<1>1. UNCHANGED <<local, issued, owner, liveRefresh, late, lost, stage, who, token, answer>>
  BY DEF Expire, SwitchMember, Flush, vars, chainVars, databaseVars, oauthVars
<1> QED
  BY <1>1, PairKept

\* With an OAuth server that rotates refresh tokens, overlapping redirects never leave
\* a member with a dead pair: that takes an answer of oauth/token which was lost to a
\* retry, a timeout, a late execution or a kill of the app.
THEOREM PairsLostOnlyWithAnswers == Spec => []PairLostOnlyWithAnswer
<1>1. Init => PairInv
  BY InitPairInv
<1>2. IInv /\ IInv' /\ PairInv /\ [Next]_vars => PairInv'
  <2> SUFFICES ASSUME IInv, IInv', PairInv, [Next]_vars
               PROVE  PairInv'
    OBVIOUS
  <2>1. ASSUME NEW c \in Chains,
               \/ EcdRedirect(c) \/ OnRecord(c) \/ OnCheckFailed(c) \/ OnRefreshRetry(c) \/ CheckToken(c)
               \/ OnReadSwallowed(c) \/ OnReadFail(c) \/ OnChecked(c) \/ OnRefreshFailed(c)
               \/ OnRefreshed(c) \/ RefreshToken(c)
        PROVE  PairInv'
    BY <2>1, ChainPair, OnRefreshedPair, RefreshTokenPair
  <2>2. ASSUME NEW k \in Grants, RefreshLate(k)
        PROVE  PairInv'
    BY <2>2, RefreshLatePair
  <2>3. CASE \/ \E n \in Grants : Expire(n)
             \/ \E m \in Members : SwitchMember(m)
             \/ Flush
             \/ UNCHANGED vars
    BY <2>3, QuietPair
  <2>4. CASE Restart
    BY <2>4, RestartPair
  <2> QED
    BY <2>1, <2>2, <2>3, <2>4 DEF Next
<1>3. PairInv => PairLostOnlyWithAnswer
  BY DEF PairInv
<1> QED
  BY <1>1, <1>2, <1>3, Invariance, PTL DEF Spec

=============================================================================
