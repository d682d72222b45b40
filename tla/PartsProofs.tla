---------------------------- MODULE PartsProofs ----------------------------
(***************************************************************************)
(* The parts that stand by themselves, for every value of their constants: *)
(* the HTTP service, the keys of records and, of LevelDB, the environment, *)
(* the C binding, the repair of a database, the arena and the memtable.    *)
(***************************************************************************)
EXTENDS Http, Parts, SequenceLemmas, FiniteSetTheorems

-----------------------------------------------------------------------------
\* The HTTP service: the retry bound, the bound on executions, and that Http implements
\* HttpCall.

\* A request is counted from its first attempt on, and waited for while on the wire.
Counted(r) ==
    /\ promise[r] = "none" => attempts[r] = 0 /\ retryCount[r] = 0
    /\ promise[r] # "none" => attempts[r] = 1 + retryCount[r]
    /\ wire[r] # "none" => promise[r] = "pending"

\* What the server has executed or may still execute was sent.
Accounted(r) ==
    /\ execs[r] + orphans[r] + (IF Executable(r) THEN 1 ELSE 0) <= attempts[r]
    /\ wire[r] = "2xx" => r \in executed
    /\ r \in executed => execs[r] > 0

\* The interceptor's count never passes the limit.
Limited(r) == retryCount[r] <= RetryLimit

IInv == TypeOK /\ \A r \in Requests : Counted(r) /\ Accounted(r) /\ Limited(r)

\* No configured retryCount is above the limit, which allows at least one retry.
LEMMA LimitIsNat == RetryLimit \in Nat /\ RetryLimit >= 1 /\ \A c \in RetryCounts : c \in Nat /\ c <= RetryLimit
  BY RetryCountsAssumption DEF RetryLimit

\* Before the first request nothing was sent, counted or executed.
LEMMA InitIInv == Init => IInv
  <1> SUFFICES ASSUME Init PROVE IInv
    OBVIOUS
  <1>1. TypeOK
    BY DEF Init, TypeOK, Promises, Statuses
  <1>2. ASSUME NEW r \in Requests PROVE Counted(r) /\ Accounted(r) /\ Limited(r)
    BY LimitIsNat DEF Init, Counted, Accounted, Limited, Executable
  <1>3. QED BY <1>1, <1>2 DEF IInv

\* Abandoning an attempt keeps the account of the request: the attempt, if the
\* server may still execute it, becomes an orphan.
LEMMA AbandonAccounts ==
  ASSUME TypeOK, NEW r \in Requests, Accounted(r), Abandon(r)
  PROVE  /\ executed' \subseteq Requests
         /\ orphans' \in [Requests -> Nat]
         /\ r \notin executed'
         /\ execs[r] + orphans'[r] <= attempts[r]
         /\ \A s \in Requests \ {r} : (s \in executed' <=> s \in executed) /\ orphans'[s] = orphans[s]
  BY DEF TypeOK, Accounted, Abandon, Executable

\* request() sends and counts the first attempt.
LEMMA RequestIInv == ASSUME IInv, NEW r \in Requests, Request(r) PROVE IInv'
  <1> USE DEF IInv
  <1>1. TypeOK'
    BY AbandonAccounts DEF Request, Send, TypeOK, Promises
  <1>2. ASSUME NEW s \in Requests PROVE (Counted(s) /\ Accounted(s) /\ Limited(s))'
    <2>1. Counted(s)'
      BY DEF Request, Send, Abandon, TypeOK, Counted
    <2>2. Accounted(s)'
      BY AbandonAccounts DEF Request, Send, TypeOK, Accounted, Executable
    <2>3. Limited(s)'
      BY LimitIsNat DEF Request, Limited, RetryLimit
    <2>4. QED BY <2>1, <2>2, <2>3
  <1>3. QED BY <1>1, <1>2

\* A retry is counted, sent, and within the limit; the attempt before it is left behind.
LEMMA RetryIInv == ASSUME IInv, NEW r \in Requests, OnErrorRetry(r) PROVE IInv'
  <1> USE DEF IInv
  <1>1. TypeOK'
    BY AbandonAccounts DEF OnErrorRetry, Send, TypeOK
  <1>2. ASSUME NEW s \in Requests PROVE (Counted(s) /\ Accounted(s) /\ Limited(s))'
    <2>1. Counted(s)'
      BY DEF OnErrorRetry, Send, Abandon, TypeOK, Counted
    <2>2. Accounted(s)'
      BY AbandonAccounts DEF OnErrorRetry, Send, TypeOK, Accounted, Executable
    <2>3. Limited(s)'
      BY LimitIsNat DEF OnErrorRetry, MayRetry, Limited, RetryLimit, TypeOK
    <2>4. QED BY <2>1, <2>2, <2>3
  <1>3. QED BY <1>1, <1>2

\* Settling a promise, either way, sends nothing.
LEMMA SettleIInv ==
  ASSUME IInv, NEW r \in Requests, NEW outcome \in {"resolved", "rejected"},
         wire[r] # "none", Settle(r, outcome)
  PROVE  IInv'
  <1> USE DEF IInv
  <1>1. TypeOK'
    BY AbandonAccounts DEF Settle, TypeOK, Promises
  <1>2. ASSUME NEW s \in Requests PROVE (Counted(s) /\ Accounted(s) /\ Limited(s))'
    <2>1. Counted(s)'
      BY DEF Settle, TypeOK, Counted
    <2>2. Accounted(s)'
      BY AbandonAccounts DEF Settle, TypeOK, Accounted, Executable
    <2>3. Limited(s)'
      BY DEF Settle, Limited, RetryLimit
    <2>4. QED BY <2>1, <2>2, <2>3
  <1>3. QED BY <1>1, <1>2

\* The server executes no more than was sent, and setConfig touches no request.
LEMMA EnvironmentIInv ==
  ASSUME IInv, NEW r \in Requests,
         Execute(r) \/ ExecuteOrphan(r) \/ \E status \in Statuses : Answer(r, status)
  PROVE  IInv'
  <1> USE DEF IInv, clientVars
  <1>1. TypeOK'
    BY DEF Execute, ExecuteOrphan, Answer, TypeOK, Statuses
  <1>2. ASSUME NEW s \in Requests PROVE (Counted(s) /\ Accounted(s) /\ Limited(s))'
    <2>1. Counted(s)'
      BY DEF Execute, ExecuteOrphan, Answer, TypeOK, Counted, Executable, Statuses
    <2>2. Accounted(s)'
      <3>1. CASE Execute(r)
        BY <3>1 DEF Execute, TypeOK, Accounted, Executable
      <3>2. CASE ExecuteOrphan(r)
        BY <3>2 DEF ExecuteOrphan, TypeOK, Accounted, Executable
      <3>3. CASE \E status \in Statuses : Answer(r, status)
        BY <3>3 DEF Answer, TypeOK, Accounted, Executable, Statuses
      <3>4. QED BY <3>1, <3>2, <3>3
    <2>3. Limited(s)'
      BY DEF Execute, ExecuteOrphan, Answer, Limited, RetryLimit
    <2>4. QED BY <2>1, <2>2, <2>3
  <1>3. QED BY <1>1, <1>2

\* Every step of the service and of its environment keeps the account.
LEMMA NextIInv == IInv /\ [Next]_vars => IInv'
  <1> SUFFICES ASSUME IInv, [Next]_vars PROVE IInv'
    OBVIOUS
  <1>1. ASSUME NEW r \in Requests, Request(r) PROVE IInv'
    BY <1>1, RequestIInv
  <1>2. ASSUME NEW r \in Requests, OnResponse(r) PROVE IInv'
    BY <1>2, SettleIInv DEF OnResponse
  <1>3. ASSUME NEW r \in Requests, OnErrorRetry(r) PROVE IInv'
    BY <1>3, RetryIInv
  <1>4. ASSUME NEW r \in Requests, OnErrorReject(r) PROVE IInv'
    BY <1>4, SettleIInv DEF OnErrorReject
  <1>5. ASSUME NEW r \in Requests, OnNoResponse(r) PROVE IInv'
    BY <1>5, SettleIInv DEF OnNoResponse
  <1>6. ASSUME NEW r \in Requests,
               Execute(r) \/ ExecuteOrphan(r) \/ \E status \in Statuses : Answer(r, status)
        PROVE  IInv'
    BY <1>6, EnvironmentIInv
  <1>7. ASSUME NEW b \in BOOLEAN, NEW count \in RetryCounts, SetConfig(b, count) PROVE IInv'
    BY <1>7 DEF SetConfig, IInv, TypeOK, Counted, Accounted, Limited, Executable, RetryLimit
  <1>8. CASE UNCHANGED vars
    BY <1>8 DEF vars, IInv, TypeOK, Counted, Accounted, Limited, Executable, RetryLimit
  <1>9. QED
    BY <1>1, <1>2, <1>3, <1>4, <1>5, <1>6, <1>7, <1>8 DEF Next

\* The invariant the bounds rest on.
THEOREM Invariance == Spec => []IInv
  BY InitIInv, NextIInv, PTL DEF Spec

\* Every variable of the HTTP client keeps its type.
THEOREM TypeCorrect == Spec => []TypeOK
  <1>1. IInv => TypeOK
    BY DEF IInv
  <1>2. QED BY <1>1, Invariance, PTL

\* For every configuration, also one changed while requests are pending, the error
\* interceptor sends a request at most 1 + RetryLimit times.
THEOREM RetryBounded == Spec => []RetryBound
  <1>1. ASSUME IInv, NEW r \in Requests PROVE attempts[r] <= 1 + RetryLimit
    <2>1. /\ attempts[r] = 0 \/ attempts[r] = 1 + retryCount[r]
          /\ retryCount[r] \in Nat /\ retryCount[r] <= RetryLimit
      BY <1>1 DEF IInv, TypeOK, Counted, Limited
    <2>2. QED BY <2>1, LimitIsNat
  <1>2. IInv => RetryBound
    BY <1>1 DEF RetryBound
  <1>3. QED BY <1>2, Invariance, PTL

\* The server executes a request more than once only through counted retries.
THEOREM DuplicatesBounded == Spec => []DuplicatesOnlyByRetry
  <1>1. ASSUME IInv, NEW r \in Requests PROVE execs[r] <= 1 + retryCount[r]
    BY <1>1 DEF IInv, TypeOK, Counted, Accounted
  <1>2. IInv => DuplicatesOnlyByRetry
    BY <1>1 DEF DuplicatesOnlyByRetry
  <1>3. QED BY <1>2, Invariance, PTL

\* The retrying client implements HttpCall: it settles a promise once, resolves only
\* what the server executed, and stays within the budget of executions.
THEOREM ImplementsCall == Spec => CallSpec
  <1>1. Init => Call!Init
    BY DEF Init, Call!Init
  <1>2. IInv /\ [Next]_vars => [Call!Next]_(Call!vars)
    <2> SUFFICES ASSUME IInv, [Next]_vars PROVE [Call!Next]_(Call!vars)
      OBVIOUS
    <2> USE DEF Call!vars
    <2>1. ASSUME NEW r \in Requests, Request(r) PROVE Call!Next
      BY <2>1 DEF Request, Call!Next, Call!Request
    <2>2. ASSUME NEW r \in Requests, OnResponse(r) PROVE Call!Next
      <3>1. promise[r] = "pending" /\ execs[r] > 0
        BY <2>2 DEF OnResponse, IInv, Counted, Accounted
      <3>2. QED BY <2>2, <3>1 DEF OnResponse, Settle, Call!Next, Call!Resolve
    <2>3. ASSUME NEW r \in Requests, OnErrorReject(r) \/ OnNoResponse(r) PROVE Call!Next
      <3>1. promise[r] = "pending"
        BY <2>3 DEF OnErrorReject, OnNoResponse, IInv, Counted
      <3>2. QED BY <2>3, <3>1 DEF OnErrorReject, OnNoResponse, Settle, Call!Next, Call!Reject
    <2>4. ASSUME NEW r \in Requests, Execute(r) \/ ExecuteOrphan(r) PROVE Call!Next
      <3>1. execs[r] < attempts[r]
        BY <2>4 DEF Execute, ExecuteOrphan, IInv, TypeOK, Accounted
      <3>2. promise[r] # "none" /\ attempts[r] <= 1 + RetryLimit
        BY <3>1, LimitIsNat DEF IInv, TypeOK, Counted, Limited
      <3>3. execs[r] < 1 + RetryLimit
        BY <3>1, <3>2, LimitIsNat DEF IInv, TypeOK
      <3>4. QED BY <2>4, <3>2, <3>3 DEF Execute, ExecuteOrphan, clientVars, Call!Next, Call!Execute
    <2>5. ASSUME NEW r \in Requests, OnErrorRetry(r) \/ \E status \in Statuses : Answer(r, status)
          PROVE  UNCHANGED Call!vars
      BY <2>5 DEF OnErrorRetry, Answer, clientVars
    <2>6. ASSUME NEW b \in BOOLEAN, NEW count \in RetryCounts, SetConfig(b, count)
          PROVE  UNCHANGED Call!vars
      BY <2>6 DEF SetConfig
    <2>7. CASE UNCHANGED vars
      BY <2>7 DEF vars
    <2>8. QED
      BY <2>1, <2>2, <2>3, <2>4, <2>5, <2>6, <2>7 DEF Next
  <1>3. QED
    BY <1>1, <1>2, Invariance, PTL DEF Spec, CallSpec, Call!Spec

-----------------------------------------------------------------------------
\* What escaping does to every address, of any length.

\* Escaping keeps the length and changes nothing but dots.
LEMMA EscapedShape ==
    ASSUME NEW email \in Seq(Chars)
    PROVE  /\ NM!EmailEscaped(email) \in Seq(Chars \cup {","})
           /\ Len(NM!EmailEscaped(email)) = Len(email)
           /\ \A i \in 1..Len(email) :
                 NM!EmailEscaped(email)[i] = IF email[i] = "." THEN "," ELSE email[i]
<1>1. NM!EmailEscaped(email) \in [1..Len(email) -> Chars \cup {","}]
  <2>1. \A i \in 1..Len(email) : email[i] \in Chars
    BY ElementOfSeq
  <2> QED
    BY <2>1 DEF NM!EmailEscaped
<1>2. Len(email) \in Nat
  BY LenProperties
<1>3. NM!EmailEscaped(email) \in Seq(Chars \cup {","})
  <2>1. NM!EmailEscaped(email) \in UNION {[1..n -> Chars \cup {","}] : n \in Nat}
    BY <1>1, <1>2
  <2>2. Seq(Chars \cup {","}) = UNION {[1..n -> Chars \cup {","}] : n \in Nat}
    BY SeqDef
  <2> QED
    BY <2>1, <2>2, Zenon
<1>4. Len(NM!EmailEscaped(email)) = Len(email)
  <2>1. Len(NM!EmailEscaped(email)) \in Nat /\ 1..Len(NM!EmailEscaped(email)) = 1..Len(email)
    BY <1>1, <1>3, LenProperties
  <2> QED
    BY <1>2, <2>1
<1> QED
  BY <1>3, <1>4 DEF NM!EmailEscaped

\* Two members whose addresses hold no comma never share a record: the key that
\* login$ and ecdRedirect$ compute from the address is injective on such addresses.
THEOREM KeysNeverCollide == \A a, b \in Seq(Chars) : NM!DistinctKeys(a, b)
<1> SUFFICES ASSUME NEW a \in Seq(Chars), NEW b \in Seq(Chars),
                    ~NM!Holds(a, {","}), ~NM!Holds(b, {","}),
                    NM!EmailEscaped(a) = NM!EmailEscaped(b)
             PROVE  a = b
  BY DEF NM!DistinctKeys
<1>1. Len(a) = Len(b)
  BY EscapedShape
<1>2. ASSUME NEW i \in 1..Len(a)
      PROVE  a[i] = b[i]
  <2>1. a[i] # "," /\ b[i] # ","
    BY <1>1 DEF NM!Holds
  <2>2. /\ NM!EmailEscaped(a)[i] = IF a[i] = "." THEN "," ELSE a[i]
        /\ NM!EmailEscaped(b)[i] = IF b[i] = "." THEN "," ELSE b[i]
    BY <1>1, EscapedShape
  <2> QED
    BY <2>1, <2>2
<1> QED
  BY <1>1, <1>2, SeqEqual

\* An address whose only reserved characters are dots becomes a legal key.
THEOREM KeysAreLegal == \A a \in Seq(Chars) : NM!LegalKey(a)
<1> SUFFICES ASSUME NEW a \in Seq(Chars), ~NM!Holds(a, NM!Reserved \ {"."}),
                    NEW i \in 1..Len(NM!EmailEscaped(a))
             PROVE  NM!EmailEscaped(a)[i] \notin NM!Reserved
  BY DEF NM!LegalKey, NM!Holds
<1>1. i \in 1..Len(a) /\ NM!EmailEscaped(a)[i] = IF a[i] = "." THEN "," ELSE a[i]
  BY EscapedShape
<1>2. a[i] \notin NM!Reserved \ {"."}
  BY <1>1 DEF NM!Holds
<1> QED
  BY <1>1, <1>2 DEF NM!Reserved

\* Whatever two addresses are typed, of any length: the keys of two members never
\* collide, and a key is one the database takes (emailEscaped of the sagas).
THEOREM KeysStayDistinct == NM!Spec => []KeysDistinct
<1> DEFINE Typed == first \in Seq(Chars) /\ second \in Seq(Chars)
<1>1. NM!Init => Typed
  BY DEF NM!Init
<1>2. Typed /\ [NM!Next]_(NM!vars) => Typed'
  <2> SUFFICES ASSUME Typed, [NM!Next]_(NM!vars) PROVE Typed'
    OBVIOUS
  <2>1. \A ch \in Chars : Append(first, ch) \in Seq(Chars) /\ Append(second, ch) \in Seq(Chars)
    BY AppendProperties
  <2> QED
    BY <2>1 DEF NM!Next, NM!vars, NM!TypeFirst, NM!TypeSecond
<1>3. Typed => KeysDistinct
  BY KeysNeverCollide, KeysAreLegal DEF KeysDistinct, NM!KeysDistinct, NM!KeyLegal
<1> QED
  BY <1>1, <1>2, <1>3, PTL DEF NM!Spec

-----------------------------------------------------------------------------
\* The write side of the environment.

Steps == {"idle", "append", "sync", "close", "closed", "done", "read", "known"}

FileTypes ==
    /\ there \subseteq EW!Names /\ linked \subseteq EW!Names /\ opened \subseteq EW!Names /\ listed \subseteq EW!Names
    /\ appended \in [EW!Names -> Nat] /\ cached \in [EW!Names -> Nat]
    /\ stored \in [EW!Names -> Nat] /\ promised \in [EW!Names -> Nat]

\* What reached the disk went through the kernel, and what reached the kernel through
\* stdio; what was promised is on the disk.
ChunksOrdered ==
    \A f \in EW!Names : promised[f] <= stored[f] /\ stored[f] <= cached[f] /\ cached[f] <= appended[f]

NamesKept == listed \subseteq there \cap linked /\ opened \subseteq there

\* What each step of the string's file leaves behind.
JobInv ==
    /\ job.step = "append" => "temp" \in opened /\ job.ok /\ appended["temp"] = 0
    /\ job.step = "sync" => "temp" \in opened /\ job.ok /\ appended["temp"] = 1
    /\ job.step = "close" =>
          "temp" \in opened /\ (job.ok => appended["temp"] = 1 /\ (job.sync => stored["temp"] = 1))
    /\ job.step \in {"closed", "done"} /\ job.ok =>
          "temp" \in there /\ cached["temp"] = 1 /\ (job.sync => stored["temp"] = 1)
    /\ job.step = "done" /\ ~job.ok => "temp" \notin there
    /\ job.step = "known" /\ job.ok => job.got = cached["temp"]

FilesInv == FileTypes /\ ChunksOrdered /\ NamesKept
JobType == job \in [step : Steps, sync : BOOLEAN, ok : BOOLEAN, got : Nat]
WriterInv == FilesInv /\ JobType /\ JobInv

\* What one operation on file f does to files: what others see of it.
Elsewhere(f) ==
    \A g \in EW!Names \ {f} :
        /\ appended'[g] = appended[g] /\ cached'[g] = cached[g] /\ stored'[g] = stored[g] /\ promised'[g] = promised[g]
        /\ g \in opened' <=> g \in opened
        /\ g \in there' <=> g \in there

FileStep(f) ==
    \/ EW!Create(f) \/ EW!Reopen(f) \/ EW!Append(f) \/ EW!Flush(f) \/ EW!Sync(f) \/ EW!SyncFails(f) \/ EW!Delete(f)
    \/ \E ok \in BOOLEAN : EW!Close(f, ok)

\* Every operation of a file, whether it succeeds or fails, keeps the order of chunks
\* and the names that were listed, and leaves the other files alone.
LEMMA FileStepKeeps ==
    ASSUME FilesInv, NEW f \in EW!Names, FileStep(f)
    PROVE  FilesInv' /\ Elsewhere(f)
<1> USE DEF FilesInv, FileTypes, ChunksOrdered, NamesKept, Elsewhere
<1>1. CASE EW!Create(f)
  BY <1>1 DEF EW!Create
<1>2. CASE EW!Reopen(f)
  BY <1>2 DEF EW!Reopen, EW!contentVars
<1>3. CASE EW!Append(f)
  <2>1. PICK n \in {cached[f], appended[f] + 1} : cached' = [cached EXCEPT ![f] = n]
    BY <1>3 DEF EW!Append
  <2>2. n \in Nat
    BY <2>1
  <2> QED
    BY <1>3, <2>1, <2>2 DEF EW!Append
<1>4. CASE EW!Flush(f)
  BY <1>4 DEF EW!Flush
<1>5. CASE EW!Sync(f)
  BY <1>5 DEF EW!Sync
<1>6. CASE EW!SyncFails(f)
  BY <1>6 DEF EW!SyncFails
<1>7. CASE EW!Delete(f)
  BY <1>7 DEF EW!Delete, EW!contentVars
<1>8. ASSUME NEW ok \in BOOLEAN, EW!Close(f, ok) PROVE FilesInv' /\ Elsewhere(f)
  BY <1>8 DEF EW!Close
<1> QED
  BY <1>1, <1>2, <1>3, <1>4, <1>5, <1>6, <1>7, <1>8 DEF FileStep

\* A step of another file leaves the string's job as it is.
LEMMA FilesKeepWriter == ASSUME WriterInv, EW!Files PROVE WriterInv'
<1>1. PICK f \in {"table", "MANIFEST"} : FileStep(f)
  BY DEF EW!Files, FileStep
<1>2. f \in EW!Names /\ "temp" \in EW!Names \ {f} /\ job' = job
  BY DEF EW!Files, EW!Names
<1>3. FilesInv' /\ Elsewhere(f)
  BY <1>1, <1>2, FileStepKeeps DEF WriterInv
<1> QED
  BY <1>2, <1>3 DEF WriterInv, JobType, JobInv, Elsewhere

\* Each step of WriteStringToFile and ReadFileToString.
LEMMA StringKeepsWriter == ASSUME WriterInv, EW!String PROVE WriterInv'
<1> DEFINE Same == UNCHANGED <<there, linked, opened, listed, appended, cached, stored, promised>>
<1>0. "temp" \in EW!Names /\ FilesInv /\ JobType /\ JobInv
  BY DEF EW!Names, WriterInv
<1>1. Same => FilesInv'
  BY <1>0 DEF FilesInv, FileTypes, ChunksOrdered, NamesKept
<1>2. FileStep("temp") => FilesInv'
  BY <1>0, FileStepKeeps
<1> USE DEF JobType, JobInv, Steps, EW!Goes, EW!contentVars
<1>3. ASSUME NEW sync \in BOOLEAN, EW!WriteString(sync) PROVE WriterInv'
  <2>1. EW!Create("temp") /\ FilesInv'
    BY <1>2, <1>3 DEF EW!WriteString, FileStep
  <2>2. "temp" \in opened' /\ appended'["temp"] = 0
    BY <1>0, <2>1 DEF EW!Create, FilesInv, FileTypes
  <2>3. job' = [step |-> "append", sync |-> sync, ok |-> TRUE, got |-> 0]
    BY <1>3 DEF EW!WriteString, EW!Idle
  <2>4. JobType'
    BY <2>3
  <2> QED
    BY <2>1, <2>2, <2>3, <2>4 DEF WriterInv
<1>4. CASE EW!AppendString
  <2>1. CASE EW!Append("temp") /\ EW!Goes("append", IF job.sync THEN "sync" ELSE "close", TRUE)
    <3>1. FilesInv'
      BY <1>2, <2>1 DEF FileStep
    <3>2. "temp" \in opened' /\ appended'["temp"] = 1
      BY <1>0, <2>1 DEF EW!Append, FilesInv, FileTypes
    <3> QED
      BY <1>0, <2>1, <3>1, <3>2 DEF WriterInv
  <2>2. CASE EW!Goes("append", "close", FALSE) /\ Same
    BY <1>0, <1>1, <2>2 DEF WriterInv
  <2> QED
    BY <1>4, <2>1, <2>2 DEF EW!AppendString
<1>5. CASE EW!SyncString
  <2>1. CASE EW!Sync("temp") /\ EW!Goes("sync", "close", TRUE)
    <3>1. FilesInv'
      BY <1>2, <2>1 DEF FileStep
    <3> QED
      BY <1>0, <2>1, <3>1 DEF EW!Sync, WriterInv, FilesInv, FileTypes
  <2>2. CASE EW!SyncFails("temp") /\ EW!Goes("sync", "close", FALSE)
    <3>1. FilesInv'
      BY <1>2, <2>2 DEF FileStep
    <3> QED
      BY <1>0, <2>2, <3>1 DEF EW!SyncFails, WriterInv, FilesInv, FileTypes
  <2> QED
    BY <1>5, <2>1, <2>2 DEF EW!SyncString
<1>6. CASE EW!CloseString
  <2>1. PICK ok \in BOOLEAN : EW!Close("temp", ok) /\ EW!Goes("close", "closed", job.ok /\ ok)
    BY <1>6 DEF EW!CloseString
  <2>2. FilesInv'
    BY <1>2, <2>1 DEF FileStep
  <2>3. job' = [job EXCEPT !.step = "closed", !.ok = job.ok /\ ok] /\ job.step = "close"
    BY <2>1
  <2>4. JobType'
    BY <1>0, <2>3
  <2>5. job'.step = "closed" /\ job'.ok = (job.ok /\ ok) /\ job'.sync = job.sync
    BY <1>0, <2>3
  <2>6. ASSUME job.ok, ok PROVE "temp" \in there' /\ cached'["temp"] = 1 /\ (job.sync => stored'["temp"] = 1)
    BY <1>0, <2>1, <2>3, <2>6 DEF EW!Close, FilesInv, FileTypes, NamesKept
  <2> QED
    BY <2>2, <2>4, <2>5, <2>6 DEF WriterInv
<1>7. CASE EW!ReturnString
  <2>1. CASE job.ok /\ EW!Goes("closed", "done", TRUE) /\ Same
    BY <1>0, <1>1, <2>1 DEF WriterInv
  <2>2. CASE ~job.ok /\ EW!Delete("temp") /\ EW!Goes("closed", "done", FALSE)
    <3>1. FilesInv'
      BY <1>2, <2>2 DEF FileStep
    <3> QED
      BY <1>0, <2>2, <3>1 DEF EW!Delete, WriterInv, FilesInv, FileTypes
  <2> QED
    BY <1>7, <2>1, <2>2 DEF EW!ReturnString
<1>8. CASE EW!ReadFileToString
  BY <1>0, <1>1, <1>8 DEF EW!ReadFileToString, EW!NewSequentialFile, EW!Idle, WriterInv
<1>9. CASE EW!SequentialRead
  <2>1. Same /\ job.step = "read"
    BY <1>9 DEF EW!SequentialRead
  <2>2. \/ job' = [job EXCEPT !.got = @ + 1]
        \/ job.got = cached["temp"] /\ job' = [job EXCEPT !.step = "known"]
        \/ job' = [job EXCEPT !.step = "known", !.ok = FALSE]
    BY <1>9 DEF EW!SequentialRead
  <2>3. JobType' /\ job'.step \in {"read", "known"}
    <3>1. job.got + 1 \in Nat
      BY <1>0
    <3>2. CASE job' = [job EXCEPT !.got = @ + 1]
      BY <1>0, <2>1, <3>1, <3>2
    <3>3. CASE job' = [job EXCEPT !.step = "known"]
      BY <1>0, <3>3
    <3>4. CASE job' = [job EXCEPT !.step = "known", !.ok = FALSE]
      BY <1>0, <3>4
    <3> QED
      BY <2>2, <3>2, <3>3, <3>4
  <2>4. job'.step = "known" /\ job'.ok => job'.got = cached["temp"]
    BY <1>0, <2>1, <2>2
  <2> QED
    BY <1>1, <2>1, <2>3, <2>4 DEF WriterInv
<1>10. CASE EW!NextString
  BY <1>0, <1>1, <1>10 DEF EW!NextString, EW!Idle, WriterInv
<1> QED
  BY <1>3, <1>4, <1>5, <1>6, <1>7, <1>8, <1>9, <1>10 DEF EW!String

\* What is on the disk after a stop of the machine was there or in the kernel.
LEMMA CrashKeepsWriter == ASSUME WriterInv, EW!Crash PROVE WriterInv'
<1>1. /\ job' = EW!Idle /\ opened' = {} /\ listed' = listed /\ promised' = promised
      /\ stored' \in [EW!Names -> 0..MaxLength]
      /\ \A f \in EW!Names : stored[f] <= stored'[f] /\ stored'[f] <= cached[f]
      /\ cached' = stored' /\ appended' = stored'
  BY DEF EW!Crash
<1>2. /\ there' = linked' /\ there' \subseteq there \cup linked /\ there \cap linked \subseteq there'
  BY DEF EW!Crash
<1>3. stored' \in [EW!Names -> Nat]
  BY <1>1, PartsAssumption
<1>4. FilesInv'
  BY <1>1, <1>2, <1>3 DEF WriterInv, FilesInv, FileTypes, ChunksOrdered, NamesKept
<1>5. JobType' /\ JobInv'
  BY <1>1 DEF EW!Idle, JobType, JobInv, Steps
<1> QED
  BY <1>4, <1>5 DEF WriterInv

\* However files are written, synced, closed and deleted, whichever call fails and
\* whenever the machine stops: what a Sync promised is there, and a string is written as
\* a whole or not at all (env_posix.cc, env.cc).
THEOREM PromisesAreDurable == EW!Spec => []SyncIsDurable
<1>1. EW!Init => WriterInv
  BY DEF EW!Init, EW!Idle, WriterInv, FilesInv, FileTypes, ChunksOrdered, NamesKept, JobType, JobInv, Steps
<1>2. WriterInv /\ [EW!Next]_(EW!vars) => WriterInv'
  <2> SUFFICES ASSUME WriterInv, [EW!Next]_(EW!vars) PROVE WriterInv'
    OBVIOUS
  <2>1. CASE UNCHANGED EW!vars
    BY <2>1 DEF EW!vars, WriterInv, FilesInv, FileTypes, ChunksOrdered, NamesKept, JobType, JobInv
  <2> QED
    BY <2>1, FilesKeepWriter, StringKeepsWriter, CrashKeepsWriter DEF EW!Next
<1>3. WriterInv => SyncIsDurable
  <2> SUFFICES ASSUME WriterInv PROVE SyncIsDurable
    OBVIOUS
  <2>1. "temp" \in EW!Names
    BY DEF EW!Names
  <2>2. EW!SyncIsDurable
    BY DEF EW!SyncIsDurable, WriterInv, FilesInv, FileTypes, ChunksOrdered, NamesKept
  <2>3. EW!StringAllOrNothing
    BY <2>1 DEF EW!StringAllOrNothing, WriterInv, FilesInv, FileTypes, ChunksOrdered, JobType, JobInv
  <2> QED
    BY <2>2, <2>3 DEF SyncIsDurable
<1> QED
  BY <1>1, <1>2, <1>3, PTL DEF EW!Spec

-----------------------------------------------------------------------------
\* The environment between threads: the queue of the background thread.

\* Items are numbered in the order of Schedule; the queue goes on where ran ends.
QueueInv ==
    /\ ran \in Seq(Nat) /\ queue \in Seq(Nat) /\ scheduled \in Nat /\ started \in BOOLEAN
    /\ Len(ran) + Len(queue) = scheduled
    /\ \A i \in 1..Len(ran) : ran[i] = i
    /\ \A i \in 1..Len(queue) : queue[i] = Len(ran) + i
    /\ bg \in {"none", "lock", "wait", "run"} /\ (started <=> bg # "none")
    /\ Len(queue) # 0 => bg \in {"lock", "run"}

\* Every step of Schedule and of BGThread keeps the numbers in order.
LEMMA QueueStepKeeps == ASSUME QueueInv, ET!NextQueue PROVE QueueInv'
<1>1. /\ Len(ran) \in Nat /\ Len(queue) \in Nat
      /\ queue = <<>> <=> Len(queue) = 0
  BY LenProperties, EmptySeq DEF QueueInv
<1>2. CASE ET!Schedule
  <2>1. scheduled' = scheduled + 1 /\ queue' = Append(queue, scheduled + 1) /\ ran' = ran
    BY <1>2 DEF ET!Schedule
  <2>2. /\ queue' \in Seq(Nat) /\ Len(queue') = Len(queue) + 1
        /\ queue'[Len(queue) + 1] = scheduled + 1
        /\ \A i \in 1..Len(queue) : queue'[i] = queue[i]
    <3>1. scheduled + 1 \in Nat
      BY DEF QueueInv
    <3> QED
      BY <2>1, <3>1, AppendProperties DEF QueueInv
  <2>3. \A i \in 1..Len(queue') : queue'[i] = Len(ran) + i
    <3> SUFFICES ASSUME NEW i \in 1..(Len(queue) + 1) PROVE queue'[i] = Len(ran) + i
      BY <2>2
    <3>1. CASE i \in 1..Len(queue)
      BY <2>2, <3>1 DEF QueueInv
    <3>2. CASE i = Len(queue) + 1
      <4>0. Len(ran) + Len(queue) = scheduled
        BY DEF QueueInv
      <4>1. scheduled + 1 = Len(ran) + i
        BY <1>1, <3>2, <4>0
      <4> QED
        BY <2>2, <3>2, <4>1
    <3> QED
      BY <1>1, <3>1, <3>2
  <2>4. started' = TRUE /\ bg' \in {"lock", "run"}
    BY <1>1, <1>2 DEF ET!Schedule, QueueInv
  <2> QED
    BY <1>1, <2>1, <2>2, <2>3, <2>4 DEF QueueInv
<1>3. CASE ET!Take
  <2>1. CASE Len(queue) = 0
    <3>1. bg' = "wait" /\ ran' = ran /\ queue' = queue /\ started' = started /\ scheduled' = scheduled /\ bg = "lock"
      BY <1>1, <1>3, <2>1 DEF ET!Take
    <3> QED
      BY <2>1, <3>1 DEF QueueInv
  <2>2. CASE Len(queue) # 0
    <3>1. /\ bg' = "run" /\ ran' = Append(ran, Head(queue)) /\ queue' = Tail(queue)
          /\ started' = started /\ scheduled' = scheduled /\ bg = "lock"
      BY <1>1, <1>3, <2>2 DEF ET!Take
    <3>2. /\ Head(queue) = queue[1] /\ queue' \in Seq(Nat) /\ Len(queue') = Len(queue) - 1
          /\ \A i \in 1..(Len(queue) - 1) : queue'[i] = queue[i + 1]
      BY <1>1, <2>2, <3>1, HeadTailProperties DEF QueueInv
    <3>3. queue[1] = Len(ran) + 1 /\ queue[1] \in Nat
      BY <1>1, <2>2 DEF QueueInv
    <3>4. /\ ran' \in Seq(Nat) /\ Len(ran') = Len(ran) + 1 /\ ran'[Len(ran) + 1] = Len(ran) + 1
          /\ \A i \in 1..Len(ran) : ran'[i] = ran[i]
      BY <3>1, <3>2, <3>3, AppendProperties DEF QueueInv
    <3>5. \A i \in 1..Len(ran') : ran'[i] = i
      <4> SUFFICES ASSUME NEW i \in 1..(Len(ran) + 1) PROVE ran'[i] = i
        BY <3>4
      <4>1. CASE i \in 1..Len(ran)
        BY <3>4, <4>1 DEF QueueInv
      <4> QED
        BY <1>1, <3>4, <4>1
    <3>6. \A i \in 1..Len(queue') : queue'[i] = Len(ran') + i
      BY <1>1, <3>2, <3>4, SMTT(30) DEF QueueInv
    <3>7. Len(ran') + Len(queue') = scheduled'
      BY <1>1, <3>1, <3>2, <3>4 DEF QueueInv
    <3> QED
      BY <3>1, <3>2, <3>4, <3>5, <3>6, <3>7 DEF QueueInv
  <2> QED
    BY <2>1, <2>2
<1>4. CASE ET!Spurious \/ ET!Run
  BY <1>4 DEF ET!Spurious, ET!Run, QueueInv
<1> QED
  BY <1>2, <1>3, <1>4 DEF ET!NextQueue

\* What ran and what is queued are all items, in their order.
LEMMA QueueInOrder == ASSUME QueueInv PROVE ET!ScheduledRuns
<1>1. /\ ran \o queue \in Seq(Nat) /\ Len(ran \o queue) = Len(ran) + Len(queue)
      /\ \A i \in 1..(Len(ran) + Len(queue)) : (ran \o queue)[i] = IF i <= Len(ran) THEN ran[i] ELSE queue[i - Len(ran)]
  BY ConcatProperties DEF QueueInv
<1>2. Len(ran) \in Nat /\ Len(queue) \in Nat /\ (queue = <<>> <=> Len(queue) = 0)
  BY LenProperties, EmptySeq DEF QueueInv
<1>3. \A i \in 1..scheduled : (ran \o queue)[i] = i
  BY <1>1, <1>2 DEF QueueInv
<1>4. ran \o queue = [i \in 1..scheduled |-> i]
  <2>1. ran \o queue = [i \in 1..Len(ran \o queue) |-> (ran \o queue)[i]]
    BY <1>1, LenProperties
  <2> QED
    BY <1>1, <1>3, <2>1 DEF QueueInv
<1> QED
  BY <1>2, <1>4 DEF ET!ScheduledRuns, QueueInv

-----------------------------------------------------------------------------
\* The environment between processes: the lock of a database.

\* One thread of a process has the entry of its table, and the kernel has the lock of a
\* holder whose process closed no other descriptor.
LockType ==
    /\ locker \in [Processes \X Openers -> {"idle", "insert", "fcntl", "held", "remove", "close"}]
    /\ lockedFiles \subseteq Processes /\ kernel \subseteq Processes /\ shaken \subseteq Processes
Owns(p, o) == locker[<<p, o>>] \in {"fcntl", "held", "remove"}
LockInv ==
    /\ LockType
    /\ \A p \in Processes, o \in Openers : Owns(p, o) => p \in lockedFiles
    /\ \A p \in Processes, o, u \in Openers : Owns(p, o) /\ Owns(p, u) => o = u
    /\ \A p \in Processes, o \in Openers : locker[<<p, o>>] = "held" => kernel = {p} \/ p \in shaken

\* A step of one opener leaves the others where they are.
LEMMA OneOpener ==
    ASSUME LockType, NEW p \in Processes, NEW o \in Openers, NEW from,
           NEW to \in {"idle", "insert", "fcntl", "held", "remove", "close"}, ET!Step(p, o, from, to)
    PROVE  /\ locker' \in [Processes \X Openers -> {"idle", "insert", "fcntl", "held", "remove", "close"}]
           /\ locker[<<p, o>>] = from /\ locker'[<<p, o>>] = to
           /\ \A q \in Processes, u \in Openers : q # p \/ u # o => locker'[<<q, u>>] = locker[<<q, u>>]
BY DEF LockType, ET!Step

\* What a close() of process p may change.
LEMMA CloseTouches ==
    ASSUME LockType, NEW p \in Processes, ET!CloseFd(p)
    PROVE  /\ kernel' = kernel \ {p} /\ shaken' \subseteq Processes /\ shaken \subseteq shaken'
           /\ \A u \in Openers : locker[<<p, u>>] = "held" => p \in shaken'
BY DEF LockType, ET!CloseFd, ET!Holders

\* Every step of LockFile and UnlockFile keeps the table and the kernel's lock in step.
LEMMA LockStepKeeps ==
    ASSUME LockInv, NEW p \in Processes, NEW o \in Openers,
           \/ ET!OpenFd(p, o) \/ ET!Insert(p, o) \/ ET!Fcntl(p, o) \/ ET!Unlock(p, o) \/ ET!Remove(p, o) \/ ET!Closed(p, o)
    PROVE  LockInv'
<1> DEFINE PCs == {"idle", "insert", "fcntl", "held", "remove", "close"}
           Moved(from, to) ==
               /\ locker' \in [Processes \X Openers -> PCs]
               /\ locker[<<p, o>>] = from /\ locker'[<<p, o>>] = to
               /\ \A q \in Processes, u \in Openers : q # p \/ u # o => locker'[<<q, u>>] = locker[<<q, u>>]
<1>0. LockType
  BY DEF LockInv
<1>1. ASSUME NEW from, NEW to \in PCs, ET!Step(p, o, from, to) PROVE Moved(from, to)
  BY <1>0, <1>1, OneOpener, SMTT(30)
<1>2. CASE ET!OpenFd(p, o)
  <2>1. Moved("idle", "insert") /\ UNCHANGED <<lockedFiles, kernel, shaken>>
    BY <1>1, <1>2 DEF ET!OpenFd
  <2> QED
    BY <2>1 DEF LockInv, LockType, Owns
<1>3. CASE ET!Insert(p, o) /\ p \in lockedFiles
  <2>1. Moved("insert", "idle") /\ ET!CloseFd(p) /\ lockedFiles' = lockedFiles
    BY <1>1, <1>3 DEF ET!Insert
  <2>2. /\ kernel' = kernel \ {p} /\ shaken' \subseteq Processes /\ shaken \subseteq shaken'
        /\ \A u \in Openers : locker[<<p, u>>] = "held" => p \in shaken'
    BY <1>0, <2>1, CloseTouches
  <2> QED
    BY <2>1, <2>2 DEF LockInv, LockType, Owns
<1>4. CASE ET!Insert(p, o) /\ p \notin lockedFiles
  <2>1. Moved("insert", "fcntl") /\ lockedFiles' = lockedFiles \cup {p} /\ UNCHANGED <<kernel, shaken>>
    BY <1>1, <1>4 DEF ET!Insert
  <2> QED
    BY <1>4, <2>1 DEF LockInv, LockType, Owns
<1>5. CASE ET!Fcntl(p, o) /\ kernel \subseteq {p}
  <2>1. Moved("fcntl", "held") /\ kernel' = {p} /\ UNCHANGED <<lockedFiles, shaken>>
    BY <1>1, <1>5 DEF ET!Fcntl
  <2>2. \A q \in Processes, u \in Openers : locker'[<<q, u>>] = "held" => kernel' = {q} \/ q \in shaken'
    BY <1>5, <2>1 DEF LockInv
  <2>3. LockType' /\ \A q \in Processes, u \in Openers : Owns(q, u)' <=> Owns(q, u)
    BY <2>1 DEF LockInv, LockType, Owns
  <2> QED
    BY <2>1, <2>2, <2>3 DEF LockInv
<1>6. CASE ET!Fcntl(p, o) /\ ~(kernel \subseteq {p})
  <2>1. Moved("fcntl", "idle") /\ ET!CloseFd(p) /\ lockedFiles' = lockedFiles \ {p}
    BY <1>1, <1>6 DEF ET!Fcntl
  <2>2. /\ kernel' = kernel \ {p} /\ shaken' \subseteq Processes /\ shaken \subseteq shaken'
        /\ \A u \in Openers : locker[<<p, u>>] = "held" => p \in shaken'
    BY <1>0, <2>1, CloseTouches
  <2> QED
    BY <2>1, <2>2 DEF LockInv, LockType, Owns
<1>7. CASE ET!Unlock(p, o)
  <2>1. Moved("held", "remove") /\ kernel' = kernel \ {p} /\ UNCHANGED <<lockedFiles, shaken>>
    BY <1>1, <1>7 DEF ET!Unlock
  <2>2. LockType' /\ \A q \in Processes, u \in Openers : Owns(q, u)' <=> Owns(q, u)
    BY <2>1 DEF LockInv, LockType, Owns
  <2>3. \A q \in Processes, u \in Openers : locker'[<<q, u>>] = "held" => kernel' = {q} \/ q \in shaken'
    BY <2>1 DEF LockInv, Owns
  <2> QED
    BY <2>1, <2>2, <2>3 DEF LockInv
<1>8. CASE ET!Remove(p, o)
  <2>1. Moved("remove", "close") /\ lockedFiles' = lockedFiles \ {p} /\ UNCHANGED <<kernel, shaken>>
    BY <1>1, <1>8 DEF ET!Remove
  <2> QED
    BY <2>1 DEF LockInv, LockType, Owns
<1>9. CASE ET!Closed(p, o)
  <2>1. Moved("close", "idle") /\ ET!CloseFd(p) /\ lockedFiles' = lockedFiles
    BY <1>1, <1>9 DEF ET!Closed
  <2>2. /\ kernel' = kernel \ {p} /\ shaken' \subseteq Processes /\ shaken \subseteq shaken'
        /\ \A u \in Openers : locker[<<p, u>>] = "held" => p \in shaken'
    BY <1>0, <2>1, CloseTouches
  <2> QED
    BY <2>1, <2>2 DEF LockInv, LockType, Owns
<1> QED
  BY <1>2, <1>3, <1>4, <1>5, <1>6, <1>7, <1>8, <1>9

\* A process that exits holds nothing any more.
LEMMA ExitKeepsLock == ASSUME LockInv, NEW p \in Processes, ET!Exit(p) PROVE LockInv'
<1>1. /\ locker' = [x \in Processes \X Openers |-> IF x[1] = p THEN "idle" ELSE locker[x]]
      /\ lockedFiles' = lockedFiles \ {p} /\ kernel' = kernel \ {p} /\ shaken' = shaken \ {p}
  BY DEF ET!Exit
<1>2. \A q \in Processes, u \in Openers : locker'[<<q, u>>] = IF q = p THEN "idle" ELSE locker[<<q, u>>]
  BY <1>1
<1>3. LockType'
  BY <1>1 DEF LockInv, LockType
<1> QED
  BY <1>1, <1>2, <1>3 DEF LockInv, Owns

\* The cardinality the instance speaks of.
LEMMA SameCardinality == \A S : ET!Cardinality(S) = Cardinality(S)
BY DEF ET!Cardinality, Cardinality

\* The holders of a database.
LEMMA HoldersExclude == ASSUME LockInv PROVE ET!LockExcludes
<1>1. ASSUME NEW p \in Processes PROVE Cardinality(ET!Holders(p)) <= 1
  <2>1. CASE ET!Holders(p) = {}
    BY <2>1, FS_EmptySet
  <2>2. ASSUME NEW o \in Openers, locker[<<p, o>>] = "held" PROVE Cardinality(ET!Holders(p)) <= 1
    <3>1. ET!Holders(p) = {o}
      BY <2>2 DEF LockInv, Owns, ET!Holders
    <3> QED
      BY <3>1, FS_Singleton
  <2> QED
    BY <2>1, <2>2 DEF ET!Holders
<1>2. ASSUME NEW p \in Processes, NEW q \in Processes, p # q, ET!Holders(p) # {}, ET!Holders(q) # {}
      PROVE  {p, q} \cap shaken # {}
  BY <1>2 DEF LockInv, ET!Holders
<1>3. \A p \in Processes : Cardinality(ET!Holders(p)) <= 1
  BY <1>1
<1>4. \A p, q \in Processes : p # q /\ ET!Holders(p) # {} /\ ET!Holders(q) # {} => {p, q} \cap shaken # {}
  BY <1>2
<1> QED
  BY <1>3, <1>4, SameCardinality DEF ET!LockExcludes

\* For any number of items, processes and openers: scheduled work runs once and in order,
\* and a database is held by one opener of one process as far as the kernel's lock holds
\* (env_posix.cc).
THEOREM WorkRunsAndLockExcludes == ET!Spec => [](ET!ScheduledRuns /\ ET!LockExcludes)
<1>1. ET!Init => QueueInv /\ LockInv
  <2> SUFFICES ASSUME ET!Init PROVE QueueInv /\ LockInv
    OBVIOUS
  <2>1. <<>> \in Seq(Nat) /\ Len(<<>>) = 0
    BY EmptySeq
  <2>2. ran = <<>> /\ queue = <<>> /\ scheduled = 0 /\ started = FALSE /\ bg = "none"
    BY DEF ET!Init
  <2>3. QueueInv
    <3>1. /\ ran \in Seq(Nat) /\ queue \in Seq(Nat) /\ scheduled \in Nat /\ started \in BOOLEAN
          /\ Len(ran) = 0 /\ Len(queue) = 0
      BY <2>1, <2>2
    <3>2. bg \in {"none", "lock", "wait", "run"} /\ (started <=> bg # "none")
      BY <2>2
    <3>3. \A i \in 1..0 : FALSE
      OBVIOUS
    <3> QED
      BY <2>2, <3>1, <3>2, <3>3 DEF QueueInv
  <2>4. LockInv
    BY DEF ET!Init, LockInv, LockType, Owns
  <2> QED
    BY <2>3, <2>4
<1>2. QueueInv /\ LockInv /\ [ET!Next]_(ET!vars) => QueueInv' /\ LockInv'
  <2> SUFFICES ASSUME QueueInv, LockInv, [ET!Next]_(ET!vars) PROVE QueueInv' /\ LockInv'
    OBVIOUS
  <2>1. UNCHANGED ET!queueVars => QueueInv'
    BY DEF ET!queueVars, QueueInv
  <2>2. UNCHANGED ET!lockVars => LockInv'
    BY DEF ET!lockVars, LockInv, LockType, Owns
  <2>3. CASE ET!NextQueue
    <3>1. UNCHANGED ET!lockVars
      BY <2>3 DEF ET!NextQueue, ET!Schedule, ET!Take, ET!Spurious, ET!Run
    <3> QED
      BY <2>2, <2>3, <3>1, QueueStepKeeps
  <2>4. ASSUME NEW p \in Processes, NEW o \in Openers,
               ET!OpenFd(p, o) \/ ET!Insert(p, o) \/ ET!Fcntl(p, o) \/ ET!Unlock(p, o) \/ ET!Remove(p, o) \/ ET!Closed(p, o)
        PROVE  QueueInv' /\ LockInv'
    <3>1. UNCHANGED ET!queueVars
      BY <2>4 DEF ET!OpenFd, ET!Insert, ET!Fcntl, ET!Unlock, ET!Remove, ET!Closed
    <3> QED
      BY <2>1, <2>4, <3>1, LockStepKeeps
  <2>5. ASSUME NEW p \in Processes, ET!Exit(p) PROVE QueueInv' /\ LockInv'
    BY <2>1, <2>5, ExitKeepsLock DEF ET!Exit
  <2>6. CASE UNCHANGED ET!vars
    BY <2>1, <2>2, <2>6 DEF ET!vars
  <2> QED
    BY <2>3, <2>4, <2>5, <2>6 DEF ET!Next, ET!NextLock
<1> QED
  BY <1>1, <1>2, QueueInOrder, HoldersExclude, PTL DEF ET!Spec

-----------------------------------------------------------------------------
\* The read side of the environment: mappings and descriptors.

Places == {"none", "opened", "mmapLock", "mapping", "mmap", "construct", "fdLock", "fd", "temporary"}

\* How many threads are at some places.
Count(f, where) == Cardinality({t \in Threads : f[t] \in where})
In(place, where) == IF place \in where THEN 1 ELSE 0

\* A thread that moves is counted where it goes and no longer where it was.
LEMMA CountMoves ==
    ASSUME NEW f \in [Threads -> Places], NEW t \in Threads, NEW to, NEW where
    PROVE  /\ Count(f, where) \in Nat
           /\ Count([f EXCEPT ![t] = to], where) = Count(f, where) + In(to, where) - In(f[t], where)
<1> DEFINE g == [f EXCEPT ![t] = to]
           A == {x \in Threads : f[x] \in where}
           B == {x \in Threads : g[x] \in where}
           C == A \ {t}
<1>1. IsFiniteSet(A) /\ IsFiniteSet(B) /\ IsFiniteSet(C)
  <2>1. A \subseteq Threads /\ B \subseteq Threads /\ C \subseteq Threads
    OBVIOUS
  <2> QED
    BY <2>1, PartsAssumption, FS_Subset
<1>2. Cardinality(A) \in Nat /\ Cardinality(B) \in Nat /\ Cardinality(C) \in Nat
  BY <1>1, FS_CardinalityType
<1>3. Cardinality(A) = Cardinality(C) + In(f[t], where)
  <2>1. CASE f[t] \in where
    <3>1. A = C \cup {t} /\ t \notin C
      BY <2>1
    <3>2. Cardinality(C \cup {t}) = Cardinality(C) + 1
      BY <1>1, <3>1, FS_AddElement
    <3> QED
      BY <2>1, <3>1, <3>2 DEF In
  <2>2. CASE f[t] \notin where
    <3>1. A = C
      BY <2>2
    <3>2. In(f[t], where) = 0
      BY <2>2 DEF In
    <3>3. Cardinality(C) + 0 = Cardinality(C)
      BY <1>2
    <3> QED
      BY <3>1, <3>2, <3>3
  <2> QED
    BY <2>1, <2>2
<1>4. Cardinality(B) = Cardinality(C) + In(to, where)
  <2>1. CASE to \in where
    <3>1. B = C \cup {t} /\ t \notin C
      BY <2>1
    <3>2. Cardinality(C \cup {t}) = Cardinality(C) + 1
      BY <1>1, <3>1, FS_AddElement
    <3> QED
      BY <2>1, <3>1, <3>2 DEF In
  <2>2. CASE to \notin where
    <3>1. B = C
      BY <2>2
    <3>2. In(to, where) = 0
      BY <2>2 DEF In
    <3>3. Cardinality(C) + 0 = Cardinality(C)
      BY <1>2
    <3> QED
      BY <3>1, <3>2, <3>3
  <2> QED
    BY <2>1, <2>2
<1>5. Count(f, where) = Cardinality(A) /\ Count(g, where) = Cardinality(B)
  BY DEF Count
<1>6. In(to, where) \in {0, 1} /\ In(f[t], where) \in {0, 1}
  BY DEF In
<1> QED
  BY <1>2, <1>3, <1>4, <1>5, <1>6

Mapped(f) == Count(f, {"mmap"})
Mapping(f) == Count(f, {"mmap", "mapping"})
Kept(f) == Count(f, {"fd"})
Using(f) == Count(f, {"opened", "mmapLock", "mapping", "construct", "fdLock", "fd"})

\* The four counts after a move.
LEMMA CountsMove ==
    ASSUME NEW f \in [Threads -> Places], NEW t \in Threads, NEW to
    PROVE  /\ Mapped(f) \in Nat /\ Mapping(f) \in Nat /\ Kept(f) \in Nat /\ Using(f) \in Nat
           /\ Mapped([f EXCEPT ![t] = to]) = Mapped(f) + In(to, {"mmap"}) - In(f[t], {"mmap"})
           /\ Mapping([f EXCEPT ![t] = to])
                 = Mapping(f) + In(to, {"mmap", "mapping"}) - In(f[t], {"mmap", "mapping"})
           /\ Kept([f EXCEPT ![t] = to]) = Kept(f) + In(to, {"fd"}) - In(f[t], {"fd"})
           /\ Using([f EXCEPT ![t] = to])
                 = Using(f) + In(to, {"opened", "mmapLock", "mapping", "construct", "fdLock", "fd"})
                            - In(f[t], {"opened", "mmapLock", "mapping", "construct", "fdLock", "fd"})
<1>1. \A W : /\ Count(f, W) \in Nat
             /\ Count([f EXCEPT ![t] = to], W) = Count(f, W) + In(to, W) - In(f[t], W)
  BY CountMoves
<1> QED
  BY <1>1 DEF Mapped, Mapping, Kept, Using

\* Every counter agrees with where the threads are.
LimitsInv ==
    /\ opener \in [Threads -> Places]
    /\ regions = Mapped(opener)
    /\ mmapAllowed = MmapLimit - Mapping(opener) /\ mmapAllowed >= 0
    /\ fdAllowed = FdLimit - Kept(opener) /\ fdAllowed >= 0
    /\ fds = Using(opener)

\* Nobody has opened anything yet.
LEMMA NobodyCounted == ASSUME opener = [t \in Threads |-> "none"] PROVE
    Mapped(opener) = 0 /\ Mapping(opener) = 0 /\ Kept(opener) = 0 /\ Using(opener) = 0
<1>1. ASSUME NEW where, "none" \notin where PROVE Count(opener, where) = 0
  <2>1. {t \in Threads : opener[t] \in where} = {}
    BY <1>1
  <2> QED
    BY <2>1, FS_EmptySet DEF Count
<1> QED
  BY <1>1 DEF Mapped, Mapping, Kept, Using

\* What moves one thread, and what it does to the counters.
LEMMA OneThread ==
    ASSUME LimitsInv, NEW t \in Threads, NEW to \in Places, opener' = [opener EXCEPT ![t] = to]
    PROVE  /\ opener' \in [Threads -> Places]
           /\ regions \in Int /\ mmapAllowed \in Int /\ fdAllowed \in Int /\ fds \in Int
           /\ Mapped(opener) = regions /\ Mapped(opener') = regions + In(to, {"mmap"}) - In(opener[t], {"mmap"})
           /\ MmapLimit - Mapping(opener')
                 = mmapAllowed - In(to, {"mmap", "mapping"}) + In(opener[t], {"mmap", "mapping"})
           /\ FdLimit - Kept(opener') = fdAllowed - In(to, {"fd"}) + In(opener[t], {"fd"})
           /\ Using(opener')
                 = fds + In(to, {"opened", "mmapLock", "mapping", "construct", "fdLock", "fd"})
                       - In(opener[t], {"opened", "mmapLock", "mapping", "construct", "fdLock", "fd"})
<1> DEFINE U == {"opened", "mmapLock", "mapping", "construct", "fdLock", "fd"}
           new == [opener EXCEPT ![t] = to]
<1>1. opener \in [Threads -> Places]
  BY DEF LimitsInv
<1>2. /\ Mapped(opener) \in Nat /\ Mapping(opener) \in Nat /\ Kept(opener) \in Nat /\ Using(opener) \in Nat
      /\ Mapped(new) = Mapped(opener) + In(to, {"mmap"}) - In(opener[t], {"mmap"})
      /\ Mapping(new) = Mapping(opener) + In(to, {"mmap", "mapping"}) - In(opener[t], {"mmap", "mapping"})
      /\ Kept(new) = Kept(opener) + In(to, {"fd"}) - In(opener[t], {"fd"})
      /\ Using(new) = Using(opener) + In(to, U) - In(opener[t], U)
  BY <1>1, CountsMove
<1>3. MmapLimit \in Nat /\ FdLimit \in Nat
  BY PartsAssumption
<1>4. \A x, W : In(x, W) \in {0, 1}
  BY DEF In
<1>5. In(to, {"mmap"}) \in Int /\ In(opener[t], {"mmap"}) \in Int /\ In(to, {"mmap", "mapping"}) \in Int
      /\ In(opener[t], {"mmap", "mapping"}) \in Int /\ In(to, {"fd"}) \in Int /\ In(opener[t], {"fd"}) \in Int
      /\ In(to, U) \in Int /\ In(opener[t], U) \in Int
  BY <1>4
<1>6. opener' \in [Threads -> Places]
  BY <1>1
<1> HIDE DEF U, new
<1>7. opener' = new
  BY DEF new
<1>8. /\ regions = Mapped(opener) /\ mmapAllowed = MmapLimit - Mapping(opener)
      /\ fdAllowed = FdLimit - Kept(opener) /\ fds = Using(opener)
  BY DEF LimitsInv
<1>9. regions \in Int /\ mmapAllowed \in Int /\ fdAllowed \in Int /\ fds \in Int
  BY <1>2, <1>3, <1>8
<1>10. MmapLimit - Mapping(opener') = mmapAllowed - In(to, {"mmap", "mapping"}) + In(opener[t], {"mmap", "mapping"})
  <2> DEFINE x == In(to, {"mmap", "mapping"})
             y == In(opener[t], {"mmap", "mapping"})
  <2>1. x \in Int /\ y \in Int /\ Mapping(opener') = Mapping(opener) + x - y
    BY <1>2, <1>5, <1>7
  <2> HIDE DEF x, y
  <2>2. MmapLimit - Mapping(opener') = mmapAllowed - x + y
    BY <1>2, <1>3, <1>8, <2>1
  <2> QED
    BY <2>2 DEF x, y
<1>11. FdLimit - Kept(opener') = fdAllowed - In(to, {"fd"}) + In(opener[t], {"fd"})
  <2> DEFINE x == In(to, {"fd"})
             y == In(opener[t], {"fd"})
  <2>1. x \in Int /\ y \in Int /\ Kept(opener') = Kept(opener) + x - y
    BY <1>2, <1>5, <1>7
  <2> HIDE DEF x, y
  <2>2. FdLimit - Kept(opener') = fdAllowed - x + y
    BY <1>2, <1>3, <1>8, <2>1
  <2> QED
    BY <2>2 DEF x, y
<1>12. Using(opener') = fds + In(to, U) - In(opener[t], U)
  BY <1>2, <1>7, <1>8
<1> QED
  BY <1>2, <1>6, <1>7, <1>8, <1>9, <1>10, <1>11, <1>12 DEF U

\* Every step of a thread that opens, reads or closes keeps the counters.
LEMMA LimitStepKeeps ==
    ASSUME LimitsInv, NEW t \in Threads,
           \/ EF!Open(t) \/ EF!LookAtMmaps(t) \/ EF!AcquireMmap(t) \/ EF!Map(t)
           \/ EF!LookAtFds(t) \/ EF!AcquireFd(t) \/ EF!Read(t) \/ EF!Close(t)
    PROVE  LimitsInv'
<1> DEFINE U == {"opened", "mmapLock", "mapping", "construct", "fdLock", "fd"}
           Moved(to) ==
               /\ opener' \in [Threads -> Places]
               /\ Mapped(opener') = regions + In(to, {"mmap"}) - In(opener[t], {"mmap"})
               /\ MmapLimit - Mapping(opener')
                     = mmapAllowed - In(to, {"mmap", "mapping"}) + In(opener[t], {"mmap", "mapping"})
               /\ FdLimit - Kept(opener') = fdAllowed - In(to, {"fd"}) + In(opener[t], {"fd"})
               /\ Using(opener') = fds + In(to, U) - In(opener[t], U)
<1>1. ASSUME NEW to \in Places, opener' = [opener EXCEPT ![t] = to] PROVE Moved(to)
  BY <1>1, OneThread
<1>2. regions \in Int /\ mmapAllowed \in Int /\ fdAllowed \in Int /\ fds \in Int
      /\ mmapAllowed >= 0 /\ fdAllowed >= 0
  <2>1. "none" \in Places
    BY DEF Places
  <2>2. opener \in [Threads -> Places]
    BY DEF LimitsInv
  <2>3. Mapped(opener) \in Nat /\ Mapping(opener) \in Nat /\ Kept(opener) \in Nat /\ Using(opener) \in Nat
    BY <2>1, <2>2, CountsMove
  <2> QED
    BY <2>3, PartsAssumption DEF LimitsInv
<1>3. UNCHANGED <<mmapAllowed, fdAllowed, fds, regions, opener>> => LimitsInv'
  BY DEF LimitsInv
<1>4. ASSUME NEW to \in Places, Moved(to),
             regions' = regions + In(to, {"mmap"}) - In(opener[t], {"mmap"}),
             mmapAllowed' = mmapAllowed - In(to, {"mmap", "mapping"}) + In(opener[t], {"mmap", "mapping"}),
             mmapAllowed' >= 0,
             fdAllowed' = fdAllowed - In(to, {"fd"}) + In(opener[t], {"fd"}),
             fdAllowed' >= 0,
             fds' = fds + In(to, U) - In(opener[t], U)
      PROVE  LimitsInv'
  BY <1>4 DEF LimitsInv
<1> HIDE DEF Moved
<1> USE DEF In, Places
<1>5. CASE EF!Open(t)
  <2>1. CASE opener' = [opener EXCEPT ![t] = "opened"] /\ fds' = fds + 1
    <3>1. opener[t] = "none" /\ UNCHANGED <<mmapAllowed, fdAllowed, regions>> /\ Moved("opened")
      BY <1>1, <1>5, <2>1 DEF EF!Open
    <3> QED
      BY <1>2, <1>4, <2>1, <3>1
  <2> QED
    BY <1>3, <1>5, <2>1 DEF EF!Open
<1>6. CASE EF!LookAtMmaps(t)
  <2>1. PICK to \in {"construct", "mmapLock"} : opener' = [opener EXCEPT ![t] = to]
    BY <1>6 DEF EF!LookAtMmaps, EF!Go
  <2>2. opener[t] = "opened" /\ UNCHANGED <<mmapAllowed, fdAllowed, fds, regions>> /\ Moved(to)
    BY <1>1, <1>6, <2>1 DEF EF!LookAtMmaps, EF!Go
  <2> QED
    BY <1>2, <1>4, <2>1, <2>2
<1>7. CASE EF!AcquireMmap(t)
  <2>1. opener[t] = "mmapLock" /\ UNCHANGED <<fdAllowed, fds, regions>>
    BY <1>7 DEF EF!AcquireMmap, EF!Go
  <2>2. CASE mmapAllowed <= 0
    <3>1. Moved("construct") /\ mmapAllowed' = mmapAllowed
      BY <1>1, <1>7, <2>2 DEF EF!AcquireMmap, EF!Go
    <3> QED
      BY <1>2, <1>4, <2>1, <3>1
  <2>3. CASE ~(mmapAllowed <= 0)
    <3>1. Moved("mapping") /\ mmapAllowed' = mmapAllowed - 1
      BY <1>1, <1>7, <2>3 DEF EF!AcquireMmap, EF!Go
    <3> QED
      BY <1>2, <1>4, <2>1, <2>3, <3>1
  <2> QED
    BY <2>2, <2>3
<1>8. CASE EF!Map(t)
  <2>1. opener[t] = "mapping" /\ fds' = fds - 1 /\ fdAllowed' = fdAllowed
    BY <1>8 DEF EF!Map, EF!Go
  <2>2. CASE EF!Go(t, "mapping", "mmap") /\ regions' = regions + 1 /\ mmapAllowed' = mmapAllowed
    <3>1. Moved("mmap")
      BY <1>1, <2>2 DEF EF!Go
    <3> QED
      BY <1>2, <1>4, <2>1, <2>2, <3>1
  <2>3. CASE EF!Go(t, "mapping", "none") /\ regions' = regions /\ mmapAllowed' = mmapAllowed + 1
    <3>1. Moved("none")
      BY <1>1, <2>3 DEF EF!Go
    <3> QED
      BY <1>2, <1>4, <2>1, <2>3, <3>1
  <2> QED
    BY <1>8, <2>2, <2>3 DEF EF!Map
<1>9. CASE EF!LookAtFds(t)
  <2>1. opener[t] = "construct" /\ UNCHANGED <<mmapAllowed, fdAllowed, regions>>
    BY <1>9 DEF EF!LookAtFds, EF!Go
  <2>2. CASE fdAllowed <= 0
    <3>1. Moved("temporary") /\ fds' = fds - 1
      BY <1>1, <1>9, <2>2 DEF EF!LookAtFds, EF!Go
    <3> QED
      BY <1>2, <1>4, <2>1, <3>1
  <2>3. CASE ~(fdAllowed <= 0)
    <3>1. Moved("fdLock") /\ fds' = fds
      BY <1>1, <1>9, <2>3 DEF EF!LookAtFds, EF!Go
    <3> QED
      BY <1>2, <1>4, <2>1, <3>1
  <2> QED
    BY <2>2, <2>3
<1>10. CASE EF!AcquireFd(t)
  <2>1. opener[t] = "fdLock" /\ UNCHANGED <<mmapAllowed, regions>>
    BY <1>10 DEF EF!AcquireFd, EF!Go
  <2>2. CASE fdAllowed <= 0
    <3>1. Moved("temporary") /\ fds' = fds - 1 /\ fdAllowed' = fdAllowed
      BY <1>1, <1>10, <2>2 DEF EF!AcquireFd, EF!Go
    <3> QED
      BY <1>2, <1>4, <2>1, <3>1
  <2>3. CASE ~(fdAllowed <= 0)
    <3>1. Moved("fd") /\ fds' = fds /\ fdAllowed' = fdAllowed - 1
      BY <1>1, <1>10, <2>3 DEF EF!AcquireFd, EF!Go
    <3> QED
      BY <1>2, <1>4, <2>1, <2>3, <3>1
  <2> QED
    BY <2>2, <2>3
<1>11. CASE EF!Read(t)
  BY <1>3, <1>11 DEF EF!Read
<1>12. CASE EF!Close(t)
  <2>1. opener' = [opener EXCEPT ![t] = "none"] /\ Moved("none") /\ opener[t] \in {"mmap", "fd", "temporary"}
    BY <1>1, <1>12 DEF EF!Close
  <2>2. /\ mmapAllowed' = IF opener[t] = "mmap" THEN mmapAllowed + 1 ELSE mmapAllowed
        /\ regions' = IF opener[t] = "mmap" THEN regions - 1 ELSE regions
        /\ fdAllowed' = IF opener[t] = "fd" THEN fdAllowed + 1 ELSE fdAllowed
        /\ fds' = IF opener[t] = "fd" THEN fds - 1 ELSE fds
    BY <1>12 DEF EF!Close
  <2> QED
    BY <1>2, <1>4, <2>1, <2>2
<1> QED
  BY <1>5, <1>6, <1>7, <1>8, <1>9, <1>10, <1>11, <1>12

\* The limits follow from the counts: who has a mapping has taken it from the limit.
LEMMA LimitsFollow == ASSUME LimitsInv PROVE EF!LimitsKept
<1>1. \A W : EF!At(W) = Count(opener, W)
  BY DEF EF!At, EF!Cardinality, Cardinality, Count
<1>2. Mapped(opener) \in Nat /\ Mapping(opener) \in Nat /\ Mapped(opener) <= Mapping(opener)
  <2> DEFINE A == {t \in Threads : opener[t] \in {"mmap"}}
             B == {t \in Threads : opener[t] \in {"mmap", "mapping"}}
  <2>1. A \subseteq B /\ B \subseteq Threads
    OBVIOUS
  <2>2. IsFiniteSet(B) /\ IsFiniteSet(A) /\ Cardinality(A) <= Cardinality(B)
    BY <2>1, PartsAssumption, FS_Subset
  <2>3. Cardinality(A) \in Nat /\ Cardinality(B) \in Nat
    BY <2>2, FS_CardinalityType
  <2> QED
    BY <2>2, <2>3 DEF Mapped, Mapping, Count
<1>3. regions <= MmapLimit
  BY <1>2, PartsAssumption DEF LimitsInv
<1> QED
  BY <1>1, <1>3 DEF EF!LimitsKept, LimitsInv, Mapped, Mapping, Kept, Using

\* For any number of threads and any limits, whatever fails: the limits on mappings and
\* descriptors hold, and none is lost (env_posix.cc).
THEOREM LimitsAreKept == EF!Spec => []EF!LimitsKept
<1>1. EF!Init => LimitsInv
  BY NobodyCounted, PartsAssumption DEF EF!Init, LimitsInv, Places
<1>2. LimitsInv /\ [EF!Next]_(EF!vars) => LimitsInv'
  <2> SUFFICES ASSUME LimitsInv, [EF!Next]_(EF!vars) PROVE LimitsInv'
    OBVIOUS
  <2>1. CASE EF!Delete \/ UNCHANGED EF!vars
    BY <2>1 DEF EF!Delete, EF!vars, LimitsInv
  <2> QED
    BY <2>1, LimitStepKeeps DEF EF!Next
<1> QED
  BY <1>1, <1>2, LimitsFollow, PTL DEF EF!Spec

\* The environment as the app's process uses it: all of this together.
THEOREM EnvironmentShares == EF!Spec /\ ET!Spec => []EnvShares
BY LimitsAreKept, WorkRunsAndLockExcludes, PTL DEF EnvShares

-----------------------------------------------------------------------------
\* The C binding: strings and objects.

\* A block that malloc returns is a new one, while two strings at most are out.
LEMMA MallocIsNew ==
    ASSUME NEW h, NEW x, NEW y, h = {} \/ h = {x} \/ h = {x, y}
    PROVE  CB!Malloc(h) \in Nat \ {0} /\ CB!Malloc(h) \notin h
<1>1. \E b \in 1..(Cardinality(h) + 1) : b \notin h
  <2>1. CASE h = {}
    BY <2>1, FS_EmptySet
  <2>2. CASE h = {x}
    <3>1. Cardinality(h) = 1
      BY <2>2, FS_Singleton
    <3>2. 1 \notin {x} \/ 2 \notin {x}
      OBVIOUS
    <3> QED
      BY <2>2, <3>1, <3>2
  <2>3. CASE h = {x, y} /\ x # y
    <3>1. IsFiniteSet({x}) /\ Cardinality({x}) = 1 /\ y \notin {x} /\ h = {x} \cup {y}
      BY <2>3, FS_Singleton
    <3>2. Cardinality(h) = 2
      BY <3>1, FS_AddElement
    <3>3. 1 \notin {x, y} \/ 2 \notin {x, y} \/ 3 \notin {x, y}
      OBVIOUS
    <3> QED
      BY <2>3, <3>2, <3>3
  <2> QED
    BY <2>1, <2>2, <2>3
<1>2. CB!Malloc(h) = CHOOSE b \in 1..(Cardinality(h) + 1) : b \notin h
  BY DEF CB!Malloc, CB!Cardinality, Cardinality
<1>3. CB!Malloc(h) \in 1..(Cardinality(h) + 1) /\ CB!Malloc(h) \notin h
  BY <1>1, <1>2
<1> QED
  BY <1>3

\* The caller has every block that is allocated, and an error exactly when a call failed.
StringsInv ==
    /\ err \in Nat /\ string \in Nat /\ failed \in BOOLEAN
    /\ heap = {err, string} \ {0} /\ (err # 0 => err # string)
    /\ err # 0 <=> failed

\* Every object has its handle, and what options or a database use has one.
Kinds == {"cache", "comparator", "filterpolicy", "env"}
ObjectsInv ==
    /\ reps = (handles \ {"env"}) \cup {CB!DefaultEnv}
    /\ opt \in [create : BOOLEAN, exists : BOOLEAN, uses : SUBSET Kinds] /\ opt.uses \subseteq handles
    /\ used \subseteq Kinds \cap handles
    /\ used # {} => "db" \in handles

\* A call that reports its status.
LEMMA ReportKeeps == ASSUME StringsInv, NEW ok \in BOOLEAN, CB!Report(ok), string' = string PROVE StringsInv'
<1>1. failed' = (failed \/ ~ok)
  BY DEF CB!Report
<1>2. CASE ok
  BY <1>1, <1>2 DEF CB!Report, CB!SaveError, CB!Status, StringsInv
<1>3. CASE ~ok
  <2>1. err' = CB!Malloc(heap \ {err}) /\ heap' = (heap \ {err}) \cup {err'}
    BY <1>3 DEF CB!Report, CB!SaveError, CB!Status
  <2>2. heap \ {err} = {string} \ {0}
    BY DEF StringsInv
  <2>3. err' \in Nat \ {0} /\ err' \notin heap \ {err}
    <3>1. heap \ {err} = {} \/ heap \ {err} = {string}
      BY <2>2
    <3> HIDE DEF StringsInv
    <3> QED
      BY <2>1, <3>1, MallocIsNew
  <2>4. heap' = {err', string} \ {0} /\ err' # string
    BY <2>1, <2>2, <2>3 DEF StringsInv
  <2> QED
    BY <1>1, <1>3, <2>3, <2>4 DEF StringsInv
<1> QED
  BY <1>2, <1>3

\* A call that returns a string.
LEMMA CopyKeeps == ASSUME StringsInv, string = 0, CB!CopyString, err' = err, failed' = failed PROVE StringsInv'
<1>1. string' = CB!Malloc(heap) /\ heap' = heap \cup {string'}
  BY DEF CB!CopyString
<1>2. heap = {} \/ heap = {err}
  BY DEF StringsInv
<1>3. string' \in Nat \ {0} /\ string' \notin heap
  BY <1>1, <1>2, MallocIsNew
<1>4. heap' = {err, string'} \ {0} /\ (err # 0 => err # string')
  BY <1>1, <1>3 DEF StringsInv
<1> QED
  BY <1>3, <1>4 DEF StringsInv

ObjectStep ==
    \/ CB!SetOptions
    \/ \E kind \in SharedKinds : CB!CreateShared(kind) \/ CB!DestroyShared(kind)
    \/ \E ok \in BOOLEAN : CB!leveldb_open(ok)
    \/ CB!leveldb_close
    \/ CB!leveldb_create_snapshot \/ CB!leveldb_release_snapshot
    \/ CB!leveldb_create_iterator \/ CB!leveldb_iter_destroy

\* Every call that makes, points to or destroys an object.
LEMMA ObjectStepKeeps == ASSUME ObjectsInv, ObjectStep PROVE ObjectsInv'
<1> USE DEF ObjectsInv, CB!objects, CB!NewHandle
<1>0. /\ SharedKinds \subseteq Kinds /\ "db" \notin Kinds /\ "snapshot" \notin Kinds /\ "iterator" \notin Kinds
      /\ CB!DefaultEnv \notin Kinds \cup {"db", "snapshot", "iterator"}
  BY PartsAssumption DEF Kinds, CB!DefaultEnv
<1>1. CASE CB!SetOptions
  <2>1. handles' = handles /\ reps' = reps /\ used' = used
    BY <1>1 DEF CB!SetOptions
  <2>2. ASSUME NEW kind \in handles \cap SharedKinds, opt' = [opt EXCEPT !.uses = @ \cup {kind}] PROVE ObjectsInv'
    BY <1>0, <2>1, <2>2
  <2>3. ASSUME NEW kind \in opt.uses, opt' = [opt EXCEPT !.uses = @ \ {kind}] PROVE ObjectsInv'
    BY <1>0, <2>1, <2>3
  <2>4. ASSUME NEW c \in BOOLEAN, NEW e \in BOOLEAN, opt' = [opt EXCEPT !.create = c, !.exists = e] PROVE ObjectsInv'
    BY <2>1, <2>4
  <2> QED
    BY <1>1, <2>2, <2>3, <2>4 DEF CB!SetOptions
<1>2. ASSUME NEW kind \in SharedKinds, CB!CreateShared(kind) PROVE ObjectsInv'
  <2>1. /\ handles' = handles \cup {kind} /\ opt' = opt /\ used' = used
        /\ reps' = IF kind = "env" THEN reps ELSE reps \cup {kind}
    BY <1>2 DEF CB!CreateShared
  <2> QED
    BY <1>0, <2>1
<1>3. ASSUME NEW kind \in SharedKinds, CB!DestroyShared(kind) PROVE ObjectsInv'
  <2>1. /\ kind \in handles \ (used \cup opt.uses) /\ handles' = handles \ {kind} /\ opt' = opt /\ used' = used
        /\ reps' = IF kind = "env" THEN reps ELSE reps \ {kind}
    BY <1>3 DEF CB!DestroyShared
  <2> QED
    BY <1>0, <2>1
<1>4. ASSUME NEW ok \in BOOLEAN, CB!leveldb_open(ok) PROVE ObjectsInv'
  <2>1. CASE ok
    <3>1. handles' = handles \cup {"db"} /\ reps' = reps \cup {"db"} /\ used' = opt.uses /\ opt' = opt
      BY <1>4, <2>1 DEF CB!leveldb_open
    <3> QED
      BY <1>0, <3>1
  <2>2. CASE ~ok
    <3>1. UNCHANGED <<handles, reps, used, opt>>
      BY <1>4, <2>2 DEF CB!leveldb_open
    <3> QED
      BY <3>1
  <2> QED
    BY <2>1, <2>2
<1>5. CASE CB!leveldb_close
  <2>1. handles' = handles \ {"db"} /\ reps' = reps \ {"db"} /\ used' = {} /\ opt' = opt
    BY <1>5 DEF CB!leveldb_close
  <2> QED
    BY <1>0, <2>1
<1>6. ASSUME NEW kind \in {"snapshot", "iterator"}, handles' = handles \cup {kind}, reps' = reps \cup {kind},
             opt' = opt, used' = used
      PROVE  ObjectsInv'
  BY <1>0, <1>6
<1>7. ASSUME NEW kind \in {"snapshot", "iterator"}, handles' = handles \ {kind}, reps' = reps \ {kind},
             opt' = opt, used' = used
      PROVE  ObjectsInv'
  BY <1>0, <1>7
<1>8. CASE CB!leveldb_create_snapshot
  BY <1>6, <1>8 DEF CB!leveldb_create_snapshot
<1>9. CASE CB!leveldb_release_snapshot
  BY <1>7, <1>9 DEF CB!leveldb_release_snapshot
<1>10. CASE CB!leveldb_create_iterator
  BY <1>6, <1>10 DEF CB!leveldb_create_iterator
<1>11. CASE CB!leveldb_iter_destroy
  BY <1>7, <1>11, SMTT(30) DEF CB!leveldb_iter_destroy
<1> QED
  BY <1>1, <1>2, <1>3, <1>4, <1>5, <1>8, <1>9, <1>10, <1>11 DEF ObjectStep

\* An iterator has a status.
CursorInv == cursor = [over |-> cursor.over, at |-> cursor.at, ok |-> cursor.ok] /\ cursor.ok \in BOOLEAN

\* Whatever becomes of the iterator, it has one again.
LEMMA CursorKeeps == ASSUME CursorInv, CB!Next PROVE CursorInv'
<1>1. \/ cursor' = cursor
      \/ cursor' = CB!NoCursor
      \/ cursor' = [over |-> CB!Seen, at |-> 0, ok |-> TRUE]
      \/ \E to : \/ cursor' = [cursor EXCEPT !.at = to, !.ok = TRUE]
                 \/ cursor' = [cursor EXCEPT !.at = to]
                 \/ cursor' = [cursor EXCEPT !.at = to, !.ok = FALSE]
  <2>1. CASE CB!Move
    BY <2>1 DEF CB!Move
  <2>2. CASE CB!leveldb_free \/ CB!SetOptions \/ CB!CreateFilter \/ CB!leveldb_close \/ CB!leveldb_iter_get_error \/ CB!FillBatch
    BY <2>2 DEF CB!leveldb_free, CB!SetOptions, CB!CreateFilter, CB!leveldb_close, CB!leveldb_iter_get_error,
                CB!FillBatch, CB!database
  <2>3. ASSUME NEW kind \in SharedKinds, CB!CreateShared(kind) \/ CB!DestroyShared(kind) PROVE cursor' = cursor
    BY <2>3 DEF CB!CreateShared, CB!DestroyShared, CB!database
  <2>4. ASSUME NEW ok \in BOOLEAN,
               \/ CB!leveldb_open(ok) \/ CB!leveldb_property_value(ok)
               \/ \E destroy \in BOOLEAN : CB!Manage(ok, destroy)
               \/ \E k : CB!leveldb_get(k, ok)
               \/ \E written : CB!Write(written, ok)
        PROVE  cursor' = cursor
    BY <2>4, SMTT(30) DEF CB!leveldb_open, CB!leveldb_property_value, CB!Manage, CB!leveldb_get, CB!Write, CB!database
  <2>5. CASE \/ CB!leveldb_create_snapshot \/ CB!leveldb_release_snapshot \/ CB!leveldb_readoptions_set_snapshot
             \/ CB!leveldb_create_iterator \/ CB!leveldb_iter_destroy
    BY <2>5 DEF CB!leveldb_create_snapshot, CB!leveldb_release_snapshot, CB!leveldb_readoptions_set_snapshot,
                CB!leveldb_create_iterator, CB!leveldb_iter_destroy
  <2> QED
    BY <2>1, <2>2, <2>3, <2>4, <2>5 DEF CB!Next
<1>2. ASSUME NEW to, \/ cursor' = [cursor EXCEPT !.at = to, !.ok = TRUE]
                    \/ cursor' = [cursor EXCEPT !.at = to]
                    \/ cursor' = [cursor EXCEPT !.at = to, !.ok = FALSE]
      PROVE  CursorInv'
  BY <1>2 DEF CursorInv
<1>3. cursor' = cursor => CursorInv'
  BY DEF CursorInv
<1>4. cursor' = CB!NoCursor => CursorInv'
  BY DEF CursorInv, CB!NoCursor
<1>5. cursor' = [over |-> CB!Seen, at |-> 0, ok |-> TRUE] => CursorInv'
  BY DEF CursorInv
<1> QED
  BY <1>1, <1>2, <1>3, <1>4, <1>5, ZenonT(60)

\* Every call, with what it does to strings.
LEMMA CallKeepsStrings == ASSUME StringsInv, CursorInv, CB!Next PROVE StringsInv'
<1> USE DEF CB!strings, CB!objects, CB!database
<1>1. UNCHANGED <<heap, err, string, failed>> => StringsInv'
  BY DEF StringsInv
<1>2. CASE CB!leveldb_free
  <2>1. CASE string # 0 /\ string' = 0 /\ heap' = heap \ {string} /\ UNCHANGED <<err, failed>>
    BY <2>1 DEF StringsInv
  <2>2. CASE err # 0 /\ err' = 0 /\ heap' = heap \ {err} /\ failed' = FALSE /\ UNCHANGED string
    <3>1. heap' = {string} \ {0}
      BY <2>2 DEF StringsInv
    <3> QED
      BY <2>2, <3>1 DEF StringsInv
  <2> QED
    BY <1>2, <2>1, <2>2 DEF CB!leveldb_free
<1>3. CASE CB!SetOptions
  BY <1>1, <1>3 DEF CB!SetOptions
<1>4. CASE CB!CreateFilter
  <2>1. heap' = (heap \cup {CB!Malloc(heap)}) \ {CB!Malloc(heap)} /\ UNCHANGED <<err, string, failed>>
    BY <1>4 DEF CB!CreateFilter
  <2>2. heap = {} \/ heap = {err} \/ heap = {string} \/ heap = {err, string}
    BY DEF StringsInv
  <2>3. CB!Malloc(heap) \notin heap
    BY <2>2, MallocIsNew
  <2> QED
    BY <1>1, <2>1, <2>3
<1>5. ASSUME NEW kind \in SharedKinds, CB!CreateShared(kind) \/ CB!DestroyShared(kind) PROVE StringsInv'
  BY <1>1, <1>5 DEF CB!CreateShared, CB!DestroyShared
<1>6. ASSUME NEW ok \in BOOLEAN, CB!leveldb_open(ok) PROVE StringsInv'
  BY <1>6, ReportKeeps DEF CB!leveldb_open
<1>7. ASSUME NEW ok \in BOOLEAN, NEW destroy \in BOOLEAN, CB!Manage(ok, destroy) PROVE StringsInv'
  BY <1>7, ReportKeeps DEF CB!Manage
<1>8. ASSUME NEW k, NEW ok \in BOOLEAN, CB!leveldb_get(k, ok) PROVE StringsInv'
  <2>1. string = 0 /\ failed' = (failed \/ ~ok)
    BY <1>8 DEF CB!leveldb_get, CB!Reading
  <2>2. CASE CB!DBGet(k, ok) = "kOk"
    <3>1. ok
      BY <2>2 DEF CB!DBGet, CB!Status
    <3>2. CB!CopyString /\ err' = err
      BY <1>8, <2>2 DEF CB!leveldb_get
    <3>3. failed' = failed
      BY <2>1, <3>1 DEF StringsInv
    <3> QED
      BY <2>1, <3>2, <3>3, CopyKeeps
  <2>3. CASE CB!DBGet(k, ok) = "kNotFound"
    <3>1. ok
      BY <2>3 DEF CB!DBGet, CB!Status
    <3>2. UNCHANGED <<heap, err, string>>
      BY <1>8, <2>3 DEF CB!leveldb_get
    <3> QED
      BY <1>1, <2>1, <3>1, <3>2 DEF StringsInv
  <2>4. CASE CB!DBGet(k, ok) \notin {"kOk", "kNotFound"}
    <3>1. CB!DBGet(k, ok) = CB!Status(ok)
      BY <2>4 DEF CB!DBGet
    <3>2. CB!SaveError(CB!Status(ok)) /\ string' = string
      BY <1>8, <2>4, <3>1 DEF CB!leveldb_get
    <3>3. CB!Report(ok)
      BY <2>1, <3>2 DEF CB!Report
    <3> QED
      BY <3>2, <3>3, ReportKeeps
  <2> QED
    BY <2>2, <2>3, <2>4
<1>9. ASSUME NEW written, NEW ok \in BOOLEAN, CB!Write(written, ok) PROVE StringsInv'
  BY <1>9, ReportKeeps DEF CB!Write
<1>10. ASSUME NEW ok \in BOOLEAN, CB!leveldb_property_value(ok) PROVE StringsInv'
  <2>1. string = 0 /\ err' = err /\ failed' = failed
    BY <1>10 DEF CB!leveldb_property_value
  <2>2. CASE ok
    BY <1>10, <2>1, <2>2, CopyKeeps DEF CB!leveldb_property_value
  <2>3. CASE ~ok
    BY <1>1, <1>10, <2>1, <2>3 DEF CB!leveldb_property_value
  <2> QED
    BY <2>2, <2>3
<1>11. CASE CB!leveldb_close \/ CB!leveldb_create_snapshot \/ CB!leveldb_release_snapshot \/ CB!leveldb_readoptions_set_snapshot
  BY <1>1, <1>11 DEF CB!leveldb_close, CB!leveldb_create_snapshot, CB!leveldb_release_snapshot,
                     CB!leveldb_readoptions_set_snapshot
<1>12. CASE CB!leveldb_create_iterator \/ CB!leveldb_iter_destroy \/ CB!Move \/ CB!FillBatch
  BY <1>1, <1>12 DEF CB!leveldb_create_iterator, CB!leveldb_iter_destroy, CB!Move, CB!FillBatch
<1>13. CASE CB!leveldb_iter_get_error
  <2>1. CB!Report(cursor.ok) /\ string' = string
    BY <1>13 DEF CB!leveldb_iter_get_error
  <2>2. cursor.ok \in BOOLEAN
    BY DEF CursorInv
  <2> QED
    BY <2>1, <2>2, ReportKeeps
<1> QED
  BY <1>2, <1>3, <1>4, <1>5, <1>6, <1>7, <1>8, <1>9, <1>10, <1>11, <1>12, <1>13 DEF CB!Next

\* For any keys, batches and handles, in whatever order calls succeed and fail: each
\* string and object has one owner on the two sides of the binding, and the caller finds
\* an error exactly when a call has failed (c.cc).
THEOREM BindingIsFaithful == CB!Spec => []BindingFaithful
<1> DEFINE BindingInv == StringsInv /\ ObjectsInv /\ CursorInv
<1>1. CB!Init => BindingInv
  <2> SUFFICES ASSUME CB!Init PROVE BindingInv
    OBVIOUS
  <2>1. StringsInv
    BY DEF CB!Init, StringsInv
  <2>2. ObjectsInv
    BY DEF CB!Init, ObjectsInv
  <2>3. CursorInv
    BY DEF CB!Init, CursorInv, CB!NoCursor
  <2> QED
    BY <2>1, <2>2, <2>3
<1>2. BindingInv /\ [CB!Next]_(CB!vars) => BindingInv'
  <2> SUFFICES ASSUME BindingInv, [CB!Next]_(CB!vars) PROVE BindingInv'
    OBVIOUS
  <2>1. CASE UNCHANGED CB!vars
    BY <2>1 DEF CB!vars, StringsInv, ObjectsInv, CursorInv
  <2>2. ASSUME CB!Next PROVE ObjectsInv'
    <3>1. CASE ObjectStep
      BY <3>1, ObjectStepKeeps
    <3>2. ASSUME UNCHANGED CB!objects PROVE ObjectsInv'
      BY <3>2 DEF CB!objects, ObjectsInv
    <3>3. CASE CB!leveldb_free \/ CB!CreateFilter \/ CB!Move \/ CB!leveldb_iter_get_error \/ CB!FillBatch
      BY <3>2, <3>3 DEF CB!leveldb_free, CB!CreateFilter, CB!Move, CB!leveldb_iter_get_error, CB!FillBatch
    <3>4. CASE CB!leveldb_readoptions_set_snapshot
      BY <3>2, <3>4 DEF CB!leveldb_readoptions_set_snapshot
    <3>5. ASSUME NEW ok \in BOOLEAN,
                 \/ CB!leveldb_property_value(ok)
                 \/ \E destroy \in BOOLEAN : CB!Manage(ok, destroy)
                 \/ \E k : CB!leveldb_get(k, ok)
                 \/ \E written : CB!Write(written, ok)
          PROVE  ObjectsInv'
      BY <3>2, <3>5 DEF CB!leveldb_property_value, CB!Manage, CB!leveldb_get, CB!Write
    <3> QED
      BY <2>2, <3>1, <3>3, <3>4, <3>5 DEF CB!Next, ObjectStep
  <2> QED
    BY <2>1, <2>2, CursorKeeps, CallKeepsStrings
<1>3. BindingInv => BindingFaithful
  BY DEF StringsInv, ObjectsInv, BindingFaithful, CB!OwnersKnown, CB!ErrorsKept
<1> QED
  BY <1>1, <1>2, <1>3, PTL DEF CB!Spec

-----------------------------------------------------------------------------
\* The repair of a database.

Contents == [entries : SUBSET Entries, damaged : BOOLEAN]
Phases == {"idle", "logs", "archive", "scan", "source", "finish", "rename", "done", "failed"}

\* Files have numbers, of which there is a largest.
RepairType ==
    /\ repair \in Phases /\ readable \subseteq Entries /\ lost \subseteq Entries
    /\ DOMAIN logs \subseteq Nat /\ logs \in [DOMAIN logs -> Contents]
    /\ DOMAIN tables \subseteq Nat /\ tables \in [DOMAIN tables -> Contents]
    /\ faults \in Nat /\ stops \in Nat
    /\ \E b \in Nat : \A n \in DOMAIN logs \cup DOMAIN tables : n <= b

\* An entry is in one of the files, or in "lost".
Somewhere(e) ==
    \/ e \in lost
    \/ \E l \in DOMAIN logs : e \in logs[l].entries
    \/ \E n \in DOMAIN tables : e \in tables[n].entries

\* What the repairer remembers of the files is so; numbers it gives are new.
Remembers ==
    repair # "idle" =>
        /\ next \in Nat /\ \A n \in DOMAIN logs \cup DOMAIN tables : n < next
        /\ todoLogs \subseteq DOMAIN logs /\ todoTables \subseteq DOMAIN tables
        /\ kept \subseteq DOMAIN tables \ todoTables /\ \A n \in kept : ~tables[n].damaged
        /\ repair = "archive" => copy.src \in todoLogs
        /\ repair \notin {"logs", "archive"} => todoLogs = {}

\* A copy and its source are two files that are not to be scanned; the source is there
\* until the copy has taken its place, or is in "lost".
Copies ==
    /\ repair \in {"source", "finish", "rename"} =>
          /\ copy.number \in DOMAIN tables /\ copy.number # copy.src
          /\ copy.number \notin todoTables \cup kept /\ copy.src \notin todoTables \cup kept
          /\ copy.src \in Nat /\ copy.src < next
    /\ repair = "source" => copy.src \in DOMAIN tables /\ tables[copy.number].entries = {}
    /\ repair \in {"finish", "rename"} =>
          /\ copy.entries \subseteq Entries /\ tables[copy.number].entries \subseteq copy.entries
          /\ copy.src \in DOMAIN tables => tables[copy.src].entries = copy.entries
          /\ copy.src \notin DOMAIN tables => copy.entries \subseteq lost
    /\ repair = "rename" => tables[copy.number] = [entries |-> copy.entries, damaged |-> FALSE]

\* Where an entry is that has not been passed over: in what is still to do, or done.
Reached(e) ==
    \/ \E l \in todoLogs : e \in logs[l].entries /\ ~(repair = "archive" /\ l = copy.src)
    \/ \E n \in todoTables \cup kept : e \in tables[n].entries
    \/ repair = "source" /\ e \in tables[copy.src].entries
    \/ repair \in {"finish", "rename"} /\ e \in copy.entries

NothingPassed ==
    faults = 0 /\ stops = 0 =>
        IF repair = "idle" THEN lost = {} ELSE repair = "failed" \/ \A e \in readable : Reached(e)

Described ==
    repair = "done" =>
        /\ current.tables = kept /\ current.next = next /\ todoTables = {}
        /\ \A n \in kept : \A e \in tables[n].entries : e <= current.last

RepairInv ==
    /\ RepairType /\ (\A e \in readable : Somewhere(e)) /\ Remembers /\ Copies /\ NothingPassed /\ Described

\* Contents of a file, and a directory with one file more or less (With, Without).
LEMMA ContentsOf ==
    ASSUME NEW e \in SUBSET Entries, NEW d \in BOOLEAN
    PROVE  /\ RE!File(e, d) \in Contents
           /\ RE!File(e, d).entries = e /\ RE!File(e, d).damaged = d
BY DEF Contents, RE!File

\* A directory in which a file was written.
LEMMA WithFile ==
    ASSUME NEW f, DOMAIN f \subseteq Nat, f \in [DOMAIN f -> Contents], NEW n \in Nat, NEW x \in Contents
    PROVE  /\ DOMAIN RE!With(f, n, x) = DOMAIN f \cup {n}
           /\ RE!With(f, n, x) \in [DOMAIN RE!With(f, n, x) -> Contents]
           /\ RE!With(f, n, x)[n] = x
           /\ \A i \in DOMAIN f \ {n} : RE!With(f, n, x)[i] = f[i]
BY DEF RE!With

\* A directory from which a file was taken.
LEMMA WithoutFile ==
    ASSUME NEW f, DOMAIN f \subseteq Nat, f \in [DOMAIN f -> Contents], NEW n
    PROVE  /\ DOMAIN RE!Without(f, n) = DOMAIN f \ {n}
           /\ RE!Without(f, n) \in [DOMAIN RE!Without(f, n) -> Contents]
           /\ \A i \in DOMAIN f \ {n} : RE!Without(f, n)[i] = f[i]
BY DEF RE!Without

\* Max of the model is the greatest number where the numbers have a bound.
LEMMA MaxOfBounded ==
    ASSUME NEW S \in SUBSET Nat, NEW b \in Nat, \A n \in S : n <= b
    PROVE  /\ RE!Max({0} \cup S) \in Nat
           /\ \A n \in S : n <= RE!Max({0} \cup S)
<1> DEFINE T == {0} \cup S
<1>1. T \in SUBSET Nat /\ T # {} /\ \A n \in T : n <= b
  OBVIOUS
<1>2. 0 \in T /\ S \subseteq T
  OBVIOUS
<1> HIDE DEF T
<1>3. Max(T) \in T /\ \A n \in T : n <= Max(T)
  BY <1>1, GreatestOf
<1>4. RE!Max(T) = Max(T)
  BY DEF RE!Max, Max
<1>5. RE!Max(T) \in Nat /\ \A n \in S : n <= RE!Max(T)
  BY <1>1, <1>2, <1>3, <1>4
<1> QED
  BY <1>5 DEF T

\* A finite set of numbers has a bound.
LEMMA FiniteBound ==
    ASSUME NEW S \in SUBSET Nat, IsFiniteSet(S)
    PROVE  \E b \in Nat : \A n \in S : n <= b
<1>1. PICK s \in Seq(S) : \A x \in S : \E i \in 1 .. Len(s) : s[i] = x
  BY DEF IsFiniteSet
<1>2. Len(s) \in Nat /\ \A i \in 1 .. Len(s) : s[i] \in Nat
  <2>1. Len(s) \in Nat /\ \A i \in 1 .. Len(s) : s[i] \in S
    BY <1>1, ElementOfSeq, LenProperties
  <2> QED
    BY <2>1
<1>3. PICK b \in Nat : \A i \in 1 .. Len(s) : s[i] <= b
  <2> DEFINE n == Len(s)
  <2>1. n \in Nat /\ \A i \in 1 .. n : s[i] \in Nat
    BY <1>2
  <2> HIDE DEF n
  <2>2. \E c \in Nat : \A i \in 1 .. n : s[i] <= c
    BY <2>1, BoundOf
  <2> QED
    BY <2>2 DEF n
<1> QED
  BY <1>1, <1>3

\* At first: what can be read is what the files have.
LEMMA RepairInit ==
    ASSUME RE!Init
    PROVE  RepairInv
<1>1. PICK ls \in SUBSET OldNumbers :
          /\ logs \in [ls -> [entries : SUBSET Entries, damaged : {FALSE}]]
          /\ tables \in [OldNumbers \ ls -> [entries : (SUBSET Entries) \ {{}}, damaged : BOOLEAN]]
  BY DEF RE!Init
<1>2. /\ DOMAIN logs = ls /\ DOMAIN tables = OldNumbers \ ls
      /\ logs \in [DOMAIN logs -> Contents] /\ tables \in [DOMAIN tables -> Contents]
  BY <1>1 DEF Contents
<1>3. OldNumbers \subseteq Nat /\ \E b \in Nat : \A n \in OldNumbers : n <= b
  BY PartsAssumption, FiniteBound
<1>4. readable = RE!In(logs) \cup RE!In(tables) /\ lost = {} /\ repair = "idle" /\ faults = 0 /\ stops = 0
  BY DEF RE!Init
<1>5. \A e \in readable : Somewhere(e) /\ e \in Entries
  <2> SUFFICES ASSUME NEW e \in readable
               PROVE  Somewhere(e) /\ e \in Entries
    OBVIOUS
  <2>1. \/ \E l \in DOMAIN logs : e \in logs[l].entries
        \/ \E n \in DOMAIN tables : e \in tables[n].entries
    BY <1>4 DEF RE!In
  <2> QED
    BY <2>1, <1>2 DEF Somewhere, Contents
<1>6. RepairType
  <2>1. \E b \in Nat : \A n \in DOMAIN logs \cup DOMAIN tables : n <= b
    BY <1>2, <1>3
  <2> QED
    BY <2>1, <1>2, <1>3, <1>4, <1>5 DEF RepairType, Phases
<1> QED
  BY <1>4, <1>5, <1>6 DEF RepairInv, Remembers, Copies, NothingPassed, Described

\* FindFiles sees every file and numbers beyond all of them.
LEMMA RepairFindFiles ==
    ASSUME RepairInv, RE!FindFiles
    PROVE  RepairInv'
<1> USE DEF RE!FindFiles
<1>1. RepairType' /\ (\A e \in readable : Somewhere(e))'
  BY DEF RepairInv, RepairType, Phases, Somewhere
<1>2. next' \in Nat /\ \A n \in DOMAIN logs \cup DOMAIN tables : n < next'
  <2> DEFINE S == DOMAIN logs \cup DOMAIN tables
  <2>1. S \in SUBSET Nat /\ \E b \in Nat : \A n \in S : n <= b
    BY DEF RepairInv, RepairType
  <2>2. {0} \cup DOMAIN logs \cup DOMAIN tables = {0} \cup S
    OBVIOUS
  <2>3. next' = RE!Max({0} \cup S) + 1
    BY <2>2
  <2> HIDE DEF S
  <2>4. RE!Max({0} \cup S) \in Nat /\ \A n \in S : n <= RE!Max({0} \cup S)
    BY <2>1, MaxOfBounded
  <2>5. next' \in Nat /\ \A n \in S : n < next'
    BY <2>1, <2>3, <2>4, SMTT(30)
  <2> QED
    BY <2>5 DEF S
<1>3. Remembers'
  BY <1>2 DEF Remembers
<1>4. NothingPassed'
  BY DEF RepairInv, NothingPassed, Reached, Somewhere
<1> QED
  BY <1>1, <1>3, <1>4 DEF RepairInv, Copies, Described

\* The logs are done; the process is stopped.
LEMMA RepairLogsDone ==
    ASSUME RepairInv, RE!LogsDone
    PROVE  RepairInv'
<1> USE DEF RE!LogsDone
<1>1. RepairType' /\ (\A e \in readable : Somewhere(e))' /\ Remembers' /\ Copies' /\ Described'
  BY DEF RepairInv, RepairType, Phases, Somewhere, Remembers, Copies, Described
<1>2. NothingPassed'
  BY DEF RepairInv, NothingPassed, Reached
<1> QED
  BY <1>1, <1>2 DEF RepairInv

\* The process is stopped in the middle of a repair.
LEMMA RepairCrash ==
    ASSUME RepairInv, RE!Crash
    PROVE  RepairInv'
<1> USE DEF RE!Crash
<1>1. stops' \in Nat /\ stops' # 0
  BY DEF RepairInv, RepairType
<1> QED
  BY <1>1 DEF RepairInv, RepairType, Phases, Somewhere, Remembers, Copies, Described, NothingPassed

\* A call that fails is counted.
LEMMA FaultCounted ==
    ASSUME NEW ok \in BOOLEAN, faults \in Nat, RE!Fault(ok)
    PROVE  faults' \in Nat /\ (ok => faults' = faults) /\ (~ok => faults' # 0)
BY DEF RE!Fault

\* A log is read into a new table, or into none.
LEMMA RepairConvertLog ==
    ASSUME RepairInv, NEW log \in todoLogs, NEW ok \in BOOLEAN, RE!ConvertLog(log, ok)
    PROVE  RepairInv'
<1>1. /\ repair = "logs" /\ repair' = "archive" /\ next' = next + 1 /\ copy'.src = log /\ log \in DOMAIN logs
      /\ readable' = readable /\ logs' = logs /\ lost' = lost /\ current' = current
      /\ todoLogs' = todoLogs /\ kept' = kept /\ stops' = stops
      /\ faults' \in Nat /\ (ok => faults' = faults) /\ (~ok => faults' # 0)
  BY FaultCounted DEF RE!ConvertLog, RE!NoCopy, RepairInv, RepairType, Remembers
<1>2. /\ DOMAIN logs \subseteq Nat /\ DOMAIN tables \subseteq Nat
      /\ logs \in [DOMAIN logs -> Contents] /\ tables \in [DOMAIN tables -> Contents]
      /\ next \in Nat /\ (\A n \in DOMAIN logs \cup DOMAIN tables : n < next) /\ logs[log] \in Contents
  BY <1>1 DEF RepairInv, RepairType, Remembers
<1>3. \/ tables' = tables /\ todoTables' = todoTables /\ (ok => logs[log].entries = {})
      \/ /\ DOMAIN tables' = DOMAIN tables \cup {next} /\ tables' \in [DOMAIN tables' -> Contents]
         /\ tables'[next].entries = logs[log].entries /\ todoTables' = todoTables \cup {next}
         /\ \A i \in DOMAIN tables : tables'[i] = tables[i]
  <2>1. CASE ok /\ logs[log].entries # {}
    <3>1. tables' = RE!With(tables, next, RE!File(logs[log].entries, FALSE)) /\ todoTables' = todoTables \cup {next}
      BY <2>1 DEF RE!ConvertLog
    <3>2. RE!File(logs[log].entries, FALSE) \in Contents /\ RE!File(logs[log].entries, FALSE).entries = logs[log].entries
      BY <1>2, ContentsOf DEF Contents
    <3>3. next \notin DOMAIN tables
      BY <1>2
    <3> DEFINE x == RE!File(logs[log].entries, FALSE)
    <3> HIDE DEF x
    <3>4. /\ DOMAIN RE!With(tables, next, x) = DOMAIN tables \cup {next}
          /\ RE!With(tables, next, x) \in [DOMAIN RE!With(tables, next, x) -> Contents]
          /\ RE!With(tables, next, x)[next] = x
          /\ \A i \in DOMAIN tables \ {next} : RE!With(tables, next, x)[i] = tables[i]
      BY <3>2, <1>2, WithFile, ZenonT(60) DEF x
    <3> QED
      BY <3>1, <3>2, <3>3, <3>4 DEF x
  <2>2. CASE ~(ok /\ logs[log].entries # {})
    BY <2>2 DEF RE!ConvertLog
  <2> QED
    BY <2>1, <2>2
<1>4. /\ DOMAIN tables \subseteq DOMAIN tables' /\ DOMAIN tables' \subseteq DOMAIN tables \cup {next}
      /\ tables' \in [DOMAIN tables' -> Contents] /\ (\A i \in DOMAIN tables : tables'[i] = tables[i])
      /\ todoTables \subseteq todoTables' /\ todoTables' \subseteq todoTables \cup {next}
      /\ next \in todoTables' => next \in DOMAIN tables'
  <2>1. todoTables \subseteq DOMAIN tables /\ next \notin DOMAIN tables
    BY <1>1, <1>2 DEF RepairInv, Remembers
  <2> QED
    BY <1>2, <1>3, <2>1
<1>5. RepairType'
  <2>1. next' \in Nat /\ \A n \in (DOMAIN logs \cup DOMAIN tables)' : n <= next'
    BY <1>1, <1>2, <1>4
  <2> QED
    BY <2>1, <1>1, <1>2, <1>4 DEF RepairInv, RepairType, Phases
<1>6. (\A e \in readable : Somewhere(e))'
  BY <1>1, <1>4 DEF RepairInv, Somewhere
<1>7. Remembers'
  <2>1. next' \in Nat /\ \A n \in (DOMAIN logs \cup DOMAIN tables)' : n < next'
    BY <1>1, <1>2, <1>4
  <2>2. next \notin DOMAIN tables
    BY <1>2
  <2> QED
    BY <2>1, <2>2, <1>1, <1>4 DEF RepairInv, Remembers
<1>8. NothingPassed'
  <2> SUFFICES ASSUME faults' = 0, stops = 0, NEW e \in readable
               PROVE  Reached(e)'
    BY <1>1 DEF NothingPassed
  <2>1. ok /\ faults = 0 /\ Reached(e)
    BY <1>1 DEF RepairInv, NothingPassed
  <2>2. kept \subseteq DOMAIN tables /\ todoTables \subseteq DOMAIN tables
    BY <1>1 DEF RepairInv, Remembers
  <2>3. CASE e \in logs[log].entries
    <3>1. next \in todoTables' /\ e \in tables'[next].entries
      BY <2>1, <2>3, <1>3
    <3> QED
      BY <3>1 DEF Reached
  <2>4. CASE e \notin logs[log].entries
    BY <2>1, <2>2, <2>4, <1>1, <1>4 DEF Reached
  <2> QED
    BY <2>3, <2>4
<1> QED
  BY <1>1, <1>5, <1>6, <1>7, <1>8 DEF RepairInv, Copies, Described

\* A log is archived: its entries are in "lost".
LEMMA RepairArchiveLog ==
    ASSUME RepairInv, NEW ok \in BOOLEAN, RE!ArchiveLog(ok)
    PROVE  RepairInv'
<1> DEFINE log == copy.src
<1>1. /\ repair = "archive" /\ repair' = "logs" /\ todoLogs' = todoLogs \ {log} /\ log \in todoLogs
      /\ readable' = readable /\ tables' = tables /\ current' = current /\ todoTables' = todoTables
      /\ next' = next /\ kept' = kept /\ stops' = stops /\ log \in DOMAIN logs
      /\ faults' \in Nat /\ (ok => faults' = faults) /\ (~ok => faults' # 0)
  BY FaultCounted DEF RE!ArchiveLog, RepairInv, RepairType, Remembers
<1>2. /\ DOMAIN logs \subseteq Nat /\ DOMAIN tables \subseteq Nat
      /\ logs \in [DOMAIN logs -> Contents] /\ tables \in [DOMAIN tables -> Contents]
      /\ next \in Nat /\ (\A n \in DOMAIN logs \cup DOMAIN tables : n < next) /\ logs[log] \in Contents
  BY <1>1 DEF RepairInv, RepairType, Remembers
<1>3. \/ logs' = logs /\ lost' = lost
      \/ /\ DOMAIN logs' = DOMAIN logs \ {log} /\ logs' \in [DOMAIN logs' -> Contents]
         /\ \A i \in DOMAIN logs \ {log} : logs'[i] = logs[i]
         /\ lost' = lost \cup logs[log].entries
  BY <1>2, WithoutFile DEF RE!ArchiveLog
<1>4. /\ DOMAIN logs' \subseteq DOMAIN logs /\ DOMAIN logs \ {log} \subseteq DOMAIN logs'
      /\ logs' \in [DOMAIN logs' -> Contents] /\ \A i \in DOMAIN logs' : logs'[i] = logs[i]
      /\ lost \subseteq lost' /\ lost' \subseteq lost \cup logs[log].entries
      /\ log \in DOMAIN logs' \/ logs[log].entries \subseteq lost'
  BY <1>1, <1>2, <1>3
<1>5. RepairType'
  <2>1. next \in Nat /\ \A n \in (DOMAIN logs \cup DOMAIN tables)' : n <= next
    BY <1>1, <1>2, <1>4
  <2> QED
    BY <2>1, <1>1, <1>2, <1>4 DEF RepairInv, RepairType, Phases, Contents
<1>6. (\A e \in readable : Somewhere(e))'
  <2> SUFFICES ASSUME NEW e \in readable
               PROVE  Somewhere(e)'
    BY <1>1
  <2>1. Somewhere(e)
    BY DEF RepairInv
  <2>2. CASE \E l \in DOMAIN logs : e \in logs[l].entries
    BY <2>2, <1>4 DEF Somewhere
  <2> QED
    BY <2>1, <2>2, <1>1, <1>4 DEF Somewhere
<1>7. Remembers'
  BY <1>1, <1>2, <1>4 DEF RepairInv, Remembers
<1>8. NothingPassed'
  <2> SUFFICES ASSUME faults' = 0, stops = 0, NEW e \in readable
               PROVE  Reached(e)'
    BY <1>1 DEF NothingPassed
  <2>1. Reached(e)
    BY <1>1 DEF RepairInv, NothingPassed
  <2>2. todoLogs \subseteq DOMAIN logs
    BY <1>1 DEF RepairInv, Remembers
  <2> QED
    BY <2>1, <2>2, <1>1, <1>4 DEF Reached
<1> QED
  BY <1>1, <1>5, <1>6, <1>7, <1>8 DEF RepairInv, Copies, Described

\* What a table is that the scan finds.
LEMMA RepairScanTable ==
    ASSUME RepairInv, NEW n \in todoTables, RE!ScanTable(n)
    PROVE  RepairInv'
<1>1. /\ repair = "scan" /\ todoTables' = todoTables \ {n} /\ n \in DOMAIN tables /\ n \notin kept /\ todoLogs = {}
      /\ readable' = readable /\ logs' = logs /\ current' = current /\ todoLogs' = todoLogs /\ stops' = stops
      /\ faults \in Nat
  BY DEF RE!ScanTable, RepairInv, RepairType, Remembers
<1>2. /\ DOMAIN logs \subseteq Nat /\ DOMAIN tables \subseteq Nat
      /\ logs \in [DOMAIN logs -> Contents] /\ tables \in [DOMAIN tables -> Contents]
      /\ next \in Nat /\ (\A i \in DOMAIN logs \cup DOMAIN tables : i < next) /\ tables[n] \in Contents
      /\ todoTables \subseteq DOMAIN tables /\ kept \subseteq DOMAIN tables
  BY <1>1 DEF RepairInv, RepairType, Remembers
<1>3. CASE ~tables[n].damaged /\ kept' = kept \cup {n} /\ UNCHANGED <<repair, tables, lost, copy, next, faults>>
  <2>1. RepairType' /\ (\A e \in readable : Somewhere(e))' /\ Remembers' /\ Copies' /\ Described'
    BY <1>1, <1>3 DEF RepairInv, RepairType, Phases, Somewhere, Remembers, Copies, Described
  <2>2. NothingPassed'
    BY <1>1, <1>3 DEF RepairInv, NothingPassed, Reached
  <2> QED
    BY <2>1, <2>2 DEF RepairInv
<1>4. CASE /\ RE!Fault(FALSE) /\ tables' = RE!Without(tables, n) /\ lost' = lost \cup tables[n].entries
           /\ UNCHANGED <<repair, copy, next, kept>>
  <2>1. faults' \in Nat /\ faults' # 0
    BY <1>1, <1>4, FaultCounted
  <2>2. /\ DOMAIN tables' = DOMAIN tables \ {n} /\ tables' \in [DOMAIN tables' -> Contents]
        /\ \A i \in DOMAIN tables \ {n} : tables'[i] = tables[i]
    BY <1>2, <1>4, WithoutFile
  <2>3. RepairType'
    BY <1>1, <1>2, <1>4, <2>1, <2>2 DEF RepairInv, RepairType, Phases, Contents
  <2>4. (\A e \in readable : Somewhere(e))'
    <3> SUFFICES ASSUME NEW e \in readable
                 PROVE  Somewhere(e)'
      BY <1>1
    <3>1. Somewhere(e)
      BY DEF RepairInv
    <3> QED
      BY <3>1, <2>2, <1>1, <1>4 DEF Somewhere
  <2>5. Remembers' /\ Copies' /\ NothingPassed' /\ Described'
    BY <1>1, <1>2, <1>4, <2>1, <2>2 DEF RepairInv, Remembers, Copies, NothingPassed, Described
  <2> QED
    BY <2>3, <2>4, <2>5 DEF RepairInv
<1>5. CASE /\ tables[n].damaged /\ UNCHANGED <<lost, kept>> /\ next' = next + 1
           /\ repair' = "source" /\ copy' = [number |-> next, src |-> n] /\ UNCHANGED faults
           /\ tables' = RE!With(tables, next, RE!File({}, TRUE))
  <2>1. /\ DOMAIN tables' = DOMAIN tables \cup {next} /\ tables' \in [DOMAIN tables' -> Contents]
        /\ tables'[next].entries = {} /\ next \notin DOMAIN tables
        /\ \A i \in DOMAIN tables : tables'[i] = tables[i]
    <3> DEFINE x == RE!File({}, TRUE)
    <3>1. x \in Contents /\ x.entries = {}
      <4>1. {} \in SUBSET Entries /\ TRUE \in BOOLEAN
        OBVIOUS
      <4> QED
        BY <4>1, ContentsOf
    <3>4. next \in Nat /\ next \notin DOMAIN tables /\ DOMAIN tables \subseteq Nat /\ tables \in [DOMAIN tables -> Contents]
      <4>1. \A i \in DOMAIN tables : i # next
        BY <1>2
      <4> QED
        BY <4>1, <1>2
    <3>2. tables' = RE!With(tables, next, x)
      BY <1>5
    <3> HIDE DEF x
    <3>3. /\ DOMAIN RE!With(tables, next, x) = DOMAIN tables \cup {next}
          /\ RE!With(tables, next, x) \in [DOMAIN RE!With(tables, next, x) -> Contents]
          /\ RE!With(tables, next, x)[next] = x
          /\ \A i \in DOMAIN tables \ {next} : RE!With(tables, next, x)[i] = tables[i]
      <4>1. DOMAIN tables \subseteq Nat /\ tables \in [DOMAIN tables -> Contents] /\ next \in Nat /\ x \in Contents
        BY <3>1, <3>4
      <4> QED
        BY ONLY <4>1, WithFile, ZenonT(60)
    <3> QED
      BY <3>1, <3>2, <3>3, <3>4
  <2>7. next' \in Nat /\ DOMAIN tables' \subseteq Nat /\ \A i \in DOMAIN logs' \cup DOMAIN tables' : i < next' /\ i <= next'
    <3>1. next' = next + 1 /\ DOMAIN logs' = DOMAIN logs /\ DOMAIN tables' = DOMAIN tables \cup {next}
      BY <1>1, <1>5, <2>1
    <3>2. \A i \in DOMAIN logs \cup DOMAIN tables : i \in Nat /\ i < next
      BY <1>2
    <3>3. next \in Nat
      BY <1>2
    <3> QED
      BY <3>1, <3>2, <3>3
  <2>2. RepairType'
    <3>1. next' \in Nat /\ \A i \in (DOMAIN logs \cup DOMAIN tables)' : i <= next'
      BY <2>7
    <3> QED
      BY <3>1, <1>1, <1>2, <1>5, <2>1, <2>7 DEF RepairInv, RepairType, Phases
  <2>3. (\A e \in readable : Somewhere(e))'
    BY <1>1, <1>5, <2>1 DEF RepairInv, Somewhere
  <2>4. Remembers'
    <3>1. next' \in Nat /\ \A i \in (DOMAIN logs \cup DOMAIN tables)' : i < next'
      BY <2>7
    <3> QED
      BY <3>1, <1>1, <1>2, <1>5, <2>1 DEF RepairInv, Remembers
  <2>5. Copies'
    <3>1. /\ next \in DOMAIN tables' /\ next # n /\ next \notin todoTables \cup kept /\ n \notin todoTables' \cup kept
          /\ n \in Nat /\ n < next' /\ n \in DOMAIN tables'
      BY <1>1, <1>2, <2>1, <2>7
    <3>2. /\ copy'.number = next /\ copy'.src = n /\ repair' = "source" /\ kept' = kept
          /\ todoTables' \subseteq todoTables
      BY <1>1, <1>5
    <3> QED
      BY <3>1, <3>2, <2>1 DEF Copies
  <2>6. NothingPassed'
    BY <1>1, <1>2, <1>5, <2>1, ZenonT(60) DEF RepairInv, NothingPassed, Reached
  <2> QED
    BY <2>2, <2>3, <2>4, <2>5, <2>6, <1>5 DEF RepairInv, Described
<1>6. CASE /\ tables[n].damaged /\ UNCHANGED <<lost, kept>> /\ next' = next + 1
           /\ RE!Fault(FALSE) /\ UNCHANGED <<repair, copy, tables>>
  <2>1. faults' \in Nat /\ faults' # 0
    BY <1>1, <1>6, FaultCounted
  <2>2. next' \in Nat /\ \A i \in (DOMAIN logs \cup DOMAIN tables)' : i < next'
    BY <1>1, <1>2, <1>6
  <2> QED
    BY <1>1, <1>2, <1>6, <2>1, <2>2
       DEF RepairInv, RepairType, Phases, Somewhere, Remembers, Copies, NothingPassed, Described
<1> QED
  BY <1>3, <1>4, <1>5, <1>6 DEF RE!ScanTable

\* The copy has a part of the source, which is archived or stays.
LEMMA RepairArchiveSource ==
    ASSUME RepairInv, NEW ok \in BOOLEAN, RE!ArchiveSource(ok)
    PROVE  RepairInv'
<1> DEFINE c == copy.number
           s == copy.src
<1>1. /\ repair = "source" /\ readable' = readable /\ logs' = logs /\ current' = current /\ todoLogs' = todoLogs
      /\ todoTables' = todoTables /\ next' = next /\ kept' = kept /\ stops' = stops /\ todoLogs = {}
      /\ repair' = IF tables[s].entries = {} THEN "scan" ELSE "finish"
      /\ copy' = [number |-> c, src |-> s, entries |-> tables[s].entries]
      /\ lost' = IF ok THEN lost \cup tables[s].entries ELSE lost
      /\ faults' \in Nat /\ (ok => faults' = faults) /\ (~ok => faults' # 0)
  BY FaultCounted DEF RE!ArchiveSource, RepairInv, RepairType, Remembers
<1>2. /\ DOMAIN logs \subseteq Nat /\ DOMAIN tables \subseteq Nat
      /\ logs \in [DOMAIN logs -> Contents] /\ tables \in [DOMAIN tables -> Contents]
      /\ next \in Nat /\ (\A i \in DOMAIN logs \cup DOMAIN tables : i < next)
      /\ todoTables \subseteq DOMAIN tables /\ kept \subseteq DOMAIN tables \ todoTables
  BY <1>1 DEF RepairInv, RepairType, Remembers
<1>3. /\ c \in DOMAIN tables /\ s \in DOMAIN tables /\ c # s /\ c \notin todoTables \cup kept /\ s \notin todoTables \cup kept
      /\ tables[c].entries = {} /\ tables[s] \in Contents /\ tables[s].entries \subseteq Entries
  BY <1>1, <1>2 DEF RepairInv, Copies, Contents
<1>4. PICK part \in SUBSET tables[s].entries :
          tables' = RE!With(IF ok THEN RE!Without(tables, s) ELSE tables, c, RE!File(part, TRUE))
  BY DEF RE!ArchiveSource
<1>5. /\ DOMAIN tables' = IF ok THEN DOMAIN tables \ {s} ELSE DOMAIN tables
      /\ tables' \in [DOMAIN tables' -> Contents]
      /\ tables'[c].entries = part
      /\ \A i \in DOMAIN tables' \ {c} : tables'[i] = tables[i]
  <2> DEFINE f == IF ok THEN RE!Without(tables, s) ELSE tables
             x == RE!File(part, TRUE)
  <2>1. /\ DOMAIN f = IF ok THEN DOMAIN tables \ {s} ELSE DOMAIN tables
        /\ f \in [DOMAIN f -> Contents] /\ \A i \in DOMAIN f : f[i] = tables[i]
    BY <1>2, WithoutFile
  <2>2. x \in Contents /\ x.entries = part
    BY <1>3, ContentsOf
  <2>3. tables' = RE!With(f, c, x) /\ DOMAIN f \subseteq Nat /\ c \in Nat
    BY <1>2, <1>3, <1>4, <2>1
  <2> HIDE DEF f, x
  <2>4. /\ DOMAIN RE!With(f, c, x) = DOMAIN f \cup {c}
        /\ RE!With(f, c, x) \in [DOMAIN RE!With(f, c, x) -> Contents]
        /\ RE!With(f, c, x)[c] = x
        /\ \A i \in DOMAIN f \ {c} : RE!With(f, c, x)[i] = f[i]
    BY <2>1, <2>2, <2>3, WithFile, ZenonT(60)
  <2>5. DOMAIN f \cup {c} = DOMAIN f
    BY <1>3, <2>1
  <2> QED
    BY <2>1, <2>2, <2>3, <2>4, <2>5
<1>6. RepairType'
  <2>1. next \in Nat /\ \A i \in (DOMAIN logs \cup DOMAIN tables)' : i <= next
    BY <1>1, <1>2, <1>5
  <2>2. lost' \subseteq Entries
    BY <1>1, <1>3 DEF RepairInv, RepairType
  <2>3. repair' \in Phases /\ DOMAIN tables' \subseteq Nat
    BY <1>1, <1>2, <1>5 DEF Phases
  <2> QED
    BY <2>1, <2>2, <2>3, <1>1, <1>2, <1>5 DEF RepairInv, RepairType
<1>7. (\A e \in readable : Somewhere(e))'
  <2> SUFFICES ASSUME NEW e \in readable
               PROVE  Somewhere(e)'
    BY <1>1
  <2>1. Somewhere(e)
    BY DEF RepairInv
  <2>2. CASE \E i \in DOMAIN tables : e \in tables[i].entries
    <3>1. PICK i \in DOMAIN tables : e \in tables[i].entries
      BY <2>2
    <3>2. i # c
      BY <3>1, <1>3
    <3>3. \/ ok /\ i = s /\ e \in lost'
          \/ i \in DOMAIN tables' /\ e \in tables'[i].entries
      BY <3>1, <3>2, <1>1, <1>5
    <3> QED
      BY <3>3 DEF Somewhere
  <2>3. CASE e \in lost \/ \E l \in DOMAIN logs : e \in logs[l].entries
    BY <2>3, <1>1 DEF Somewhere
  <2> QED
    BY <2>1, <2>2, <2>3 DEF Somewhere
<1>8. Remembers'
  <2>1. \A i \in (DOMAIN logs \cup DOMAIN tables)' : i < next'
    BY <1>1, <1>2, <1>5
  <2>2. todoTables' \subseteq DOMAIN tables' /\ kept' \subseteq DOMAIN tables' \ todoTables'
    BY <1>1, <1>2, <1>3, <1>5
  <2>3. \A i \in kept : tables'[i] = tables[i]
    BY <1>1, <1>3, <1>5, <2>2
  <2> QED
    BY <2>1, <2>2, <2>3, <1>1, <1>2 DEF RepairInv, Remembers
<1>9. Copies'
  <2>1. /\ c \in DOMAIN tables' /\ s \in Nat /\ s < next /\ tables'[c].entries \subseteq tables[s].entries
        /\ s \in DOMAIN tables' => tables'[s] = tables[s]
        /\ s \notin DOMAIN tables' => tables[s].entries \subseteq lost'
    BY <1>1, <1>2, <1>3, <1>5
  <2>2. copy'.number = c /\ copy'.src = s /\ copy'.entries = tables[s].entries /\ repair' \in {"scan", "finish"}
    BY <1>1
  <2> QED
    BY <2>1, <2>2, <1>1, <1>3 DEF Copies
<1>10. NothingPassed'
  <2> SUFFICES ASSUME faults' = 0, stops = 0, NEW e \in readable
               PROVE  Reached(e)'
    BY <1>1 DEF NothingPassed
  <2>1. Reached(e)
    BY <1>1 DEF RepairInv, NothingPassed
  <2>2. CASE \E i \in todoTables \cup kept : e \in tables[i].entries
    <3>1. PICK i \in todoTables \cup kept : e \in tables[i].entries
      BY <2>2
    <3>2. tables'[i] = tables[i]
      BY <3>1, <1>2, <1>3, <1>5
    <3> QED
      BY <3>1, <3>2, <1>1 DEF Reached
  <2>3. CASE e \in tables[s].entries
    BY <2>3, <1>1 DEF Reached
  <2> QED
    BY <2>1, <2>2, <2>3, <1>1 DEF Reached
<1>11. Described'
  BY <1>1 DEF Described
<1> QED
  BY <1>6, <1>7, <1>8, <1>9, <1>10, <1>11 DEF RepairInv

\* The copy is whole, or is deleted while the source is still there or in "lost".
LEMMA RepairFinishCopy ==
    ASSUME RepairInv, NEW ok \in BOOLEAN, RE!FinishCopy(ok)
    PROVE  RepairInv'
<1> DEFINE c == copy.number
           s == copy.src
<1>1. /\ repair = "finish" /\ readable' = readable /\ logs' = logs /\ current' = current /\ todoLogs' = todoLogs
      /\ todoTables' = todoTables /\ next' = next /\ kept' = kept /\ stops' = stops /\ todoLogs = {}
      /\ repair' = (IF ok THEN "rename" ELSE "scan") /\ copy' = copy /\ lost' = lost
      /\ faults' \in Nat /\ (ok => faults' = faults) /\ (~ok => faults' # 0)
  BY FaultCounted DEF RE!FinishCopy, RepairInv, RepairType, Remembers
<1>2. /\ DOMAIN logs \subseteq Nat /\ DOMAIN tables \subseteq Nat
      /\ logs \in [DOMAIN logs -> Contents] /\ tables \in [DOMAIN tables -> Contents]
      /\ next \in Nat /\ (\A i \in DOMAIN logs \cup DOMAIN tables : i < next)
      /\ todoTables \subseteq DOMAIN tables /\ kept \subseteq DOMAIN tables \ todoTables
  BY <1>1 DEF RepairInv, RepairType, Remembers
<1>3. /\ c \in DOMAIN tables /\ c # s /\ c \notin todoTables \cup kept /\ copy.entries \subseteq Entries
      /\ tables[c].entries \subseteq copy.entries
      /\ s \in DOMAIN tables => tables[s].entries = copy.entries
      /\ s \notin DOMAIN tables => copy.entries \subseteq lost
  BY <1>1 DEF RepairInv, Copies
<1>4. /\ DOMAIN tables' = IF ok THEN DOMAIN tables ELSE DOMAIN tables \ {c}
      /\ tables' \in [DOMAIN tables' -> Contents]
      /\ ok => tables'[c] = [entries |-> copy.entries, damaged |-> FALSE]
      /\ \A i \in DOMAIN tables' \ {c} : tables'[i] = tables[i]
  <2>1. CASE ok
    <3> DEFINE x == RE!File(copy.entries, FALSE)
    <3>1. x \in Contents /\ x = [entries |-> copy.entries, damaged |-> FALSE]
      BY <1>3, ContentsOf DEF RE!File
    <3>2. tables' = [tables EXCEPT ![c] = x]
      BY <2>1 DEF RE!FinishCopy
    <3> HIDE DEF x
    <3> QED
      BY <2>1, <3>1, <3>2, <1>2, <1>3
  <2>2. CASE ~ok
    BY <2>2, <1>2, WithoutFile DEF RE!FinishCopy
  <2> QED
    BY <2>1, <2>2
<1>5. RepairType'
  <2>1. next \in Nat /\ \A i \in (DOMAIN logs \cup DOMAIN tables)' : i <= next
    BY <1>1, <1>2, <1>4
  <2>2. repair' \in Phases /\ DOMAIN tables' \subseteq Nat
    BY <1>1, <1>2, <1>4 DEF Phases
  <2> QED
    BY <2>1, <2>2, <1>1, <1>2, <1>4 DEF RepairInv, RepairType
<1>6. (\A e \in readable : Somewhere(e))'
  <2> SUFFICES ASSUME NEW e \in readable
               PROVE  Somewhere(e)'
    BY <1>1
  <2>1. Somewhere(e)
    BY DEF RepairInv
  <2>2. CASE \E i \in DOMAIN tables : e \in tables[i].entries
    <3>1. PICK i \in DOMAIN tables : e \in tables[i].entries
      BY <2>2
    <3>2. CASE i # c
      BY <3>1, <3>2, <1>4 DEF Somewhere
    <3>3. CASE i = c
      <4>1. e \in copy.entries
        BY <3>1, <3>3, <1>3
      <4>2. CASE s \in DOMAIN tables
        <5>1. s \in DOMAIN tables' /\ tables'[s].entries = copy.entries
          BY <4>2, <1>3, <1>4
        <5> QED
          BY <4>1, <5>1 DEF Somewhere
      <4> QED
        BY <4>1, <4>2, <1>1, <1>3 DEF Somewhere
    <3> QED
      BY <3>2, <3>3
  <2>3. CASE e \in lost \/ \E l \in DOMAIN logs : e \in logs[l].entries
    BY <2>3, <1>1 DEF Somewhere
  <2> QED
    BY <2>1, <2>2, <2>3 DEF Somewhere
<1>7. \A i \in todoTables \cup kept : i \in DOMAIN tables' /\ tables'[i] = tables[i]
  BY <1>2, <1>3, <1>4
<1>8. Remembers'
  <2>1. \A i \in (DOMAIN logs \cup DOMAIN tables)' : i < next'
    BY <1>1, <1>2, <1>4
  <2> QED
    BY <2>1, <1>1, <1>2, <1>7 DEF RepairInv, Remembers
<1>9. Copies'
  <2>1. CASE ok
    <3>1. s \in DOMAIN tables' => s \in DOMAIN tables /\ tables'[s] = tables[s]
      BY <1>3, <1>4
    <3>2. s \notin DOMAIN tables' => s \notin DOMAIN tables
      BY <2>1, <1>4
    <3> QED
      BY <2>1, <3>1, <3>2, <1>1, <1>3, <1>4 DEF RepairInv, Copies
  <2> QED
    BY <2>1, <1>1 DEF Copies
<1>10. NothingPassed'
  <2> SUFFICES ASSUME faults' = 0, stops = 0, NEW e \in readable
               PROVE  Reached(e)'
    BY <1>1 DEF NothingPassed
  <2>1. Reached(e) /\ ok
    BY <1>1 DEF RepairInv, NothingPassed
  <2> QED
    BY <2>1, <1>1, <1>7 DEF Reached
<1>11. Described'
  BY <1>1 DEF Described
<1> QED
  BY <1>5, <1>6, <1>8, <1>9, <1>10, <1>11 DEF RepairInv

\* The copy takes the place and the number of the source, or is deleted.
LEMMA RepairRenameCopy ==
    ASSUME RepairInv, NEW ok \in BOOLEAN, RE!RenameCopy(ok)
    PROVE  RepairInv'
<1> DEFINE c == copy.number
           s == copy.src
<1>1. /\ repair = "rename" /\ repair' = "scan" /\ readable' = readable /\ logs' = logs /\ current' = current
      /\ todoLogs' = todoLogs /\ todoTables' = todoTables /\ next' = next /\ stops' = stops /\ todoLogs = {}
      /\ kept' = (IF ok THEN kept \cup {s} ELSE kept) /\ lost' = lost
      /\ faults' \in Nat /\ (ok => faults' = faults) /\ (~ok => faults' # 0)
  BY FaultCounted DEF RE!RenameCopy, RepairInv, RepairType, Remembers
<1>2. /\ DOMAIN logs \subseteq Nat /\ DOMAIN tables \subseteq Nat
      /\ logs \in [DOMAIN logs -> Contents] /\ tables \in [DOMAIN tables -> Contents]
      /\ next \in Nat /\ (\A i \in DOMAIN logs \cup DOMAIN tables : i < next)
      /\ todoTables \subseteq DOMAIN tables /\ kept \subseteq DOMAIN tables \ todoTables
  BY <1>1 DEF RepairInv, RepairType, Remembers
<1>3. /\ c \in DOMAIN tables /\ c # s /\ c \notin todoTables \cup kept /\ s \notin todoTables \cup kept
      /\ s \in Nat /\ s < next /\ tables[c] \in Contents /\ tables[c].entries = copy.entries /\ ~tables[c].damaged
      /\ s \in DOMAIN tables => tables[s].entries = copy.entries
      /\ s \notin DOMAIN tables => copy.entries \subseteq lost
  BY <1>1, <1>2 DEF RepairInv, Copies
<1>4. /\ DOMAIN tables' = IF ok THEN (DOMAIN tables \ {c}) \cup {s} ELSE DOMAIN tables \ {c}
      /\ tables' \in [DOMAIN tables' -> Contents]
      /\ ok => tables'[s] = tables[c]
      /\ \A i \in DOMAIN tables \ {c} : i = s \/ tables'[i] = tables[i]
      /\ ~ok => \A i \in DOMAIN tables \ {c} : tables'[i] = tables[i]
  <2> DEFINE f == RE!Without(tables, c)
             x == tables[c]
  <2>1. DOMAIN f = DOMAIN tables \ {c} /\ f \in [DOMAIN f -> Contents] /\ \A i \in DOMAIN tables \ {c} : f[i] = tables[i]
    BY <1>2, WithoutFile
  <2>2. tables' = IF ok THEN RE!With(f, s, x) ELSE f
    BY DEF RE!RenameCopy
  <2>3. x \in Contents /\ s \in Nat /\ DOMAIN f \subseteq Nat
    BY <1>2, <1>3, <2>1
  <2> HIDE DEF f
  <2>4. /\ DOMAIN RE!With(f, s, x) = DOMAIN f \cup {s}
        /\ RE!With(f, s, x) \in [DOMAIN RE!With(f, s, x) -> Contents]
        /\ RE!With(f, s, x)[s] = x
        /\ \A i \in DOMAIN f \ {s} : RE!With(f, s, x)[i] = f[i]
    <3> HIDE DEF x
    <3>1. DOMAIN f \subseteq Nat /\ f \in [DOMAIN f -> Contents] /\ s \in Nat /\ x \in Contents
      BY <2>1, <2>3
    <3> HIDE DEF s
    <3> QED
      BY ONLY <3>1, WithFile, ZenonT(60)
  <2>5. CASE ok
    BY <2>1, <2>2, <2>4, <2>5
  <2>6. CASE ~ok
    BY <2>1, <2>2, <2>6
  <2> QED
    BY <2>5, <2>6
<1>5. next \in Nat /\ DOMAIN tables' \subseteq Nat /\ \A i \in DOMAIN logs' \cup DOMAIN tables' : i < next' /\ i <= next'
  <2>1. \A i \in DOMAIN tables' : i \in DOMAIN tables \/ i = s
    BY <1>4
  <2> QED
    BY <2>1, <1>1, <1>2, <1>3
<1>6. RepairType'
  BY <1>1, <1>2, <1>4, <1>5 DEF RepairInv, RepairType, Phases
<1>7. (\A e \in readable : Somewhere(e))'
  <2> SUFFICES ASSUME NEW e \in readable
               PROVE  Somewhere(e)'
    BY <1>1
  <2>1. Somewhere(e)
    BY DEF RepairInv
  <2>2. CASE \E i \in DOMAIN tables : e \in tables[i].entries
    <3>1. PICK i \in DOMAIN tables : e \in tables[i].entries
      BY <2>2
    <3>2. CASE i # c /\ i # s
      BY <3>1, <3>2, <1>4 DEF Somewhere
    <3>3. CASE i = c \/ i = s
      <4>1. e \in copy.entries
        BY <3>1, <3>3, <1>3
      <4>2. CASE ok
        BY <4>1, <4>2, <1>3, <1>4 DEF Somewhere
      <4>3. CASE ~ok /\ s \in DOMAIN tables
        BY <4>1, <4>3, <1>3, <1>4 DEF Somewhere
      <4> QED
        BY <4>1, <4>2, <4>3, <1>1, <1>3 DEF Somewhere
    <3> QED
      BY <3>2, <3>3
  <2>3. CASE e \in lost \/ \E l \in DOMAIN logs : e \in logs[l].entries
    BY <2>3, <1>1 DEF Somewhere
  <2> QED
    BY <2>1, <2>2, <2>3 DEF Somewhere
<1>7a. \A i \in todoTables \cup kept : i \in DOMAIN tables' /\ tables'[i] = tables[i]
  BY <1>2, <1>3, <1>4
<1>8. Remembers'
  <2>1. todoTables' \subseteq DOMAIN tables' /\ kept' \subseteq DOMAIN tables' \ todoTables'
    BY <1>1, <1>2, <1>3, <1>4, <1>7a
  <2>2. \A i \in kept' : ~tables'[i].damaged
    BY <1>1, <1>2, <1>3, <1>4, <1>7a DEF RepairInv, Remembers
  <2> QED
    BY <2>1, <2>2, <1>1, <1>2, <1>5 DEF Remembers
<1>9. NothingPassed'
  <2> SUFFICES ASSUME faults' = 0, stops = 0, NEW e \in readable
               PROVE  Reached(e)'
    BY <1>1 DEF NothingPassed
  <2>1. Reached(e) /\ ok
    BY <1>1 DEF RepairInv, NothingPassed
  <2>2. CASE \E i \in todoTables \cup kept : e \in tables[i].entries
    BY <2>1, <2>2, <1>1, <1>7a DEF Reached
  <2>3. CASE e \in copy.entries
    <3>1. s \in kept' /\ e \in tables'[s].entries
      BY <2>1, <2>3, <1>1, <1>3, <1>4
    <3> QED
      BY <3>1 DEF Reached
  <2> QED
    BY <2>1, <2>2, <2>3, <1>1 DEF Reached
<1> QED
  BY <1>1, <1>6, <1>7, <1>8, <1>9 DEF RepairInv, Copies, Described

\* The descriptor has the tables that are kept, and numbers beyond what they hold.
LEMMA RepairWriteDescriptor ==
    ASSUME RepairInv, NEW ok \in BOOLEAN, RE!WriteDescriptor(ok)
    PROVE  RepairInv'
<1>1. /\ repair = "scan" /\ readable' = readable /\ logs' = logs /\ tables' = tables /\ lost' = lost
      /\ todoLogs' = todoLogs /\ todoTables' = todoTables /\ next' = next /\ kept' = kept /\ copy' = copy
      /\ stops' = stops /\ todoTables = {} /\ repair' = (IF ok THEN "done" ELSE "failed")
      /\ faults' \in Nat /\ (ok => faults' = faults) /\ (~ok => faults' # 0)
  BY FaultCounted DEF RE!WriteDescriptor, RepairInv, RepairType
<1>2. RepairType' /\ (\A e \in readable : Somewhere(e))' /\ Remembers' /\ Copies'
  BY <1>1 DEF RepairInv, RepairType, Phases, Somewhere, Remembers, Copies
<1>3. NothingPassed'
  BY <1>1 DEF RepairInv, NothingPassed, Reached
<1>4. Described'
  <2> SUFFICES ASSUME ok
               PROVE  Described'
    BY <1>1 DEF Described
  <2> DEFINE S == UNION {tables[n].entries : n \in kept}
  <2>1. current' = [tables |-> kept, next |-> next, last |-> RE!Max({0} \cup S), ok |-> TRUE]
    BY <1>1 DEF RE!WriteDescriptor
  <2>2. S \in SUBSET Entries
    BY <1>1 DEF RepairInv, RepairType, Remembers, Contents
  <2>3. \A n \in kept : tables[n].entries \subseteq S
    OBVIOUS
  <2>4. PICK b \in Nat : \A e \in Entries : e <= b
    BY PartsAssumption, FiniteBound
  <2> HIDE DEF S
  <2>5. S \in SUBSET Nat /\ \A e \in S : e <= b
    BY <2>2, <2>4, PartsAssumption
  <2>6. \A e \in S : e <= RE!Max({0} \cup S)
    BY <2>5, MaxOfBounded
  <2> QED
    BY <1>1, <2>1, <2>3, <2>6 DEF Described
<1> QED
  BY <1>2, <1>3, <1>4 DEF RepairInv

\* Wherever RepairDB fails or is stopped, an entry that could be read can still be read,
\* from a file of the database or from "lost"; a repair that succeeds leads to tables that
\* are there and whole, to numbers beyond them and, without a failure, to every entry.
THEOREM RepairsKeepAll == RE!Spec => []RepairKeepsAll
<1>1. RE!Init => RepairInv
  BY RepairInit
<1>2. RepairInv /\ [RE!Next]_(RE!vars) => RepairInv'
  <2> SUFFICES ASSUME RepairInv, [RE!Next]_(RE!vars)
               PROVE  RepairInv'
    OBVIOUS
  <2>1. CASE RE!FindFiles \/ RE!LogsDone \/ RE!Crash
    BY <2>1, RepairFindFiles, RepairLogsDone, RepairCrash
  <2>2. ASSUME NEW n \in todoTables, RE!ScanTable(n)
        PROVE  RepairInv'
    BY <2>2, RepairScanTable
  <2>3. ASSUME NEW ok \in BOOLEAN,
               \/ \E log \in todoLogs : RE!ConvertLog(log, ok)
               \/ RE!ArchiveLog(ok) \/ RE!ArchiveSource(ok) \/ RE!FinishCopy(ok)
               \/ RE!RenameCopy(ok) \/ RE!WriteDescriptor(ok)
        PROVE  RepairInv'
    BY <2>3, RepairConvertLog, RepairArchiveLog, RepairArchiveSource, RepairFinishCopy, RepairRenameCopy,
       RepairWriteDescriptor
  <2>4. CASE UNCHANGED RE!vars
    BY <2>4 DEF RE!vars, RE!repairVars, RepairInv, RepairType, Somewhere, Remembers, Copies, NothingPassed, Reached,
       Described
  <2> QED
    BY <2>1, <2>2, <2>3, <2>4 DEF RE!Next
<1>3. RepairInv => RepairKeepsAll
  <2> SUFFICES ASSUME RepairInv
               PROVE  RepairKeepsAll
    OBVIOUS
  <2>1. RE!RepairDestroysNothing
    BY DEF RepairInv, Somewhere, RE!RepairDestroysNothing, RE!In
  <2>2. RE!RepairComplete
    <3> SUFFICES ASSUME repair = "done"
                 PROVE  /\ \A n \in kept :
                              /\ n \in DOMAIN tables /\ ~tables[n].damaged /\ n < next
                              /\ \A e \in tables[n].entries : e <= current.last
                        /\ faults = 0 /\ stops = 0 => readable \subseteq UNION {tables[n].entries : n \in kept}
      BY DEF RepairInv, Described, RE!RepairComplete
    <3>1. \A n \in kept :
             /\ n \in DOMAIN tables /\ ~tables[n].damaged /\ n < next
             /\ \A e \in tables[n].entries : e <= current.last
      BY DEF RepairInv, Remembers, Described
    <3>2. ASSUME faults = 0, stops = 0, NEW e \in readable
          PROVE  \E n \in kept : e \in tables[n].entries
      BY <3>2 DEF RepairInv, Remembers, Described, NothingPassed, Reached
    <3> QED
      BY <3>1, <3>2
  <2> QED
    BY <2>1, <2>2 DEF RepairKeepsAll
<1> QED
  BY <1>1, <1>2, <1>3, PTL DEF RE!Spec

-----------------------------------------------------------------------------
\* The arena of a memtable.

\* What Held adds up, up to the n-th block.
HeldUpTo(bs, n, f) == f = [i \in 0..n |-> IF i = 0 THEN 0 ELSE f[i - 1] + bs[i].length + Align]

\* The recursive function of Held exists.
LEMMA HeldDefined ==
    ASSUME NEW bs, NEW n \in Nat
    PROVE  \E f : HeldUpTo(bs, n, f)
<1> DEFINE S == {m \in Nat : \E f : HeldUpTo(bs, m, f)}
<1>1. 0 \in S
  <2> DEFINE f == [i \in 0..0 |-> 0]
  <2>1. f = [i \in 0..0 |-> IF i = 0 THEN 0 ELSE f[i - 1] + bs[i].length + Align]
    OBVIOUS
  <2> QED
    BY <2>1 DEF HeldUpTo
<1>2. ASSUME NEW m \in S
      PROVE  m + 1 \in S
  <2>1. PICK f : HeldUpTo(bs, m, f)
    OBVIOUS
  <2> DEFINE g == [i \in 0..(m + 1) |-> IF i # m + 1 THEN f[i] ELSE f[m] + bs[i].length + Align]
  <2>2. \A i \in 0..m : f[i] = IF i = 0 THEN 0 ELSE f[i - 1] + bs[i].length + Align
    BY <2>1 DEF HeldUpTo
  <2>3. \A i \in 0..m : g[i] = f[i]
    OBVIOUS
  <2>4. g[m + 1] = g[m] + bs[m + 1].length + Align
    BY <2>3
  <2>5. ASSUME NEW i \in 0..(m + 1)
        PROVE  g[i] = IF i = 0 THEN 0 ELSE g[i - 1] + bs[i].length + Align
    <3> HIDE DEF g
    <3>1. CASE i = m + 1
      BY <2>4, <3>1
    <3>2. CASE i \in 0..m
      <4>1. i # 0 => i - 1 \in 0..m
        BY <3>2
      <4> QED
        BY <2>2, <2>3, <3>2, <4>1
    <3> QED
      BY <3>1, <3>2
  <2>6. HeldUpTo(bs, m + 1, g)
    BY <2>5 DEF HeldUpTo
  <2> QED
    BY <2>6
<1>3. S \in SUBSET Nat
  OBVIOUS
<1>4. S = Nat
  <2> HIDE DEF S
  <2> QED
    BY <1>1, <1>2, <1>3, SetInduction
<1> QED
  BY <1>4

\* Held is the value of that function at the end.
LEMMA HeldLoop ==
    ASSUME NEW bs, Len(bs) \in Nat
    PROVE  \E f : HeldUpTo(bs, Len(bs), f) /\ AR!Held(bs) = f[Len(bs)]
<1> DEFINE f == CHOOSE f : HeldUpTo(bs, Len(bs), f)
<1>1. HeldUpTo(bs, Len(bs), f)
  <2>1. \E g : HeldUpTo(bs, Len(bs), g)
    BY HeldDefined
  <2> QED
    BY <2>1, Zenon
<1>2. AR!Held(bs) = f[Len(bs)]
  BY Zenon DEF AR!Held, HeldUpTo
<1> QED
  BY <1>1, <1>2

\* A block adds its length and its pointer.
LEMMA HeldAppend ==
    ASSUME NEW bs, NEW cs, NEW n \in Nat, Len(bs) = n, Len(cs) = n + 1,
           \A i \in 1..n : cs[i] = bs[i]
    PROVE  AR!Held(cs) = AR!Held(bs) + cs[n + 1].length + Align
<1>1. PICK f : HeldUpTo(bs, n, f) /\ AR!Held(bs) = f[n]
  BY HeldLoop
<1>2. PICK g : HeldUpTo(cs, n + 1, g) /\ AR!Held(cs) = g[n + 1]
  <2>1. Len(cs) \in Nat
    OBVIOUS
  <2> QED
    BY <2>1, HeldLoop
<1>3. \A i \in 0..n : f[i] = IF i = 0 THEN 0 ELSE f[i - 1] + bs[i].length + Align
  BY <1>1, Zenon DEF HeldUpTo
<1>4. \A i \in 0..(n + 1) : g[i] = IF i = 0 THEN 0 ELSE g[i - 1] + cs[i].length + Align
  BY <1>2, Zenon DEF HeldUpTo
<1> DEFINE S == {m \in Nat : m <= n => g[m] = f[m]}
<1>5. 0 \in S
  BY <1>3, <1>4
<1>6. ASSUME NEW m \in S
      PROVE  m + 1 \in S
  <2> SUFFICES ASSUME m + 1 <= n
               PROVE  g[m + 1] = f[m + 1]
    OBVIOUS
  <2>1. g[m] = f[m] /\ cs[m + 1] = bs[m + 1]
    OBVIOUS
  <2>2. f[m + 1] = f[m] + bs[m + 1].length + Align
    BY <1>3
  <2>3. g[m + 1] = g[m] + cs[m + 1].length + Align
    BY <1>4
  <2> QED
    BY <2>1, <2>2, <2>3
<1>7. S = Nat
  <2>1. S \in SUBSET Nat
    OBVIOUS
  <2> HIDE DEF S
  <2> QED
    BY <2>1, <1>5, <1>6, SetInduction
<1>8. g[n] = f[n]
  BY <1>7
<1>9. g[n + 1] = g[n] + cs[n + 1].length + Align
  <2>1. n + 1 \in 0..(n + 1) /\ n + 1 # 0 /\ (n + 1) - 1 = n
    OBVIOUS
  <2> QED
    BY <1>4, <2>1
<1> QED
  BY <1>1, <1>2, <1>8, <1>9

\* Left out bytes lead to an aligned address.
LEMMA SlopAligns ==
    ASSUME NEW at \in Nat
    PROVE  AR!Slop(at) \in Nat /\ (at + AR!Slop(at)) % Align = 0
<1>1. Align \in Nat \ {0}
  BY PartsAssumption
<1> DEFINE r == at % Align
<1>2. r \in 0..(Align - 1) /\ at = Align * (at \div Align) + r /\ at \div Align \in Int
  BY <1>1
<1>3. CASE r = 0
  <2>1. Align % Align = 0
    BY <1>1
  <2>2. AR!Slop(at) = 0
    BY <1>1, <1>3, <2>1 DEF AR!Slop
  <2> QED
    BY <1>3, <2>2
<1>4. CASE r # 0
  <2>1. AR!Slop(at) = Align - r
    BY <1>1, <1>2, <1>4 DEF AR!Slop
  <2>2. (at + (Align - (at % Align))) % Align = 0
    BY <1>1
  <2>3. AR!Slop(at) = Align - (at % Align)
    BY <2>1
  <2>4. AR!Slop(at) \in Nat
    BY <1>1, <1>2, <2>1
  <2> QED
    BY <2>2, <2>3, <2>4
<1> QED
  BY <1>3, <1>4

Blocks == [at : Nat, length : Nat]
Pieces == [at : Nat, length : Nat \ {0}, aligned : BOOLEAN]
Inside(at, n, b) == b.at <= at /\ at + n <= b.at + b.length
Apart(a, m, b, n) == a + m <= b \/ b + n <= a

\* Where the memory of the blocks ends.
EndOf(bs) == IF bs = <<>> THEN Align ELSE bs[Len(bs)].at + bs[Len(bs)].length

\* Blocks end before the next free address; pieces and what remains are in blocks, and
\* share nothing.
ArenaInv ==
    /\ memory \in Seq(Blocks) /\ \A i \in 1..Len(memory) : memory[i].at + memory[i].length <= EndOf(memory)
    /\ given \subseteq Pieces
    /\ \A p \in given : \E i \in 1..Len(memory) : Inside(p.at, p.length, memory[i])
    /\ \A p, q \in given : p # q => Apart(p.at, p.length, q.at, q.length)
    /\ \A p \in given : p.aligned => p.at % Align = 0
    /\ allocPtr \in Nat /\ allocBytesRemaining \in 0..ArenaBlock /\ allocPtr + allocBytesRemaining <= EndOf(memory)
    /\ allocBytesRemaining # 0 => \E i \in 1..Len(memory) : Inside(allocPtr, allocBytesRemaining, memory[i])
    /\ \A p \in given : Apart(p.at, p.length, allocPtr, allocBytesRemaining)
    /\ memoryUsage = AR!Held(memory)

\* A piece is cut from what remains.
LEMMA ArenaCut ==
    ASSUME ArenaInv, NEW slop \in Nat, NEW bytes \in Nat \ {0}, NEW aligned \in BOOLEAN,
           slop + bytes <= allocBytesRemaining, aligned => (allocPtr + slop) % Align = 0,
           AR!Cut(slop, bytes, aligned)
    PROVE  ArenaInv'
<1> DEFINE new == [at |-> allocPtr + slop, length |-> bytes, aligned |-> aligned]
<1>1. /\ given' = given \cup {new} /\ memory' = memory /\ memoryUsage' = memoryUsage
      /\ allocPtr' = allocPtr + slop + bytes /\ allocBytesRemaining' = allocBytesRemaining - slop - bytes
  BY DEF AR!Cut, AR!Give
<1>2. ArenaBlock \in Nat /\ allocPtr \in Nat /\ allocBytesRemaining \in 0..ArenaBlock /\ given \subseteq Pieces
      /\ Len(memory) \in Nat /\ \A i \in 1..Len(memory) : memory[i] \in Blocks
  BY PartsAssumption, LenProperties, ElementOfSeq DEF ArenaInv
<1>3. new \in Pieces /\ allocPtr' \in Nat /\ allocBytesRemaining' \in 0..ArenaBlock
  BY <1>1, <1>2 DEF Pieces
<1>4. PICK i \in 1..Len(memory) : Inside(allocPtr, allocBytesRemaining, memory[i])
  BY <1>2 DEF ArenaInv
<1>5. /\ Inside(new.at, new.length, memory[i])
      /\ Inside(allocPtr', allocBytesRemaining', memory[i])
      /\ Apart(new.at, new.length, allocPtr', allocBytesRemaining')
  BY <1>1, <1>2, <1>3, <1>4 DEF Inside, Apart, Blocks
<1>6. ASSUME NEW p \in given
      PROVE  /\ Apart(p.at, p.length, new.at, new.length) /\ Apart(new.at, new.length, p.at, p.length)
             /\ Apart(p.at, p.length, allocPtr', allocBytesRemaining')
  <2>1. Apart(p.at, p.length, allocPtr, allocBytesRemaining) /\ p.at \in Nat /\ p.length \in Nat
    BY <1>2 DEF ArenaInv, Pieces
  <2>2. new.at = allocPtr + slop /\ new.length = bytes
    OBVIOUS
  <2> HIDE DEF new
  <2> QED
    BY <1>1, <1>2, <2>1, <2>2, SMTT(30) DEF Apart
<1>7. new.aligned => new.at % Align = 0
  OBVIOUS
<1>8. allocPtr' + allocBytesRemaining' <= EndOf(memory)'
  <2>1. allocPtr' + allocBytesRemaining' = allocPtr + allocBytesRemaining /\ EndOf(memory)' = EndOf(memory)
    BY <1>1, <1>2 DEF EndOf
  <2> QED
    BY <2>1 DEF ArenaInv
<1> HIDE DEF new
<1> QED
  BY <1>1, <1>3, <1>4, <1>5, <1>6, <1>7, <1>8 DEF ArenaInv

\* A block is added behind the others.
LEMMA ArenaBlockAdded ==
    ASSUME ArenaInv, NEW bytes \in Nat, AR!AllocateNewBlock(bytes)
    PROVE  /\ AR!FreeAddress \in Nat /\ AR!FreeAddress % Align = 0 /\ EndOf(memory) <= AR!FreeAddress
           /\ memory' \in Seq(Blocks) /\ Len(memory') = Len(memory) + 1
           /\ \A i \in 1..Len(memory) : memory'[i] = memory[i]
           /\ memory'[Len(memory) + 1] = [at |-> AR!FreeAddress, length |-> bytes]
           /\ EndOf(memory)' = AR!FreeAddress + bytes
           /\ memoryUsage' = AR!Held(memory')
<1> DEFINE e == EndOf(memory)
           new == [at |-> AR!FreeAddress, length |-> bytes]
<1>1. Len(memory) \in Nat /\ \A i \in 1..Len(memory) : memory[i] \in Blocks
  BY LenProperties, ElementOfSeq DEF ArenaInv
<1>2. EndOf(memory) \in Nat
  <2>1. CASE memory = <<>>
    BY <2>1, PartsAssumption DEF EndOf
  <2>2. CASE memory # <<>>
    <3>1. Len(memory) \in 1..Len(memory)
      BY <2>2, <1>1, EmptySeq DEF ArenaInv
    <3> QED
      BY <2>2, <3>1, <1>1 DEF EndOf, Blocks
  <2> QED
    BY <2>1, <2>2
<1>3. AR!FreeAddress = e + AR!Slop(e)
  BY DEF AR!FreeAddress, EndOf
<1>4. AR!FreeAddress \in Nat /\ AR!FreeAddress % Align = 0 /\ e <= AR!FreeAddress
  <2> HIDE DEF e
  <2> QED
    BY <1>2, <1>3, SlopAligns DEF e
<1>5. new \in Blocks /\ memory' = Append(memory, new) /\ memoryUsage' = memoryUsage + bytes + Align
  BY <1>4 DEF AR!AllocateNewBlock, Blocks
<1> HIDE DEF new
<1>6. /\ memory' \in Seq(Blocks) /\ Len(memory') = Len(memory) + 1 /\ memory'[Len(memory) + 1] = new
      /\ \A i \in 1..Len(memory) : memory'[i] = memory[i]
  BY <1>5, AppendProperties DEF ArenaInv
<1>7. memory' # <<>> /\ EndOf(memory)' = new.at + new.length
  BY <1>1, <1>6 DEF EndOf
<1>8. memoryUsage' = AR!Held(memory')
  <2> DEFINE n == Len(memory)
  <2>1. n \in Nat /\ Len(memory') = n + 1 /\ Len(memory) = n /\ \A i \in 1..n : memory'[i] = memory[i]
    BY <1>1, <1>6
  <2>2. memory'[n + 1].length = bytes
    BY <1>6 DEF new
  <2> HIDE DEF n
  <2>3. AR!Held(memory') = AR!Held(memory) + memory'[n + 1].length + Align
    BY <2>1, HeldAppend
  <2> QED
    BY <2>2, <2>3, <1>5 DEF ArenaInv
<1> QED
  BY <1>4, <1>6, <1>7, <1>8 DEF new

\* A piece begins a block of its own, or one of which the rest remains.
LEMMA ArenaFallback ==
    ASSUME ArenaInv, NEW bytes \in Nat \ {0}, NEW aligned \in BOOLEAN, AR!AllocateFallback(bytes, aligned)
    PROVE  ArenaInv'
<1> DEFINE at == AR!FreeAddress
           n == IF bytes > ArenaBlock \div 4 THEN bytes ELSE ArenaBlock
           new == [at |-> at, length |-> bytes, aligned |-> aligned]
<1>1. n \in Nat /\ bytes <= n /\ ArenaBlock \in Nat /\ AR!AllocateNewBlock(n)
  BY PartsAssumption DEF AR!AllocateFallback
<1>2. /\ given' = given \cup {new}
      /\ \/ UNCHANGED <<allocPtr, allocBytesRemaining>>
         \/ allocPtr' = at + bytes /\ allocBytesRemaining' = ArenaBlock - bytes /\ n = ArenaBlock
  BY DEF AR!AllocateFallback, AR!Give
<1> HIDE DEF n
<1>3. /\ AR!FreeAddress \in Nat /\ AR!FreeAddress % Align = 0 /\ EndOf(memory) <= AR!FreeAddress
      /\ memory' \in Seq(Blocks) /\ Len(memory') = Len(memory) + 1
      /\ \A i \in 1..Len(memory) : memory'[i] = memory[i]
      /\ memory'[Len(memory) + 1] = [at |-> AR!FreeAddress, length |-> n]
      /\ EndOf(memory)' = AR!FreeAddress + n
      /\ memoryUsage' = AR!Held(memory')
  BY <1>1, ArenaBlockAdded
<1> HIDE DEF at
<1>4. at \in Nat /\ at % Align = 0 /\ EndOf(memory) <= at /\ memory'[Len(memory) + 1] = [at |-> at, length |-> n]
      /\ EndOf(memory)' = at + n
  BY <1>3 DEF at
<1>5. /\ Len(memory) \in Nat /\ \A i \in 1..Len(memory) : memory[i] \in Blocks
      /\ allocPtr \in Nat /\ allocBytesRemaining \in 0..ArenaBlock /\ given \subseteq Pieces
      /\ allocPtr + allocBytesRemaining <= EndOf(memory) /\ EndOf(memory) \in Int
  <2>1. Len(memory) \in Nat /\ \A i \in 1..Len(memory) : memory[i] \in Blocks
    BY LenProperties, ElementOfSeq DEF ArenaInv
  <2>2. CASE memory = <<>>
    BY <2>1, <2>2, PartsAssumption DEF EndOf, ArenaInv
  <2>3. CASE memory # <<>>
    <3>1. Len(memory) \in 1..Len(memory)
      BY <2>1, <2>3, EmptySeq DEF ArenaInv
    <3> QED
      BY <2>1, <2>3, <3>1 DEF EndOf, Blocks, ArenaInv
  <2> QED
    BY <2>2, <2>3
<1> DEFINE m == Len(memory) + 1
<1>6. m \in 1..Len(memory') /\ 1..Len(memory) \subseteq 1..Len(memory') /\ \A i \in 1..Len(memory') : i \in 1..Len(memory) \/ i = m
  BY <1>3, <1>5
<1>7. memory'[m].at = at /\ memory'[m].length = n
  BY <1>4
<1> HIDE DEF m
<1>8. \A i \in 1..Len(memory') : memory'[i].at + memory'[i].length <= EndOf(memory)'
  <2> TAKE i \in 1..Len(memory')
  <2>1. CASE i = m
    BY <2>1, <1>1, <1>4, <1>7
  <2>2. CASE i \in 1..Len(memory)
    <3>1. memory'[i] = memory[i] /\ memory[i].at \in Nat /\ memory[i].length \in Nat
          /\ memory[i].at + memory[i].length <= EndOf(memory)
      BY <2>2, <1>3, <1>5 DEF ArenaInv, Blocks
    <3> QED
      BY <3>1, <1>1, <1>4, <1>5, SMTT(30)
  <2> QED
    BY <2>1, <2>2, <1>6
<1>9. ASSUME NEW p \in given
      PROVE  /\ \E i \in 1..Len(memory') : Inside(p.at, p.length, memory'[i])
             /\ Apart(p.at, p.length, at, bytes) /\ Apart(at, bytes, p.at, p.length)
             /\ Apart(p.at, p.length, at + bytes, ArenaBlock - bytes)
  <2>1. PICK i \in 1..Len(memory) : Inside(p.at, p.length, memory[i])
    BY DEF ArenaInv
  <2>2. p.at \in Nat /\ p.length \in Nat
    BY <1>5 DEF Pieces
  <2>3. p.at + p.length <= at
    <3>1. memory[i].at \in Nat /\ memory[i].length \in Nat /\ memory[i].at + memory[i].length <= EndOf(memory)
      BY <1>5 DEF ArenaInv, Blocks
    <3> QED
      BY <3>1, <2>1, <2>2, <1>4, <1>5 DEF Inside
  <2>4. memory'[i] = memory[i] /\ i \in 1..Len(memory')
    BY <1>3, <1>6
  <2> QED
    BY <2>1, <2>2, <2>3, <2>4, <1>4, <1>1, SMTT(30) DEF Apart
<1>10. new \in Pieces /\ Inside(new.at, new.length, memory'[m])
  BY <1>1, <1>4, <1>7 DEF Pieces, Inside
<1>11. /\ allocPtr' \in Nat /\ allocBytesRemaining' \in 0..ArenaBlock
       /\ allocPtr' + allocBytesRemaining' <= EndOf(memory)'
       /\ allocBytesRemaining' # 0 => \E i \in 1..Len(memory') : Inside(allocPtr', allocBytesRemaining', memory'[i])
       /\ Apart(new.at, new.length, allocPtr', allocBytesRemaining')
       /\ \A p \in given : Apart(p.at, p.length, allocPtr', allocBytesRemaining')
  <2>1. new.at = at /\ new.length = bytes
    OBVIOUS
  <2> HIDE DEF new
  <2>2. CASE UNCHANGED <<allocPtr, allocBytesRemaining>>
    <3>1. allocPtr' + allocBytesRemaining' <= at
      BY <2>2, <1>4, <1>5
    <3>2. allocBytesRemaining # 0 => \E i \in 1..Len(memory') : Inside(allocPtr, allocBytesRemaining, memory'[i])
      BY <1>3, <1>6 DEF ArenaInv
    <3> QED
      BY <2>1, <2>2, <3>1, <3>2, <1>1, <1>4, <1>5 DEF Apart, ArenaInv
  <2>3. CASE allocPtr' = at + bytes /\ allocBytesRemaining' = ArenaBlock - bytes /\ n = ArenaBlock
    <3>1. Inside(allocPtr', allocBytesRemaining', memory'[m])
      BY <2>3, <1>1, <1>4, <1>7 DEF Inside
    <3> QED
      BY <2>1, <2>3, <3>1, <1>1, <1>4, <1>6, <1>9, SMTT(30) DEF Apart
  <2> QED
    BY <2>2, <2>3, <1>2
<1>12. new.aligned => new.at % Align = 0
  BY <1>4
<1>13. new.at = at /\ new.length = bytes
  OBVIOUS
<1> HIDE DEF new
<1>14. \A p, q \in given' : p # q => Apart(p.at, p.length, q.at, q.length)
  BY <1>2, <1>9, <1>13 DEF ArenaInv
<1>15. /\ given' \subseteq Pieces /\ \A p \in given' : \E i \in 1..Len(memory') : Inside(p.at, p.length, memory'[i])
       /\ \A p \in given' : p.aligned => p.at % Align = 0
       /\ \A p \in given' : Apart(p.at, p.length, allocPtr', allocBytesRemaining')
  BY <1>2, <1>6, <1>9, <1>10, <1>11, <1>12 DEF ArenaInv
<1> QED
  BY <1>3, <1>8, <1>11, <1>14, <1>15 DEF ArenaInv

\* Whatever is asked for in whatever order, two pieces share no byte, each is in one block,
\* those that are to be aligned are, and the memory counted is that of the blocks.
THEOREM PiecesAreApart == AR!Spec => []AR!GivenApart
<1>1. AR!Init => ArenaInv
  <2> SUFFICES ASSUME AR!Init
               PROVE  ArenaInv
    OBVIOUS
  <2>1. memory = <<>> /\ Len(memory) = 0 /\ memory \in Seq(Blocks)
    BY EmptySeq DEF AR!Init
  <2>2. AR!Held(memory) = 0
    <3>1. PICK f : HeldUpTo(memory, 0, f) /\ AR!Held(memory) = f[0]
      BY <2>1, HeldLoop
    <3>2. \A i \in 0..0 : f[i] = IF i = 0 THEN 0 ELSE f[i - 1] + memory[i].length + Align
      BY <3>1, Zenon DEF HeldUpTo
    <3> QED
      BY <3>1, <3>2
  <2>3. EndOf(memory) = Align /\ Align \in Nat /\ ArenaBlock \in Nat
    BY <2>1, PartsAssumption DEF EndOf
  <2> QED
    BY <2>1, <2>2, <2>3 DEF AR!Init, ArenaInv
<1>2. ArenaInv /\ [AR!Next]_(AR!vars) => ArenaInv'
  <2> SUFFICES ASSUME ArenaInv, [AR!Next]_(AR!vars)
               PROVE  ArenaInv'
    OBVIOUS
  <2>1. ASSUME NEW bytes \in Sizes, AR!Allocate(bytes)
        PROVE  ArenaInv'
    <3>1. bytes \in Nat \ {0} /\ allocBytesRemaining \in Nat
      BY PartsAssumption DEF ArenaInv
    <3>2. CASE bytes <= allocBytesRemaining
      <4>1. AR!Cut(0, bytes, FALSE)
        BY <2>1, <3>2, Zenon DEF AR!Allocate
      <4>2. 0 + bytes <= allocBytesRemaining
        BY <3>1, <3>2
      <4> QED
        BY <3>1, <4>1, <4>2, ArenaCut
    <3>3. CASE ~(bytes <= allocBytesRemaining)
      BY <2>1, <3>1, <3>3, ArenaFallback DEF AR!Allocate
    <3> QED
      BY <3>2, <3>3
  <2>2. ASSUME NEW bytes \in Sizes, AR!AllocateAligned(bytes)
        PROVE  ArenaInv'
    <3> DEFINE slop == AR!Slop(allocPtr)
    <3>0. bytes \in Nat \ {0} /\ allocBytesRemaining \in Nat /\ allocPtr \in Nat
      BY PartsAssumption DEF ArenaInv
    <3>1. bytes \in Nat \ {0} /\ allocBytesRemaining \in Nat /\ slop \in Nat /\ (allocPtr + slop) % Align = 0
      BY <3>0, SlopAligns
    <3>2. IF bytes + slop <= allocBytesRemaining THEN AR!Cut(slop, bytes, TRUE) ELSE AR!AllocateFallback(bytes, TRUE)
      BY <2>2 DEF AR!AllocateAligned
    <3> HIDE DEF slop
    <3>3. CASE bytes + slop <= allocBytesRemaining
      <4>1. slop + bytes <= allocBytesRemaining
        BY <3>1, <3>3
      <4>2. AR!Cut(slop, bytes, TRUE)
        BY <3>2, <3>3, Zenon
      <4> QED
        BY <3>1, <4>1, <4>2, ArenaCut
    <3>4. CASE ~(bytes + slop <= allocBytesRemaining)
      BY <3>1, <3>2, <3>4, ArenaFallback
    <3> QED
      BY <3>3, <3>4
  <2>3. CASE UNCHANGED AR!vars
    BY <2>3 DEF AR!vars, ArenaInv, EndOf
  <2> QED
    BY <2>1, <2>2, <2>3 DEF AR!Next
<1>3. ArenaInv => AR!GivenApart
  <2> SUFFICES ASSUME ArenaInv
               PROVE  AR!GivenApart
    OBVIOUS
  <2>1. \A p \in given : p.at \in Nat /\ p.length \in Nat
    BY DEF ArenaInv, Pieces
  <2>2. \A i \in 1..Len(memory) : memory[i].at \in Nat /\ memory[i].length \in Nat
    <3>1. \A i \in 1..Len(memory) : memory[i] \in Blocks
      BY ElementOfSeq DEF ArenaInv
    <3> QED
      BY <3>1 DEF Blocks
  <2>3. \A p \in given : \E i \in 1..Len(memory) : AR!Bytes(p) \subseteq AR!Bytes(memory[i])
    <3> TAKE p \in given
    <3>1. PICK i \in 1..Len(memory) : Inside(p.at, p.length, memory[i])
      BY DEF ArenaInv
    <3> QED
      BY <3>1, <2>1, <2>2, SMTT(30) DEF Inside, AR!Bytes
  <2>4. \A p, q \in given : p # q => AR!Bytes(p) \cap AR!Bytes(q) = {}
    <3> TAKE p, q \in given
    <3> SUFFICES ASSUME p # q
                 PROVE  AR!Bytes(p) \cap AR!Bytes(q) = {}
      OBVIOUS
    <3>1. Apart(p.at, p.length, q.at, q.length)
      BY DEF ArenaInv
    <3> QED
      BY <3>1, <2>1 DEF Apart, AR!Bytes
  <2>5. \A p \in given : AR!Bytes(p) \cap (allocPtr..(allocPtr + allocBytesRemaining - 1)) = {}
    <3> TAKE p \in given
    <3>1. Apart(p.at, p.length, allocPtr, allocBytesRemaining) /\ allocPtr \in Nat /\ allocBytesRemaining \in Int
      BY PartsAssumption DEF ArenaInv
    <3> QED
      BY <3>1, <2>1 DEF Apart, AR!Bytes
  <2> QED
    BY <2>3, <2>4, <2>5 DEF ArenaInv, AR!GivenApart
<1> QED
  BY <1>1, <1>2, <1>3, PTL DEF AR!Spec

-----------------------------------------------------------------------------
\* The memtable.  Insert is at work on a node that is linked in from level 0 up.
Working == writer # MT!NoInsert
Keys == 1..MemKeys

\* The nodes that are in the list of a level.
Linked(i) ==
    {m \in added \cup {MT!head} : link[m][i] # MT!Garbage /\ ~(Working /\ m = writer.node /\ i >= writer.level)}

\* The link of a node leads to the next one in the list of the level.
Follows(m, i) ==
    /\ link[m][i] \in Linked(i) \cup {MT!Null} /\ m < link[m][i]
    /\ \A x \in Linked(i) : ~(m < x /\ x < link[m][i])

TableType ==
    /\ link \in [MT!head..(MT!Null - 1) -> [MT!Heights -> Int]]
    /\ maxHeight \in 1..MaxHeight /\ added \subseteq 1..(MT!Null - 1) /\ sequence \in 0..MaxEntries

\* Each level is a list in order; all nodes are on level 0, and one that is on a level is on
\* those below.
ListsInv ==
    /\ \A i \in MT!Heights :
          /\ link[MT!head][i] # MT!Garbage
          /\ \A m \in Linked(i) : Follows(m, i)
          /\ i # 0 => Linked(i) \subseteq Linked(i - 1)
    /\ added \subseteq Linked(0)

\* A node that is not in has no links; one that is in has a sequence number that was given.
NodesInv ==
    /\ \A n \in 1..(MT!Null - 1) :
          n \notin added /\ ~(Working /\ n = writer.node) => \A i \in MT!Heights : link[n][i] = MT!Garbage
    /\ \A n \in added : (Working /\ n = writer.node) \/ \E k \in Keys, s \in 1..sequence : n = MT!Node(k, s)

\* The node at work is in below its level, has no link above, and leads on its level to
\* the next node once that link is set.
InsertInv ==
    Working =>
        /\ writer \in [node : 1..(MT!Null - 1), height : 1..MaxHeight, level : MT!Heights, set : BOOLEAN]
        /\ writer.level < writer.height /\ sequence < MaxEntries
        /\ \E k \in Keys : writer.node = MT!Node(k, sequence + 1)
        /\ writer.node \in added <=> writer.level > 0
        /\ \A i \in MT!Heights :
              /\ i < writer.level => writer.node \in Linked(i)
              /\ i > writer.level => link[writer.node][i] = MT!Garbage
        /\ IF writer.set THEN Follows(writer.node, writer.level) ELSE link[writer.node][writer.level] = MT!Garbage

TableInv == TableType /\ ListsInv /\ NodesInv /\ InsertInv

\* What a reader has found is found for good.
ReadDone(me) ==
    /\ me.op = "done" =>
          \A n \in me.known : ~(me.found < n /\ n < me.target) /\ ~(me.target < n /\ n < me.found)
    /\ me.op = "got" =>
          LET k == MT!UserKey(me.target)
          IN  MT!Found(k, me.found) = MT!Found(k, MT!Min({n \in me.known : n >= me.target} \cup {MT!Null}))

\* A reader at work is on a node of its level, before what it looks for; what was added
\* for the key of a Get since it began is newer, and sorts before.
ReadOn(me) ==
    /\ me.op \in {"ge", "lt", "next"} =>
          /\ me.level \in MT!Heights /\ me.at \in Linked(me.level) /\ me.target \in 0..MT!Null
          /\ IF me.op = "next" THEN me.at = me.target /\ me.level = 0 ELSE me.at < me.target
    /\ me.op = "ge" =>
          \E k \in Keys, s \in 0..sequence :
             /\ me.target = MT!Node(k, s)
             /\ \A n \in added \ me.known : MT!UserKey(n) = k => n < me.target

Ops == {"none", "ge", "lt", "next", "got", "done"}
Reads == [op : Ops, target : Int, at : Int, level : Int, known : SUBSET Int, found : Int]

ReadInv(me) ==
    /\ me.at \in added \cup {MT!head} /\ me.found \in added \cup {MT!head, MT!Null} /\ me.known \subseteq added
    /\ ReadOn(me) /\ ReadDone(me)

ReaderInv == reader \in [Readers -> Reads] /\ \A r \in Readers : ReadInv(reader[r])

MemTableInv == TableInv /\ ReaderInv

\* Nodes are in the order of keys and, for one key, the newest first.
LEMMA NodeOfEntry ==
    ASSUME NEW k \in Keys, NEW s \in 0..MaxEntries
    PROVE  /\ MT!Node(k, s) \in 1..(MT!Null - 1) /\ MT!UserKey(MT!Node(k, s)) = k
           /\ \A t \in 0..MaxEntries : s < t => MT!Node(k, t) < MT!Node(k, s)
<1> DEFINE w == MaxEntries + 1
           q == k - 1
           d == MaxEntries - s
<1>1. MaxEntries \in Nat /\ MemKeys \in Nat
  BY PartsAssumption
<1>2. w \in Nat \ {0} /\ q \in 0..(MemKeys - 1) /\ d \in 0..(w - 1) /\ MT!Node(k, s) = q * w + d + 1 /\ MT!Null = MemKeys * w + 1
  BY <1>1 DEF Keys, MT!Node, MT!Null
<1>3. \A t \in 0..MaxEntries : s < t => MT!Node(k, t) < MT!Node(k, s)
  BY <1>1, <1>2 DEF MT!Node
<1>4. MT!UserKey(MT!Node(k, s)) = ((q * w + d + 1) - 1) \div w + 1
  BY <1>2 DEF MT!UserKey
<1>5. q = k - 1 /\ k \in Int
  BY DEF Keys
<1> HIDE DEF w, q, d
<1>6. (q + 1) * w <= MemKeys * w /\ q * w >= 0 /\ (q + 1) * w = q * w + w /\ q * w \in Int /\ MemKeys * w \in Int
  BY <1>1, <1>2
<1>7. ((q * w + d + 1) - 1) \div w = q
  BY <1>2
<1> QED
  BY <1>2, <1>3, <1>4, <1>5, <1>6, <1>7

\* A greater node has no smaller key.
LEMMA UserKeyGrows ==
    ASSUME NEW n \in Nat, NEW m \in Nat, 0 < n, n <= m
    PROVE  MT!UserKey(n) \in Int /\ MT!UserKey(m) \in Int /\ MT!UserKey(n) <= MT!UserKey(m)
<1> DEFINE w == MaxEntries + 1
<1>1. w \in Nat \ {0}
  BY PartsAssumption
<1>2. MT!UserKey(n) = (n - 1) \div w + 1 /\ MT!UserKey(m) = (m - 1) \div w + 1
  BY DEF MT!UserKey
<1> HIDE DEF w
<1>3. (n - 1) \div w <= (m - 1) \div w /\ (n - 1) \div w \in Int /\ (m - 1) \div w \in Int
  BY <1>1
<1> QED
  BY <1>2, <1>3

\* Null is behind all nodes.
LEMMA NullIs == MT!Null \in Nat /\ MT!Null >= 1 /\ MT!Garbage = -1 /\ MT!head = 0
<1>1. MemKeys * (MaxEntries + 1) \in Nat
  BY PartsAssumption
<1> QED
  BY <1>1 DEF MT!Null, MT!Garbage, MT!head

\* The node before the one at work, on its level.
LEMMA PrevIs ==
    ASSUME TableInv, Working
    PROVE  LET p == MT!Prev(writer.node, writer.level) IN
           /\ p \in Linked(writer.level) /\ p < writer.node
           /\ \A m \in Linked(writer.level) : m < writer.node => m <= p
<1> DEFINE n == writer.node
           i == writer.level
           S == {m \in added \cup {MT!head} : m < n /\ (m = MT!head \/ link[m][i] # MT!Garbage)}
<1>1. n \in 1..(MT!Null - 1) /\ i \in MT!Heights /\ added \subseteq 1..(MT!Null - 1) /\ link[MT!head][i] # MT!Garbage
  BY DEF TableInv, InsertInv, TableType, ListsInv
<1>2. S \in SUBSET Nat /\ MT!head \in S /\ \A m \in S : m <= n /\ m # n
  <2>1. n \in Nat /\ MT!head = 0 /\ MT!head < n /\ MT!Null \in Nat
    BY <1>1, NullIs
  <2>2. added \cup {MT!head} \subseteq Nat
    BY <1>1, <2>1
  <2>3. \A m \in S : m \in Nat /\ m < n
    BY <2>2
  <2>4. MT!head \in S
    BY <2>1
  <2> HIDE DEF S
  <2> QED
    BY <2>1, <2>3, <2>4
<1>3. S = {m \in Linked(i) : m < n}
  BY <1>1, NullIs DEF Linked
<1> HIDE DEF S
<1>4. Max(S) \in S /\ \A m \in S : m <= Max(S)
  <2>1. n \in Nat /\ S # {}
    BY <1>1, <1>2, NullIs
  <2> QED
    BY <1>2, <2>1, GreatestOf
<1>5. MT!Prev(n, i) = Max(S)
  BY DEF MT!Prev, MT!Max, Max, S
<1> QED
  BY <1>3, <1>4, <1>5

\* The lists keep what they have.
ListsGrow == added \subseteq added' /\ \A i \in MT!Heights : Linked(i) \subseteq Linked(i)'

\* An insertion begins: the node is new, and in no list.
LEMMA MemTableAdd ==
    ASSUME TableInv, NEW k \in Keys, NEW h \in 1..MaxHeight, MT!Add(k, h)
    PROVE  TableInv' /\ ListsGrow /\ added' = added /\ sequence' = sequence
<1> DEFINE n == MT!Node(k, sequence + 1)
<1>1. /\ ~Working /\ sequence < MaxEntries /\ writer' = [node |-> n, height |-> h, level |-> 0, set |-> FALSE]
      /\ maxHeight' = MT!Max({maxHeight, h}) /\ link' = link /\ added' = added /\ sequence' = sequence
  BY DEF MT!Add, Working
<1>2. MaxEntries \in Nat /\ MaxHeight \in Nat \ {0} /\ MT!Heights = 0..(MaxHeight - 1) /\ sequence \in 0..MaxEntries
      /\ added \subseteq 1..(MT!Null - 1)
  BY PartsAssumption DEF MT!Heights, TableInv, TableType
<1>3. sequence + 1 \in 0..MaxEntries
  BY <1>1, <1>2
<1>4. n \in 1..(MT!Null - 1) /\ MT!UserKey(n) = k
  BY <1>3, NodeOfEntry
<1>5. n \notin added
  <2> SUFFICES ASSUME n \in added
               PROVE  FALSE
    OBVIOUS
  <2>1. PICK l \in Keys, s \in 1..sequence : n = MT!Node(l, s)
    BY <1>1 DEF TableInv, NodesInv
  <2>2. s \in 0..MaxEntries /\ s < sequence + 1
    BY <1>2
  <2>3. l = k
    BY <2>1, <2>2, <1>4, NodeOfEntry
  <2>4. MT!Node(k, sequence + 1) < MT!Node(k, s) /\ MT!Node(k, s) \in 1..(MT!Null - 1)
    BY <1>3, <2>2, NodeOfEntry
  <2> QED
    BY <2>1, <2>3, <2>4
<1> HIDE DEF n
<1>6. Working' /\ n # MT!head /\ writer'.node = n /\ writer'.level = 0 /\ writer'.height = h /\ writer'.set = FALSE
  BY <1>1, <1>4, NullIs DEF Working, MT!NoInsert
<1>7. \A i : Linked(i)' = Linked(i)
  BY <1>1, <1>5, <1>6 DEF Linked
<1>8. TableType'
  <2> DEFINE S == {maxHeight, h}
  <2>1. S \in SUBSET Nat /\ S # {} /\ MaxHeight \in Nat /\ (\A x \in S : x <= MaxHeight) /\ \A x \in S : x \in 1..MaxHeight
    BY <1>2 DEF TableInv, TableType
  <2> HIDE DEF S
  <2>2. Max(S) \in S
    BY <2>1, GreatestOf
  <2>3. maxHeight' = Max(S)
    BY <1>1 DEF MT!Max, Max, S
  <2>4. maxHeight' \in 1..MaxHeight
    BY <2>1, <2>2, <2>3
  <2> QED
    BY <1>1, <2>4 DEF TableInv, TableType
<1>9. ListsInv'
  BY <1>1, <1>7 DEF TableInv, ListsInv, Follows
<1>10. \A i \in MT!Heights : link[n][i] = MT!Garbage
  BY <1>1, <1>4, <1>5 DEF TableInv, NodesInv
<1>11. NodesInv'
  BY <1>1, <1>6, <1>10 DEF TableInv, NodesInv
<1>12. InsertInv'
  <2>1. writer' \in [node : 1..(MT!Null - 1), height : 1..MaxHeight, level : MT!Heights, set : BOOLEAN] /\ 0 \in MT!Heights
    BY <1>1, <1>2, <1>4
  <2>2. writer'.level < writer'.height /\ (\A i \in MT!Heights : ~(i < writer'.level))
    BY <1>2, <1>6
  <2> QED
    BY <2>1, <2>2, <1>1, <1>5, <1>6, <1>10 DEF InsertInv, n
<1> QED
  BY <1>1, <1>7, <1>8, <1>9, <1>11, <1>12 DEF TableInv, ListsGrow

\* The link of the node at work is set to what the node before it leads to.
LEMMA MemTableSetOwnLink ==
    ASSUME TableInv, MT!SetOwnLink
    PROVE  TableInv' /\ ListsGrow /\ added' = added /\ sequence' = sequence
<1>0. PICK n, l : n = writer.node /\ l = writer.level
  OBVIOUS
<1> DEFINE p == MT!Prev(n, l)
           q == link[p][l]
<1>1. /\ Working /\ ~writer.set /\ link' = [link EXCEPT ![n][l] = q] /\ writer' = [writer EXCEPT !.set = TRUE]
      /\ maxHeight' = maxHeight /\ added' = added /\ sequence' = sequence
  BY <1>0 DEF MT!SetOwnLink, Working
<1>2. /\ link \in [MT!head..(MT!Null - 1) -> [MT!Heights -> Int]] /\ added \subseteq 1..(MT!Null - 1)
      /\ writer \in [node : 1..(MT!Null - 1), height : 1..MaxHeight, level : MT!Heights, set : BOOLEAN]
      /\ n \in 1..(MT!Null - 1) /\ l \in MT!Heights /\ MT!Null \in Nat /\ MT!head = 0 /\ MT!Garbage = -1
  BY <1>0, <1>1, NullIs DEF TableInv, TableType, InsertInv
<1>3. p \in Linked(l) /\ p < n /\ \A m \in Linked(l) : m < n => m <= p
  BY <1>0, <1>1, PrevIs
<1>4. n \notin Linked(l) /\ Linked(l) \subseteq added \cup {MT!head} /\ MT!Heights \subseteq Int
  BY <1>0, <1>1, <1>2 DEF Linked, MT!Heights
<1>5. q \in Linked(l) \cup {MT!Null} /\ p < q /\ (\A x \in Linked(l) : ~(p < x /\ x < q))
  <2>1. Follows(p, l)
    BY <1>2, <1>3 DEF TableInv, ListsInv
  <2> QED
    BY <2>1 DEF Follows
<1> HIDE DEF p, q
<1>6. n < q /\ q \in Int /\ q # MT!Garbage /\ \A x \in Linked(l) : ~(n < x /\ x < q)
  <2>1. \A x \in Linked(l) : x \in Int /\ x >= 0
    <3>1. \A x \in added : x \in Int /\ x >= 0
      BY <1>2
    <3>2. MT!head \in Int /\ MT!head >= 0
      BY <1>2
    <3> QED
      BY <3>1, <3>2, <1>4
  <2>2. q \in Int /\ q >= 0
    BY <1>2, <1>5, <2>1
  <2>3. q = MT!Null \/ ~(q < n)
    <3> SUFFICES ASSUME q \in Linked(l), q < n
                 PROVE  FALSE
      BY <1>5
    <3>1. q <= p /\ p < q /\ p \in Int
      BY <1>3, <1>5, <2>1
    <3> QED
      BY <3>1, <2>2
  <2>4. n < q
    BY <1>2, <1>4, <1>5, <2>2, <2>3
  <2>5. \A x \in Linked(l) : n < x => p < x
    BY <1>2, <1>3, <2>1
  <2> QED
    BY <1>2, <1>5, <2>2, <2>4, <2>5
<1>7. /\ link' \in [MT!head..(MT!Null - 1) -> [MT!Heights -> Int]] /\ link'[n][l] = q
      /\ \A m \in MT!head..(MT!Null - 1), i \in MT!Heights : m # n \/ i # l => link'[m][i] = link[m][i]
  BY <1>1, <1>2, <1>6
<1>8. Working' /\ writer'.node = n /\ writer'.level = l /\ writer'.height = writer.height /\ writer'.set = TRUE
      /\ writer' \in [node : 1..(MT!Null - 1), height : 1..MaxHeight, level : MT!Heights, set : BOOLEAN]
  BY <1>0, <1>1, <1>2 DEF Working, MT!NoInsert
<1>9. added \cup {MT!head} \subseteq MT!head..(MT!Null - 1)
  <2>1. MT!Null >= 1
    BY NullIs
  <2> QED
    BY <1>2, <2>1
<1>10. \A i \in MT!Heights : Linked(i)' = Linked(i)
  <2> TAKE i \in MT!Heights
  <2>1. \A m \in added \cup {MT!head} : ~(m = n /\ i >= l) => link'[m][i] = link[m][i]
    <3>1. i = l => i >= l
      BY <1>2, <1>4
    <3> QED
      BY <3>1, <1>7, <1>9
  <2> QED
    BY <2>1, <1>0, <1>1, <1>8 DEF Linked
<1>11. \A i \in MT!Heights : \A m \in Linked(i) : link'[m][i] = link[m][i]
  BY <1>0, <1>1, <1>2, <1>4, <1>7, <1>9 DEF Linked
<1>12. ListsInv'
  <2>1. \A i \in MT!Heights : link'[MT!head][i] # MT!Garbage
    <3>1. MT!head # n /\ MT!head \in MT!head..(MT!Null - 1)
      BY <1>2, <1>9
    <3>2. \A i \in MT!Heights : link[MT!head][i] # MT!Garbage
      BY DEF TableInv, ListsInv
    <3> QED
      BY <3>1, <3>2, <1>7
  <2>2. ASSUME NEW i \in MT!Heights, NEW m \in Linked(i)
        PROVE  Follows(m, i)'
    <3>1. Follows(m, i)
      BY DEF TableInv, ListsInv
    <3> QED
      BY <3>1, <1>10, <1>11 DEF Follows
  <2>3. \A i \in MT!Heights : i # 0 => i - 1 \in MT!Heights
    BY PartsAssumption DEF MT!Heights
  <2>4. 0 \in MT!Heights
    BY PartsAssumption DEF MT!Heights
  <2> QED
    BY <2>1, <2>2, <2>3, <2>4, <1>1, <1>10 DEF TableInv, ListsInv
<1>13. NodesInv'
  <2>1. \A m \in 1..(MT!Null - 1) : m \in MT!head..(MT!Null - 1)
    BY <1>2
  <2> QED
    BY <2>1, <1>0, <1>1, <1>7, <1>8 DEF TableInv, NodesInv
<1>14. InsertInv'
  <2>1. Follows(n, l)'
    <3>1. Linked(l)' = Linked(l) /\ link'[n][l] = q
      BY <1>2, <1>7, <1>10
    <3> QED
      BY <3>1, <1>5, <1>6 DEF Follows
  <2>2. \A i \in MT!Heights : i > l => link'[n][i] = MT!Garbage
    <3>1. \A i \in MT!Heights : i > l => i # l /\ link[n][i] = MT!Garbage
      BY <1>0, <1>1, <1>2, <1>4 DEF TableInv, InsertInv
    <3>2. n \in MT!head..(MT!Null - 1)
      BY <1>2
    <3> QED
      BY <3>1, <3>2, <1>7
  <2> QED
    BY <2>1, <2>2, <1>0, <1>1, <1>8, <1>10 DEF TableInv, InsertInv
<1>15. TableType'
  BY <1>1, <1>7 DEF TableInv, TableType
<1> QED
  BY <1>1, <1>10, <1>12, <1>13, <1>14, <1>15 DEF TableInv, ListsGrow

\* The node at work is published on its level: the node before it leads to it.
LEMMA MemTablePublish ==
    ASSUME TableInv, MT!Publish
    PROVE  /\ TableInv' /\ ListsGrow /\ sequence <= sequence' /\ sequence < MaxEntries
           /\ \E k \in Keys : added' = added \cup {MT!Node(k, sequence + 1)}
<1>0. PICK n, l : n = writer.node /\ l = writer.level
  OBVIOUS
<1>1. PICK p : p = MT!Prev(n, l)
  OBVIOUS
<1>2. PICK q : q = link[n][l]
  OBVIOUS
<1>3. /\ Working /\ writer.set /\ link' = [link EXCEPT ![p][l] = n] /\ added' = added \cup {n} /\ maxHeight' = maxHeight
      /\ IF l + 1 < writer.height
           THEN writer' = [writer EXCEPT !.level = l + 1, !.set = FALSE] /\ sequence' = sequence
           ELSE writer' = MT!NoInsert /\ sequence' = sequence + 1
  BY <1>0, <1>1 DEF MT!Publish, MT!Advance, Working
<1>4. /\ link \in [MT!head..(MT!Null - 1) -> [MT!Heights -> Int]] /\ added \subseteq 1..(MT!Null - 1)
      /\ writer \in [node : 1..(MT!Null - 1), height : 1..MaxHeight, level : MT!Heights, set : BOOLEAN]
      /\ n \in 1..(MT!Null - 1) /\ l \in MT!Heights /\ MT!Null \in Nat /\ MT!head = 0 /\ MT!Garbage = -1
      /\ sequence \in 0..MaxEntries /\ sequence < MaxEntries /\ l < writer.height
  BY <1>0, <1>3, NullIs DEF TableInv, TableType, InsertInv
<1>5. p \in Linked(l) /\ p < n /\ \A m \in Linked(l) : m < n => m <= p
  BY <1>0, <1>1, <1>3, PrevIs
<1>6. n \notin Linked(l) /\ (\A i \in MT!Heights : Linked(i) \subseteq added \cup {MT!head}) /\ MT!Heights \subseteq Int
  BY <1>0, <1>3, <1>4 DEF Linked, MT!Heights
<1>7. MaxHeight \in Nat \ {0} /\ MT!Heights = 0..(MaxHeight - 1) /\ MaxEntries \in Nat /\ 0 \in MT!Heights
  BY PartsAssumption DEF MT!Heights
<1>8. /\ \A x \in added \cup {MT!head} : x \in Int /\ x >= 0 /\ x \in MT!head..(MT!Null - 1)
      /\ n \in Int /\ n > 0 /\ n \in MT!head..(MT!Null - 1)
  <2>1. MT!Null >= 1
    BY NullIs
  <2>2. \A x \in added : x \in Int /\ x >= 0 /\ x \in MT!head..(MT!Null - 1)
    BY <1>4
  <2>3. MT!head \in Int /\ MT!head >= 0 /\ MT!head \in MT!head..(MT!Null - 1)
    BY <1>4, <2>1
  <2>4. n \in Int /\ n > 0 /\ n \in MT!head..(MT!Null - 1)
    BY <1>4
  <2> QED
    BY <2>2, <2>3, <2>4
<1>9. q \in Linked(l) \cup {MT!Null} /\ n < q /\ (\A x \in Linked(l) : ~(n < x /\ x < q)) /\ q \in Int /\ q # MT!Garbage
  <2>1. Follows(n, l)
    BY <1>0, <1>3 DEF TableInv, InsertInv
  <2>2. q \in Linked(l) \cup {MT!Null} /\ n < q /\ (\A x \in Linked(l) : ~(n < x /\ x < q))
    BY <2>1, <1>2 DEF Follows
  <2>3. q \in Int
    BY <1>2, <1>4, <1>8
  <2>4. q # MT!Garbage
    BY <1>4, <1>8, <2>2, <2>3
  <2> QED
    BY <2>2, <2>3, <2>4
<1>10. p \in Int /\ p # n /\ p \in MT!head..(MT!Null - 1)
  <2>1. p \in added \cup {MT!head}
    BY <1>4, <1>5, <1>6
  <2>2. p \in Int /\ p \in MT!head..(MT!Null - 1)
    BY <2>1, <1>8
  <2> QED
    BY <2>2, <1>5, <1>8
<1>11. /\ link' \in [MT!head..(MT!Null - 1) -> [MT!Heights -> Int]] /\ link'[p][l] = n /\ n # MT!Garbage
       /\ \A m \in MT!head..(MT!Null - 1), i \in MT!Heights : m # p \/ i # l => link'[m][i] = link[m][i]
  <2>1. link' = [link EXCEPT ![p][l] = n] /\ n # MT!Garbage
    BY <1>3, <1>4
  <2> QED
    BY <2>1, <1>4, <1>8, <1>10
<1>12. /\ Working' => /\ writer'.node = n /\ writer'.level = l + 1 /\ writer'.set = FALSE /\ sequence' = sequence
                      /\ writer'.height = writer.height /\ l + 1 < writer.height /\ l + 1 \in MT!Heights
                      /\ writer' \in [node : 1..(MT!Null - 1), height : 1..MaxHeight, level : MT!Heights, set : BOOLEAN]
       /\ ~Working' => sequence' = sequence + 1
  <2>1. CASE l + 1 < writer.height
    <3>1. l + 1 \in MT!Heights
      BY <2>1, <1>4, <1>7
    <3>2. writer' = [writer EXCEPT !.level = l + 1, !.set = FALSE] /\ sequence' = sequence
      BY <2>1, <1>3
    <3>3. writer'.node = n /\ n # MT!head
      BY <3>2, <1>0, <1>4
    <3>4. Working'
      BY <3>3 DEF Working, MT!NoInsert
    <3> QED
      BY <2>1, <3>1, <3>2, <3>3, <3>4, <1>4
  <2>2. CASE ~(l + 1 < writer.height)
    BY <2>2, <1>3 DEF Working
  <2> QED
    BY <2>1, <2>2
<1>13. ASSUME NEW i \in MT!Heights
       PROVE  /\ n \in Linked(i) <=> i < l
              /\ i < l => link[n][i] # MT!Garbage
              /\ i > l => link[n][i] = MT!Garbage
  <2>1. i < l => n \in Linked(i)
    BY <1>0, <1>3 DEF TableInv, InsertInv
  <2>2. i > l => link[n][i] = MT!Garbage
    BY <1>0, <1>3 DEF TableInv, InsertInv
  <2>3. n \in Linked(i) => link[n][i] # MT!Garbage
    BY DEF Linked
  <2>4. i < l \/ i = l \/ i > l
    BY <1>4, <1>6
  <2>5. i < l => ~(i > l) /\ i # l
    BY <1>4, <1>6
  <2> QED
    BY <2>1, <2>2, <2>3, <2>4, <2>5, <1>6
<1>14. ASSUME NEW i \in MT!Heights
       PROVE  Linked(i)' = IF i = l THEN Linked(i) \cup {n} ELSE Linked(i)
  <2>1. ASSUME NEW m \in added \cup {MT!head}, m # n
        PROVE  m \in Linked(i)' <=> m \in Linked(i)
    <3>1. link'[m][i] # MT!Garbage <=> link[m][i] # MT!Garbage
      <4>1. CASE m = p /\ i = l
        BY <4>1, <1>5, <1>11 DEF Linked
      <4>2. CASE ~(m = p /\ i = l)
        BY <4>2, <1>8, <1>11
      <4> QED
        BY <4>1, <4>2
    <3>2. m \in Linked(i) <=> link[m][i] # MT!Garbage
      BY <2>1, <1>0 DEF Linked
    <3>3. m \in Linked(i)' <=> link'[m][i] # MT!Garbage
      BY <2>1, <1>3, <1>12 DEF Linked
    <3> QED
      BY <3>1, <3>2, <3>3
  <2>2. n \in Linked(i)' <=> i <= l
    <3>1. link'[n][i] = link[n][i]
      BY <1>8, <1>10, <1>11
    <3>2. i <= l <=> link[n][i] # MT!Garbage
      <4>1. i = l => link[n][i] # MT!Garbage
        BY <1>2, <1>9
      <4>2. (i < l \/ i = l \/ i > l) /\ (i <= l <=> (i < l \/ i = l)) /\ (i > l => ~(i < l) /\ i # l)
        BY <1>4, <1>6
      <4> QED
        BY <4>1, <4>2, <1>13
    <3>3. i <= l => ~(i >= l + 1)
      BY <1>4, <1>6
    <3>4. n \in added'
      BY <1>3
    <3> QED
      BY <3>1, <3>2, <3>3, <3>4, <1>12 DEF Linked
  <2>3. i <= l <=> (i = l \/ n \in Linked(i))
    <3>1. i <= l <=> (i = l \/ i < l)
      BY <1>4, <1>6
    <3> QED
      BY <3>1, <1>13
  <2>4. Linked(i)' \subseteq added \cup {MT!head, n} /\ Linked(i) \subseteq added \cup {MT!head}
    BY <1>3 DEF Linked
  <2> QED
    BY <2>1, <2>2, <2>3, <2>4, <1>6
<1>15. ListsGrow
  BY <1>3, <1>14 DEF ListsGrow
<1>16. \A i \in MT!Heights : link'[MT!head][i] # MT!Garbage
  <2> SUFFICES ASSUME NEW i \in MT!Heights
               PROVE  link'[MT!head][i] # MT!Garbage
    OBVIOUS
  <2>1. link[MT!head][i] # MT!Garbage
    BY DEF TableInv, ListsInv
  <2> QED
    BY <2>1, <1>8, <1>11
<1>17. ASSUME NEW i \in MT!Heights, NEW m \in Linked(i)'
       PROVE  Follows(m, i)'
  <2>1. CASE i # l
    <3>1. Linked(i)' = Linked(i) /\ Follows(m, i) /\ m \in added \cup {MT!head}
      BY <2>1, <1>6, <1>14 DEF TableInv, ListsInv
    <3>2. link'[m][i] = link[m][i]
      BY <2>1, <3>1, <1>8, <1>11
    <3> QED
      BY <3>1, <3>2 DEF Follows
  <2>2. CASE i = l
    <3>1. Linked(i)' = Linked(l) \cup {n} /\ \A x \in Linked(l) : x \in Int /\ x \in MT!head..(MT!Null - 1)
      BY <2>2, <1>4, <1>6, <1>8, <1>14
    <3>2. CASE m = n
      <4>1. link'[m][i] = q
        BY <2>2, <3>2, <1>2, <1>8, <1>10, <1>11
      <4> QED
        BY <3>1, <3>2, <4>1, <1>8, <1>9 DEF Follows
    <3>3. CASE m = p
      <4>1. link'[m][i] = n
        BY <2>2, <3>3, <1>11
      <4>2. \A x \in Linked(l) : ~(p < x /\ x < n)
        BY <3>1, <1>5, <1>10, <1>8
      <4>3. ~(p < n /\ n < n)
        BY <1>8
      <4> QED
        BY <3>1, <3>3, <4>1, <4>2, <4>3, <1>5 DEF Follows
    <3>4. CASE m # n /\ m # p
      <4>1. m \in Linked(l) /\ link'[m][i] = link[m][l]
        BY <2>2, <3>1, <3>4, <1>8, <1>11
      <4>2. PICK y : y = link[m][l]
        OBVIOUS
      <4>3. y \in Linked(l) \cup {MT!Null} /\ m < y /\ \A x \in Linked(l) : ~(m < x /\ x < y)
        <5>1. Follows(m, l)
          BY <4>1, <1>4 DEF TableInv, ListsInv
        <5> QED
          BY <5>1, <4>2 DEF Follows
      <4>4. ~(m < n /\ n < y)
        <5> SUFFICES ASSUME m < n, n < y
                     PROVE  FALSE
          OBVIOUS
        <5>1. m <= p /\ m \in Int /\ y \in Int
          BY <1>4, <1>5, <3>1, <4>1, <4>3
        <5>2. m < p /\ p < y
          BY <5>1, <3>4, <1>5, <1>8, <1>10
        <5> QED
          BY <5>2, <4>3, <1>5
      <4> QED
        BY <3>1, <4>1, <4>2, <4>3, <4>4 DEF Follows
    <3> QED
      BY <3>2, <3>3, <3>4
  <2> QED
    BY <2>1, <2>2
<1>18. ASSUME NEW i \in MT!Heights, i # 0
       PROVE  Linked(i)' \subseteq Linked(i - 1)'
  <2>1. i - 1 \in MT!Heights /\ i - 1 < i
    BY <1>7, <1>18
  <2>2. Linked(i) \subseteq Linked(i - 1) /\ Linked(i - 1) \subseteq Linked(i - 1)'
    BY <2>1, <1>18, <1>15 DEF TableInv, ListsInv, ListsGrow
  <2>3. i = l => n \in Linked(i - 1)
    BY <2>1, <1>13
  <2> QED
    BY <2>2, <2>3, <1>14
<1>19. ListsInv'
  <2>1. added' \subseteq Linked(0)'
    <3>1. added \subseteq Linked(0) /\ Linked(0) \subseteq Linked(0)'
      BY <1>7, <1>15 DEF TableInv, ListsInv, ListsGrow
    <3>2. n \in Linked(0)'
      <4>1. 0 = l \/ 0 < l
        BY <1>4, <1>7
      <4> QED
        BY <4>1, <1>7, <1>13, <1>14
    <3> QED
      BY <3>1, <3>2, <1>3
  <2> QED
    BY <2>1, <1>16, <1>17, <1>18 DEF ListsInv
<1>20. \E k \in Keys : n = MT!Node(k, sequence + 1)
  BY <1>0, <1>3 DEF TableInv, InsertInv
<1>21. NodesInv'
  <2>1. ASSUME NEW m \in 1..(MT!Null - 1), m \notin added'
        PROVE  \A i \in MT!Heights : link'[m][i] = MT!Garbage
    <3>1. m \notin added /\ m # n /\ m \in MT!head..(MT!Null - 1)
      BY <2>1, <1>3, <1>4
    <3>2. \A i \in MT!Heights : link[m][i] = MT!Garbage
      BY <3>1, <1>0 DEF TableInv, NodesInv
    <3>3. m # p
      BY <3>1, <1>4, <1>5, <1>6
    <3> QED
      BY <3>1, <3>2, <3>3, <1>11
  <2>2. ASSUME NEW m \in added'
        PROVE  (Working' /\ m = writer'.node) \/ \E k \in Keys, s \in 1..sequence' : m = MT!Node(k, s)
    <3>1. CASE m = n
      <4>1. CASE Working'
        BY <3>1, <4>1, <1>12
      <4>2. CASE ~Working'
        <5>1. sequence + 1 \in 1..sequence'
          BY <4>2, <1>4, <1>7, <1>12
        <5> QED
          BY <3>1, <5>1, <1>20
      <4> QED
        BY <4>1, <4>2
    <3>2. CASE m # n
      <4>1. \E k \in Keys, s \in 1..sequence : m = MT!Node(k, s)
        BY <3>2, <1>0, <1>3 DEF TableInv, NodesInv
      <4>2. 1..sequence \subseteq 1..sequence'
        BY <1>4, <1>7, <1>12
      <4> QED
        BY <4>1, <4>2
    <3> QED
      BY <3>1, <3>2
  <2> QED
    BY <2>1, <2>2 DEF NodesInv
<1>22. InsertInv'
  <2> SUFFICES ASSUME Working'
               PROVE  InsertInv'
    BY DEF InsertInv
  <2>1. PICK j : j = l + 1
    OBVIOUS
  <2>2. writer'.node = n /\ writer'.level = j /\ j \in MT!Heights /\ j > l /\ j > 0 /\ n \in added'
    BY <2>1, <1>3, <1>4, <1>7, <1>12
  <2>3. ASSUME NEW i \in MT!Heights
        PROVE  /\ i < j => n \in Linked(i)'
               /\ i >= j => link'[n][i] = MT!Garbage
    <3>1. (i < j <=> (i = l \/ i < l)) /\ (i >= j => i > l)
      BY <2>1, <1>4, <1>6
    <3> QED
      BY <3>1, <1>8, <1>10, <1>11, <1>13, <1>14
  <2>4. \A i \in MT!Heights : i > j => i >= j
    BY <2>2, <1>6
  <2>5. link'[n][j] = MT!Garbage
    BY <2>2, <2>3, <1>6
  <2> QED
    BY <2>2, <2>3, <2>4, <2>5, <1>4, <1>12, <1>20 DEF InsertInv
<1>23. TableType'
  <2>1. added' \subseteq 1..(MT!Null - 1)
    BY <1>3, <1>4
  <2>2. sequence' \in 0..MaxEntries
    <3>1. sequence' = sequence \/ sequence' = sequence + 1
      BY <1>12
    <3> QED
      BY <3>1, <1>4, <1>7
  <2>3. maxHeight' \in 1..MaxHeight
    BY <1>3 DEF TableInv, TableType
  <2> QED
    BY <2>1, <2>2, <2>3, <1>11 DEF TableType
<1>24. sequence <= sequence' /\ sequence < MaxEntries
  BY <1>4, <1>7, <1>12
<1> QED
  BY <1>3, <1>15, <1>19, <1>20, <1>21, <1>22, <1>23, <1>24 DEF TableInv

\* What was added since a Get began is newer than what it asks for.
LEMMA NewerSortsBefore ==
    ASSUME NEW k \in Keys, NEW l \in Keys, NEW s \in Nat, NEW t \in 0..MaxEntries, s < t,
           MT!UserKey(MT!Node(l, t)) = k
    PROVE  MT!Node(l, t) < MT!Node(k, s)
<1>1. s \in 0..MaxEntries
  BY PartsAssumption
<1>2. l = k
  BY NodeOfEntry
<1> QED
  BY <1>1, <1>2, NodeOfEntry

\* A step of the writer disturbs no reader.
LEMMA ReadersUndisturbed ==
    ASSUME MemTableInv, TableInv', ListsGrow, reader' = reader, sequence <= sequence',
           \/ added' = added
           \/ sequence < MaxEntries /\ \E k \in Keys : added' = added \cup {MT!Node(k, sequence + 1)}
    PROVE  ReaderInv'
<1>1. /\ added \subseteq added' /\ sequence \in Nat /\ sequence' \in Nat /\ MaxEntries \in Nat
      /\ \A i \in MT!Heights : Linked(i) \subseteq Linked(i)'
  BY PartsAssumption DEF ListsGrow, MemTableInv, TableInv, TableType
<1> SUFFICES ASSUME NEW r \in Readers
             PROVE  ReadInv(reader[r])'
  BY DEF ReaderInv, MemTableInv
<1>2. PICK me \in Reads : me = reader[r]
  BY DEF ReaderInv, MemTableInv
<1>3. ReadInv(me)
  BY <1>2 DEF MemTableInv, ReaderInv
<1>4. ReadOn(me)'
  <2>1. me.op \in {"ge", "lt", "next"} => me.at \in Linked(me.level)'
    BY <1>1, <1>3 DEF ReadInv, ReadOn
  <2>2. ASSUME me.op = "ge"
        PROVE  \E k \in Keys, s \in 0..sequence' :
                  /\ me.target = MT!Node(k, s)
                  /\ \A n \in added' \ me.known : MT!UserKey(n) = k => n < me.target
    <3>1. PICK k \in Keys, s \in 0..sequence :
             /\ me.target = MT!Node(k, s)
             /\ \A n \in added \ me.known : MT!UserKey(n) = k => n < me.target
      BY <2>2, <1>3 DEF ReadInv, ReadOn
    <3>2. ASSUME NEW n \in added' \ me.known, MT!UserKey(n) = k, n \notin added
          PROVE  n < me.target
      <4>1. PICK l \in Keys : n = MT!Node(l, sequence + 1) /\ sequence < MaxEntries
        BY <3>2
      <4>2. sequence + 1 \in 0..MaxEntries /\ s \in Nat /\ s < sequence + 1
        BY <1>1, <4>1
      <4> QED
        BY <3>1, <3>2, <4>1, <4>2, NewerSortsBefore
    <3>3. s \in 0..sequence'
      BY <1>1
    <3> QED
      BY <3>1, <3>2, <3>3
  <2> QED
    BY <2>1, <2>2, <1>3 DEF ReadInv, ReadOn
<1>5. ReadInv(me)'
  BY <1>1, <1>3, <1>4 DEF ReadInv, ReadDone
<1> QED
  BY <1>2, <1>5

\* A step of a reader changes nothing but what it has.
LEMMA ReaderStep ==
    ASSUME MemTableInv, NEW r \in Readers, NEW me \in Reads, ReadInv(me), reader' = [reader EXCEPT ![r] = me],
           link' = link, added' = added, writer' = writer, sequence' = sequence
    PROVE  ReaderInv'
<1>1. reader \in [Readers -> Reads] /\ \A x \in Readers : ReadInv(reader[x])
  BY DEF MemTableInv, ReaderInv
<1>2. \A i : Linked(i)' = Linked(i)
  BY DEF Linked, Working
<1>3. ASSUME NEW you, ReadInv(you)
      PROVE  ReadInv(you)'
  BY <1>2, <1>3 DEF ReadInv, ReadOn, ReadDone
<1>4. ASSUME NEW x \in Readers
      PROVE  ReadInv(reader[x])'
  <2>1. PICK you : you = reader'[x]
    OBVIOUS
  <2>2. ReadInv(you)
    BY <1>1, <2>1
  <2> QED
    BY <2>1, <2>2, <1>3
<1>5. reader' \in [Readers -> Reads]
  BY <1>1
<1> QED
  BY <1>4, <1>5 DEF ReaderInv

\* A read that begins is on head, or on the node its caller is at.
LEMMA ReadBegins ==
    ASSUME MemTableInv, NEW r \in Readers, NEW op \in {"ge", "lt", "next"}, NEW target \in 0..MT!Null,
           NEW from \in added \cup {MT!head},
           op = "next" => from = target, op # "next" => from = MT!head /\ 0 < target,
           op = "ge" => \E k \in Keys, s \in 0..sequence : target = MT!Node(k, s),
           MT!Begin(r, op, target, from)
    PROVE  ReaderInv'
<1>1. /\ link' = link /\ maxHeight' = maxHeight /\ added' = added /\ writer' = writer /\ sequence' = sequence
  BY DEF MT!Begin, MT!memVars
<1>2. PICK h \in 1..maxHeight :
         reader' = [reader EXCEPT ![r] = [op |-> op, target |-> target, at |-> from,
                                          level |-> IF op = "next" THEN 0 ELSE h - 1,
                                          known |-> added, found |-> MT!Null]]
  BY DEF MT!Begin
<1>3. PICK me : me = [op |-> op, target |-> target, at |-> from, level |-> IF op = "next" THEN 0 ELSE h - 1,
                      known |-> added, found |-> MT!Null]
  OBVIOUS
<1>4. /\ me.op = op /\ me.target = target /\ me.at = from /\ me.known = added /\ me.found = MT!Null
      /\ me.level = IF op = "next" THEN 0 ELSE h - 1
  BY <1>3
<1>5. /\ added \subseteq 1..(MT!Null - 1) /\ MT!Null \in Nat /\ MT!head = 0 /\ MaxHeight \in Nat \ {0}
      /\ maxHeight \in 1..MaxHeight /\ MT!Heights = 0..(MaxHeight - 1)
      /\ reader \in [Readers -> Reads] /\ \A x \in Readers : ReadInv(reader[x])
  BY PartsAssumption, NullIs DEF MT!Heights, MemTableInv, TableInv, TableType, ReaderInv
<1>6. me.level \in MT!Heights /\ 0 \in MT!Heights
  BY <1>4, <1>5
<1>7. me \in Reads
  <2>1. added \in SUBSET Int /\ from \in Int /\ target \in Int /\ MT!Null \in Int
    BY <1>5
  <2>2. me.level \in Int /\ op \in Ops
    BY <1>5, <1>6 DEF Ops
  <2> QED
    BY <1>3, <1>4, <2>1, <2>2 DEF Reads
<1>8. MT!head \in Linked(me.level) /\ added \subseteq Linked(0) /\ MT!head \in Linked(0)
  <2>1. \A i \in MT!Heights : MT!head \in Linked(i)
    <3>1. \A i \in MT!Heights : link[MT!head][i] # MT!Garbage
      BY DEF MemTableInv, TableInv, ListsInv
    <3>2. Working => writer.node # MT!head
      BY <1>5 DEF MemTableInv, TableInv, InsertInv
    <3> QED
      BY <3>1, <3>2 DEF Linked
  <2> QED
    BY <2>1, <1>6 DEF MemTableInv, TableInv, ListsInv
<1>9. ReadInv(me)
  <2>1. me.at \in Linked(me.level)
    BY <1>4, <1>8
  <2>2. IF me.op = "next" THEN me.at = me.target /\ me.level = 0 ELSE me.at < me.target
    BY <1>4, <1>5
  <2>3. ReadOn(me)
    BY <2>1, <2>2, <1>4, <1>6 DEF ReadOn
  <2> QED
    BY <2>3, <1>4 DEF ReadInv, ReadDone
<1>10. reader' = [reader EXCEPT ![r] = me]
  BY <1>2, <1>3
<1> QED
  BY <1>1, <1>7, <1>9, <1>10, ReaderStep

\* What a Get makes of the node it found is what the entries that were in when it began
\* make it: no entry for its key is between, and none that is newer is behind.
LEMMA GetFinds ==
    ASSUME NEW known \in SUBSET Nat, NEW target \in Nat, NEW found \in Nat, NEW k, MT!UserKey(target) = k,
           0 < target, target <= found, found <= MT!Null,
           \A n \in known : n >= target => found <= n,
           found # MT!Null /\ found \notin known => MT!UserKey(found) # k
    PROVE  MT!Found(k, found) = MT!Found(k, MT!Min({n \in known : n >= target} \cup {MT!Null}))
<1> DEFINE S == {n \in known : n >= target} \cup {MT!Null}
<1>1. S \in SUBSET Nat /\ S # {} /\ MT!Null \in S /\ \A n \in S : found <= n
  BY NullIs
<1>2. found \in known => found \in S
  OBVIOUS
<1> HIDE DEF S
<1>3. PICK m : m = MT!Min(S)
  OBVIOUS
<1>4. m \in S /\ \A n \in S : m <= n
  <2>1. Min(S) \in S /\ \A n \in S : Min(S) <= n
    BY <1>1, LeastOf
  <2>2. MT!Min(S) = Min(S)
    BY DEF MT!Min, Min
  <2> QED
    BY <1>3, <2>1, <2>2
<1>5. MT!Found(k, found) = MT!Found(k, m)
  <2>1. CASE found = m
    BY <2>1
  <2>2. CASE found # m
    <3>1. found < m /\ m <= MT!Null /\ m \in Nat
      BY <2>2, <1>1, <1>4
    <3>2. found # MT!Null /\ found \notin known
      BY <3>1, <1>2, <1>4, NullIs
    <3>3. MT!UserKey(found) # k
      BY <3>2
    <3>4. MT!UserKey(m) # k
      <4>1. MT!UserKey(target) \in Int /\ MT!UserKey(found) \in Int /\ MT!UserKey(target) <= MT!UserKey(found)
        BY UserKeyGrows
      <4>2. 0 < found /\ found <= m
        BY <3>1
      <4>3. MT!UserKey(m) \in Int /\ MT!UserKey(found) <= MT!UserKey(m)
        BY <3>1, <4>2, UserKeyGrows
      <4> QED
        BY <3>3, <4>1, <4>3
    <3> QED
      BY <3>3, <3>4 DEF MT!Found
  <2> QED
    BY <2>1, <2>2
<1> QED
  BY <1>3, <1>5 DEF S

\* A load leads along the level, down, or to what is looked for.
LEMMA ReaderLoads ==
    ASSUME MemTableInv, NEW r \in Readers, MT!Load(r)
    PROVE  ReaderInv'
<1>1. /\ link' = link /\ maxHeight' = maxHeight /\ added' = added /\ writer' = writer /\ sequence' = sequence
  BY DEF MT!Load, MT!memVars
<1>2. PICK me \in Reads : me = reader[r] /\ ReadInv(me)
  BY DEF MemTableInv, ReaderInv
<1>3. PICK y : y = link[me.at][me.level]
  OBVIOUS
<1>4. me.op \in {"ge", "lt", "next"}
  BY <1>2 DEF MT!Load, MT!Idle, Reads, Ops
<1>5. PICK you : you = IF me.op # "next" /\ y < me.target THEN [me EXCEPT !.at = y]
                       ELSE IF me.level > 0 THEN [me EXCEPT !.level = me.level - 1]
                       ELSE [me EXCEPT !.op = IF me.op = "ge" THEN "got" ELSE "done",
                                       !.found = IF me.op = "lt" THEN me.at ELSE y]
  OBVIOUS
<1>6. reader' = [reader EXCEPT ![r] = you]
  BY <1>2, <1>3, <1>5 DEF MT!Load
<1>7. /\ added \subseteq 1..(MT!Null - 1) /\ MT!Null \in Nat /\ MT!head = 0 /\ MT!Heights = 0..(MaxHeight - 1)
      /\ MaxHeight \in Nat \ {0}
  BY PartsAssumption, NullIs DEF MT!Heights, MemTableInv, TableInv, TableType
<1>8. /\ me.level \in MT!Heights /\ me.at \in Linked(me.level) /\ me.target \in 0..MT!Null
      /\ IF me.op = "next" THEN me.at = me.target /\ me.level = 0 ELSE me.at < me.target
      /\ me.at \in added \cup {MT!head} /\ me.found \in added \cup {MT!head, MT!Null} /\ me.known \subseteq added
  BY <1>2, <1>4 DEF ReadInv, ReadOn
<1>9. y \in Linked(me.level) \cup {MT!Null} /\ me.at < y /\ \A x \in Linked(me.level) : ~(me.at < x /\ x < y)
  <2>1. Follows(me.at, me.level)
    BY <1>8 DEF MemTableInv, TableInv, ListsInv
  <2> QED
    BY <2>1, <1>3 DEF Follows
<1>10. \A i : Linked(i) \subseteq added \cup {MT!head}
  BY DEF Linked
<1>11. /\ \A x \in added \cup {MT!head} : x \in Nat /\ x < MT!Null
       /\ y \in Nat /\ y <= MT!Null /\ me.at \in Nat /\ me.target \in Nat /\ y > 0
  <2>1. MT!Null >= 1
    BY NullIs
  <2>2. \A x \in added : x \in Nat /\ x < MT!Null
    BY <1>7
  <2>3. \A x \in added \cup {MT!head} : x \in Nat /\ x < MT!Null
    BY <2>1, <2>2, <1>7
  <2>4. y \in added \cup {MT!head} \/ y = MT!Null
    BY <1>9, <1>10
  <2>5. y \in Nat /\ y <= MT!Null
    <3>1. CASE y = MT!Null
      BY <3>1, <1>7
    <3>2. CASE y \in added \cup {MT!head}
      <4>1. y \in Nat /\ y < MT!Null /\ MT!Null \in Nat
        BY <3>2, <2>3, <1>7
      <4> QED
        BY <4>1
    <3> QED
      BY <3>1, <3>2, <2>4
  <2>6. me.at \in Nat /\ me.target \in Nat
    <3>1. me.at \in added \cup {MT!head} /\ me.target \in 0..MT!Null /\ MT!Null \in Nat
      BY <1>7, <1>8
    <3>2. me.at \in Nat
      BY <2>3, <3>1
    <3> QED
      BY <3>1, <3>2
  <2> QED
    BY <2>3, <2>5, <2>6, <1>9
<1>12. added \subseteq Linked(0)
  BY DEF MemTableInv, TableInv, ListsInv
<1>13. CASE me.op # "next" /\ y < me.target
  <2>1. you = [me EXCEPT !.at = y] /\ you \in Reads
    BY <1>2, <1>5, <1>11, <1>13 DEF Reads
  <2>2. /\ you.op = me.op /\ you.target = me.target /\ you.at = y /\ you.level = me.level /\ you.known = me.known
        /\ you.found = me.found
    BY <2>1, <1>2 DEF Reads
  <2>3. y \in Linked(me.level) /\ y \in added \cup {MT!head}
    <3>1. y # MT!Null
      BY <1>7, <1>8, <1>11, <1>13
    <3> QED
      BY <3>1, <1>9, <1>10
  <2>4. ReadInv(you)
    BY <2>2, <2>3, <1>2, <1>4, <1>13 DEF ReadInv, ReadOn, ReadDone
  <2> QED
    BY <2>1, <2>4, <1>1, <1>6, ReaderStep
<1>14. CASE ~(me.op # "next" /\ y < me.target) /\ me.level > 0
  <2>1. you = [me EXCEPT !.level = me.level - 1] /\ me.level - 1 \in Int /\ me.level \in Int
    BY <1>5, <1>7, <1>8, <1>14
  <2>2. you \in Reads
    BY <2>1, <1>2 DEF Reads
  <2>3. /\ you.op = me.op /\ you.target = me.target /\ you.at = me.at /\ you.level = me.level - 1
        /\ you.known = me.known /\ you.found = me.found
    BY <2>1, <1>2 DEF Reads
  <2>4. me.level # 0 /\ me.op # "next" /\ me.level - 1 \in MT!Heights
    BY <1>7, <1>8, <1>14
  <2>5. me.at \in Linked(me.level - 1)
    <3>1. Linked(me.level) \subseteq Linked(me.level - 1)
      BY <2>4, <1>8 DEF MemTableInv, TableInv, ListsInv
    <3> QED
      BY <3>1, <1>8
  <2>6. ReadInv(you)
    BY <2>3, <2>4, <2>5, <1>2, <1>4, <1>8 DEF ReadInv, ReadOn, ReadDone
  <2> QED
    BY <2>2, <2>6, <1>1, <1>6, ReaderStep
<1>15. CASE ~(me.op # "next" /\ y < me.target) /\ ~(me.level > 0)
  <2>1. PICK f : f = IF me.op = "lt" THEN me.at ELSE y
    OBVIOUS
  <2>2. you = [me EXCEPT !.op = IF me.op = "ge" THEN "got" ELSE "done", !.found = f]
    BY <2>1, <1>5, <1>15
  <2>3. me.level = 0 /\ f \in Nat
    BY <2>1, <1>7, <1>8, <1>11, <1>15
  <2>4. you \in Reads
    <3>1. PICK o \in Ops : o = IF me.op = "ge" THEN "got" ELSE "done"
      BY DEF Ops
    <3>2. you = [me EXCEPT !.op = o, !.found = f] /\ f \in Int
      BY <2>2, <2>3, <3>1
    <3> QED
      BY <3>1, <3>2, <1>2 DEF Reads
  <2>5. /\ you.op = (IF me.op = "ge" THEN "got" ELSE "done") /\ you.target = me.target /\ you.at = me.at
        /\ you.known = me.known /\ you.found = f
    BY <2>2, <1>2 DEF Reads
  <2>6. f \in added \cup {MT!head, MT!Null}
    BY <2>1, <1>8, <1>9, <1>10
  <2>7. \A n \in me.known : n \in Nat /\ ~(me.at < n /\ n < y)
    BY <2>3, <1>8, <1>9, <1>11, <1>12
  <2>8. me.op \in {"lt", "next"} => \A n \in me.known : ~(f < n /\ n < me.target) /\ ~(me.target < n /\ n < f)
    <3>1. CASE me.op = "lt"
      <4>1. f = me.at /\ me.at < me.target /\ me.target <= y
        BY <3>1, <2>1, <1>8, <1>11, <1>15
      <4> QED
        BY <4>1, <2>7, <1>11
    <3>2. CASE me.op = "next"
      <4>1. f = y /\ me.at = me.target
        BY <3>2, <2>1, <1>8
      <4> QED
        BY <4>1, <2>7, <1>9, <1>11
    <3> QED
      BY <3>1, <3>2
  <2>9. ASSUME me.op = "ge"
        PROVE  LET k == MT!UserKey(me.target)
               IN  MT!Found(k, f) = MT!Found(k, MT!Min({n \in me.known : n >= me.target} \cup {MT!Null}))
    <3>1. f = y /\ me.at < me.target /\ me.target <= y
      BY <2>9, <2>1, <1>8, <1>11, <1>15
    <3>2. PICK k \in Keys, s \in 0..sequence :
             /\ me.target = MT!Node(k, s)
             /\ \A n \in added \ me.known : MT!UserKey(n) = k => n < me.target
      BY <2>9, <1>2 DEF ReadInv, ReadOn
    <3>3. MT!UserKey(me.target) = k
      <4>1. s \in 0..MaxEntries
        BY PartsAssumption DEF MemTableInv, TableInv, TableType
      <4> QED
        BY <3>2, <4>1, NodeOfEntry
    <3>4. \A n \in me.known : n >= me.target => y <= n
      BY <3>1, <2>7, <1>11
    <3>5. y # MT!Null /\ y \notin me.known => MT!UserKey(y) # k
      <4> SUFFICES ASSUME y # MT!Null, y \notin me.known, MT!UserKey(y) = k
                   PROVE  FALSE
        OBVIOUS
      <4>1. y \in added
        BY <1>7, <1>9, <1>10, <1>11
      <4>2. y < me.target
        BY <3>2, <4>1
      <4> QED
        BY <3>1, <4>2, <1>11
    <3>6. me.known \in SUBSET Nat /\ 0 < me.target
      BY <2>7, <3>1, <1>11
    <3>7. PICK known, target : known = me.known /\ target = me.target
      OBVIOUS
    <3>8. /\ known \in SUBSET Nat /\ target \in Nat /\ y \in Nat /\ MT!UserKey(target) = k /\ 0 < target
          /\ target <= y /\ y <= MT!Null
          /\ \A n \in known : n >= target => y <= n
          /\ y # MT!Null /\ y \notin known => MT!UserKey(y) # k
      BY <3>1, <3>3, <3>4, <3>5, <3>6, <3>7, <1>11
    <3>9. MT!Found(k, y) = MT!Found(k, MT!Min({n \in known : n >= target} \cup {MT!Null}))
      BY <3>8, GetFinds
    <3> QED
      BY <3>1, <3>3, <3>7, <3>9
  <2>10. ReadInv(you)
    <3>1. ReadOn(you)
      BY <2>5 DEF ReadOn
    <3>2. ReadDone(you)
      <4>1. CASE me.op = "ge"
        BY <4>1, <2>5, <2>9 DEF ReadDone
      <4>2. CASE me.op # "ge"
        BY <4>2, <2>5, <2>8, <1>4 DEF ReadDone
      <4> QED
        BY <4>1, <4>2
    <3> QED
      BY <3>1, <3>2, <2>5, <2>6, <1>8 DEF ReadInv
  <2> QED
    BY <2>4, <2>10, <1>1, <1>6, ReaderStep
<1> QED
  BY <1>13, <1>14, <1>15

\* At first the lists are empty and nobody reads.
LEMMA MemTableInit ==
    ASSUME MT!Init
    PROVE  MemTableInv
<1>1. /\ MT!Null \in Nat /\ MT!Null >= 1 /\ MT!Garbage = -1 /\ MT!head = 0 /\ MaxHeight \in Nat \ {0}
      /\ MT!Heights = 0..(MaxHeight - 1) /\ MaxEntries \in Nat
  BY NullIs, PartsAssumption DEF MT!Heights
<1>2. /\ link = [n \in MT!head..(MT!Null - 1) |-> [i \in MT!Heights |-> IF n = MT!head THEN MT!Null ELSE MT!Garbage]]
      /\ maxHeight = 1 /\ added = {} /\ ~Working /\ sequence = 0 /\ reader = [r \in Readers |-> MT!NoRead]
  BY DEF MT!Init, Working
<1>3. \A i \in MT!Heights : link[MT!head][i] = MT!Null
  <2>1. MT!head \in MT!head..(MT!Null - 1)
    BY <1>1
  <2> QED
    BY <1>2, <2>1
<1>4. \A n \in 1..(MT!Null - 1), i \in MT!Heights : link[n][i] = MT!Garbage
  <2>1. \A n \in 1..(MT!Null - 1) : n \in MT!head..(MT!Null - 1) /\ n # MT!head
    BY <1>1
  <2> QED
    BY <1>2, <2>1
<1>5. TableType
  <2>1. link \in [MT!head..(MT!Null - 1) -> [MT!Heights -> Int]]
    <3>1. MT!Null \in Int /\ MT!Garbage \in Int
      BY <1>1
    <3> QED
      BY <1>2, <3>1
  <2>2. 1 \in 1..MaxHeight /\ 0 \in 0..MaxEntries
    BY <1>1
  <2> QED
    BY <1>2, <2>1, <2>2 DEF TableType
<1>6. \A i \in MT!Heights : Linked(i) = {MT!head}
  <2>1. MT!Null # MT!Garbage
    BY <1>1
  <2> QED
    BY <2>1, <1>2, <1>3 DEF Linked
<1>7. ListsInv
  <2>1. ASSUME NEW i \in MT!Heights, NEW m \in Linked(i)
        PROVE  Follows(m, i)
    <3>1. m = MT!head /\ link[m][i] = MT!Null
      BY <1>3, <1>6
    <3>2. m < link[m][i] /\ ~(m < MT!head)
      BY <3>1, <1>1
    <3> QED
      BY <3>1, <3>2, <1>6 DEF Follows
  <2>2. \A i \in MT!Heights : i # 0 => i - 1 \in MT!Heights
    BY <1>1
  <2>3. MT!Null # MT!Garbage
    BY <1>1
  <2> QED
    BY <2>1, <2>2, <2>3, <1>2, <1>3, <1>6 DEF ListsInv
<1>8. NodesInv /\ InsertInv
  BY <1>2, <1>4 DEF NodesInv, InsertInv
<1>9. MT!NoRead \in Reads
  <2>1. MT!Null \in Int /\ MT!head \in Int
    BY <1>1
  <2> QED
    BY <2>1 DEF MT!NoRead, Reads, Ops
<1>10. ReadInv(MT!NoRead)
  BY <1>2 DEF ReadInv, ReadOn, ReadDone, MT!NoRead
<1> QED
  BY <1>2, <1>5, <1>7, <1>8, <1>9, <1>10 DEF MemTableInv, TableInv, ReaderInv

\* A step of the memtable: of the writer, or of a reader.
LEMMA MemTableStep ==
    ASSUME MemTableInv, [MT!Next]_(MT!vars)
    PROVE  MemTableInv'
<1>0. TableInv /\ ReaderInv
  BY DEF MemTableInv
<1>1. ASSUME NEW k \in Keys, NEW h \in 1..MaxHeight, MT!Add(k, h)
      PROVE  MemTableInv'
  <2>1. TableInv' /\ ListsGrow /\ added' = added /\ sequence' = sequence
    BY <1>0, <1>1, MemTableAdd
  <2>2. reader' = reader /\ sequence <= sequence'
    BY <1>0, <1>1, <2>1, PartsAssumption DEF MT!Add, TableInv, TableType
  <2> QED
    BY <2>1, <2>2, ReadersUndisturbed DEF MemTableInv
<1>2. CASE MT!SetOwnLink
  <2>1. TableInv' /\ ListsGrow /\ added' = added /\ sequence' = sequence
    BY <1>0, <1>2, MemTableSetOwnLink
  <2>2. reader' = reader /\ sequence <= sequence'
    BY <1>0, <1>2, <2>1, PartsAssumption DEF MT!SetOwnLink, TableInv, TableType
  <2> QED
    BY <2>1, <2>2, ReadersUndisturbed DEF MemTableInv
<1>3. CASE MT!Publish
  <2>1. /\ TableInv' /\ ListsGrow /\ sequence <= sequence' /\ sequence < MaxEntries
        /\ \E k \in Keys : added' = added \cup {MT!Node(k, sequence + 1)}
    BY <1>0, <1>3, MemTablePublish
  <2>2. reader' = reader
    BY <1>3 DEF MT!Publish
  <2> QED
    BY <2>1, <2>2, ReadersUndisturbed DEF MemTableInv
<1>4. ASSUME UNCHANGED <<link, maxHeight, added, writer, sequence>>
      PROVE  TableInv'
  <2>1. \A i : Linked(i)' = Linked(i)
    BY <1>4 DEF Linked, Working
  <2>2. TableType' /\ NodesInv'
    BY <1>0, <1>4 DEF TableInv, TableType, NodesInv, Working
  <2>3. \A m, i : Follows(m, i)' <=> Follows(m, i)
    BY <1>4, <2>1 DEF Follows
  <2>4. ListsInv'
    BY <1>0, <1>4, <2>1, <2>3 DEF TableInv, ListsInv
  <2>5. InsertInv'
    <3>1. Follows(writer.node, writer.level)' <=> Follows(writer.node, writer.level)
      BY <1>4, <2>1 DEF Follows
    <3> QED
      BY <1>0, <1>4, <2>1, <3>1 DEF TableInv, InsertInv, Working
  <2> QED
    BY <2>2, <2>4, <2>5 DEF TableInv
<1>5. /\ MT!Null \in Nat /\ MT!Null >= 1 /\ MT!head = 0 /\ added \subseteq 1..(MT!Null - 1) /\ sequence \in 0..MaxEntries
      /\ MaxEntries \in Nat
  BY <1>0, NullIs, PartsAssumption DEF TableInv, TableType
<1>6. ASSUME NEW r \in Readers, NEW k \in Keys, NEW s \in 0..sequence, MT!Get(r, k, s)
      PROVE  MemTableInv'
  <2>1. s \in 0..MaxEntries
    BY <1>5
  <2>2. PICK target : target = MT!Node(k, s)
    OBVIOUS
  <2>3. target \in 1..(MT!Null - 1)
    BY <2>1, <2>2, NodeOfEntry
  <2>4. target \in 0..MT!Null /\ 0 < target
    BY <2>3, <1>5
  <2>5. MT!Begin(r, "ge", target, MT!head)
    BY <1>6, <2>2 DEF MT!Get
  <2>6. ReaderInv'
    BY <2>2, <2>4, <2>5, ReadBegins
  <2>7. UNCHANGED <<link, maxHeight, added, writer, sequence>>
    BY <2>5 DEF MT!Begin, MT!memVars
  <2> QED
    BY <2>6, <2>7, <1>4 DEF MemTableInv
<1>7. ASSUME NEW r \in Readers, MT!SeekToFirst(r) \/ MT!SeekToLast(r)
      PROVE  MemTableInv'
  <2>1. MT!head \in 0..MT!Null /\ MT!Null \in 0..MT!Null /\ 0 < MT!Null
    BY <1>5
  <2>2. CASE MT!SeekToFirst(r)
    <3>1. MT!Begin(r, "next", MT!head, MT!head)
      BY <2>2 DEF MT!SeekToFirst
    <3>2. ReaderInv'
      BY <2>1, <3>1, ReadBegins
    <3> QED
      BY <3>1, <3>2, <1>4 DEF MemTableInv, MT!Begin, MT!memVars
  <2>3. CASE MT!SeekToLast(r)
    <3>1. MT!Begin(r, "lt", MT!Null, MT!head)
      BY <2>3 DEF MT!SeekToLast
    <3>2. ReaderInv'
      BY <2>1, <3>1, ReadBegins
    <3> QED
      BY <3>1, <3>2, <1>4 DEF MemTableInv, MT!Begin, MT!memVars
  <2> QED
    BY <1>7, <2>2, <2>3
<1>8. ASSUME NEW r \in Readers, MT!Next1(r) \/ MT!Prev1(r)
      PROVE  MemTableInv'
  <2>1. PICK f : f = reader[r].found
    OBVIOUS
  <2>2. f \in added
    BY <1>8, <2>1 DEF MT!Next1, MT!Prev1
  <2>3. f \in 0..MT!Null /\ 0 < f
    BY <2>2, <1>5
  <2>4. CASE MT!Next1(r)
    <3>1. MT!Begin(r, "next", f, f)
      BY <2>1, <2>4 DEF MT!Next1
    <3>2. ReaderInv'
      BY <2>2, <2>3, <3>1, ReadBegins
    <3> QED
      BY <3>1, <3>2, <1>4 DEF MemTableInv, MT!Begin, MT!memVars
  <2>5. CASE MT!Prev1(r)
    <3>1. MT!Begin(r, "lt", f, MT!head)
      BY <2>1, <2>5 DEF MT!Prev1
    <3>2. ReaderInv'
      BY <2>3, <3>1, ReadBegins
    <3> QED
      BY <3>1, <3>2, <1>4 DEF MemTableInv, MT!Begin, MT!memVars
  <2> QED
    BY <1>8, <2>4, <2>5
<1>9. ASSUME NEW r \in Readers, MT!Load(r)
      PROVE  MemTableInv'
  <2>1. ReaderInv'
    BY <1>9, ReaderLoads
  <2> QED
    BY <2>1, <1>4, <1>9 DEF MemTableInv, MT!Load, MT!memVars
<1>10. CASE UNCHANGED MT!vars
  <2>1. UNCHANGED <<link, maxHeight, added, writer, sequence>> /\ reader' = reader
    BY <1>10 DEF MT!vars, MT!memVars
  <2>2. TableInv' /\ sequence <= sequence'
    BY <2>1, <1>4, <1>5
  <2>3. ListsGrow
    BY <2>1 DEF ListsGrow, Linked, Working
  <2> QED
    BY <2>1, <2>2, <2>3, ReadersUndisturbed DEF MemTableInv
<1> QED
  BY <1>1, <1>2, <1>3, <1>6, <1>7, <1>8, <1>9, <1>10 DEF MT!Next, Keys

\* However the loads and stores of the writer and the readers of a memtable interleave: no
\* reader follows a link that was not set or passes over an entry that was in when it
\* began, and Get sees exactly the newest entry of its key; and entries and nodes share no
\* memory of the arena.
THEOREM MemTableReadable == MT!Spec /\ AR!Spec => []ReadersMissNothing
<1>1. MT!Init => MemTableInv
  BY MemTableInit
<1>2. MemTableInv /\ [MT!Next]_(MT!vars) => MemTableInv'
  BY MemTableStep
<1>3. MemTableInv => MT!ReadersMissNothing
  <2> SUFFICES ASSUME MemTableInv, NEW r \in Readers
               PROVE  LET me == reader[r] IN
                      /\ me.at # MT!Garbage /\ me.found \in added \cup {MT!head, MT!Null}
                      /\ me.op = "done" =>
                            \A n \in me.known : ~(me.found < n /\ n < me.target) /\ ~(me.target < n /\ n < me.found)
                      /\ me.op = "got" =>
                            LET k == MT!UserKey(me.target)
                            IN  MT!Found(k, me.found) = MT!Found(k, MT!Min({n \in me.known : n >= me.target} \cup {MT!Null}))
    BY DEF MT!ReadersMissNothing
  <2>1. PICK me : me = reader[r] /\ ReadInv(me)
    BY DEF MemTableInv, ReaderInv
  <2>2. me.at # MT!Garbage
    <3>1. added \subseteq 1..(MT!Null - 1) /\ MT!Null \in Nat /\ MT!head = 0 /\ MT!Garbage = -1
      BY NullIs DEF MemTableInv, TableInv, TableType
    <3>2. me.at \in added \/ me.at = MT!head
      BY <2>1 DEF ReadInv
    <3> QED
      BY <3>1, <3>2
  <2> QED
    BY <2>1, <2>2 DEF ReadInv, ReadDone
<1>4. MT!Spec => []MT!ReadersMissNothing
  BY <1>1, <1>2, <1>3, PTL DEF MT!Spec
<1>5. MT!ReadersMissNothing /\ AR!GivenApart => ReadersMissNothing
  BY DEF ReadersMissNothing
<1> QED
  BY <1>4, <1>5, PiecesAreApart, PTL

-----------------------------------------------------------------------------
\* Versions and their files.

Levels == 0..(VersionLevels - 1)
FileRecords ==
    [number : Nat, smallest : Nat, largest : Nat, refs : Nat, seeks : Int, freed : BOOLEAN]
VersionRecords ==
    [files : [Levels -> SUBSET Nat], refs : Nat, freed : BOOLEAN, toCompact : Nat, toLevel : Int,
     score : BOOLEAN, level : Int]
InFiles(x, f) == \E l \in Levels : f \in x.files[l]

\* The versions that have a file.
Owners(vs, f) == {v \in 1..Len(vs) : InFiles(vs[v], f)}

\* A version is of files that were made; one that is freed has none; the file that was
\* charged too often, and the level of the best score, have a level below.
VersionSound(x, n) ==
    /\ x \in VersionRecords
    /\ \A l \in Levels : x.files[l] \subseteq 1..n
    /\ x.freed => x.toCompact = 0 /\ \A l \in Levels : x.files[l] = {}
    /\ x.toCompact # 0 => x.toLevel \in 0..(VersionLevels - 2) /\ x.toCompact \in x.files[x.toLevel]
    /\ x.score => x.level \in 0..(VersionLevels - 2)

\* A file has a range, and one reference for each version that has it; with the last one it
\* was freed.
FilesSound(m, vs) ==
    \A f \in 1..Len(m) :
        /\ m[f].smallest <= m[f].largest
        /\ m[f].refs = Cardinality(Owners(vs, f))
        /\ m[f].freed <=> Owners(vs, f) = {}

Sound(m, vs) ==
    /\ m \in Seq(FileRecords) /\ vs \in Seq(VersionRecords)
    /\ \A v \in 1..Len(vs) : VersionSound(vs[v], Len(m))
    /\ FilesSound(m, vs)

\* Who uses a version: readers, the database and a compaction.
UsersOf(cur, rd, comp, v) ==
    Cardinality({r \in Readers : rd[r] = v}) + (IF cur = v THEN 1 ELSE 0) + (IF comp.version = v THEN 1 ELSE 0)

UsesSound(vs, cur, rd, comp, nx) ==
    /\ cur \in 1..Len(vs) /\ rd \in [Readers -> 0..Len(vs)] /\ comp.version \in 0..Len(vs)
    /\ nx \in 0..Len(vs) /\ nx # cur
    /\ \A v \in 1..Len(vs) :
          /\ vs[v].refs = UsersOf(cur, rd, comp, v)
          /\ vs[v].freed <=> vs[v].refs = 0 /\ v # nx
    /\ nx # 0 => vs[nx].refs = 0

\* The inputs of a compaction at work lie on its level and the one below, also in a version
\* with a memtable more that is about to be installed.
InputsIn(comp, x) ==
    comp.in0 \subseteq x.files[comp.level] /\ comp.in1 \subseteq x.files[comp.level + 1]

CompactionSound(vs, cur, comp, nx) ==
    /\ comp \in [version : Nat, level : Int, in0 : SUBSET Nat, in1 : SUBSET Nat]
    /\ comp.level = -1 => comp.version # 0
    /\ comp.version # 0 /\ comp.level >= 0 =>
          /\ comp.level \in 0..(VersionLevels - 2) /\ comp.in0 # {}
          /\ InputsIn(comp, vs[cur])
          /\ nx # 0 => InputsIn(comp, vs[nx])

VersionsInv ==
    /\ Sound(meta, versions)
    /\ UsesSound(versions, installed, pinned, compaction, built)
    /\ CompactionSound(versions, installed, compaction, built)

\* One of the versions is another record than before.
Replaced(vs, v, x, ws) ==
    /\ ws \in Seq(VersionRecords) /\ Len(ws) = Len(vs) /\ ws[v] = x
    /\ \A w \in 1..Len(vs) : w # v => ws[w] = vs[w]

\* A version that was freed.
Gone == [VE!NewVersion(VE!NoFiles) EXCEPT !.freed = TRUE]

\* A version as it is made has no file, no users and nothing to compact.
LEMMA NewVersionIs ==
    ASSUME NEW fs \in [Levels -> SUBSET Nat]
    PROVE  /\ VE!NewVersion(fs) \in VersionRecords
           /\ VE!NewVersion(fs) = [files |-> fs, refs |-> 0, freed |-> FALSE, toCompact |-> 0, toLevel |-> -1,
                                   score |-> FALSE, level |-> -1]
BY PartsAssumption DEF VE!NewVersion, VersionRecords

\* A version that was freed is a sound one, with no files.
LEMMA GoneIs ==
    /\ Gone \in VersionRecords /\ Gone.freed /\ Gone.refs = 0 /\ Gone.toCompact = 0 /\ ~Gone.score
    /\ \A l \in Levels : Gone.files[l] = {}
<1>1. VE!NoFiles \in [Levels -> SUBSET Nat] /\ \A l \in Levels : VE!NoFiles[l] = {}
  BY DEF VE!NoFiles, VE!Levels, Levels
<1>2. PICK fs : fs = VE!NoFiles
  OBVIOUS
<1>3. PICK x : x = VE!NewVersion(fs)
  OBVIOUS
<1>4. x = [files |-> fs, refs |-> 0, freed |-> FALSE, toCompact |-> 0, toLevel |-> -1,
           score |-> FALSE, level |-> -1]
  BY <1>1, <1>2, <1>3, NewVersionIs
<1>5. Gone = [files |-> fs, refs |-> 0, freed |-> TRUE, toCompact |-> 0, toLevel |-> -1,
              score |-> FALSE, level |-> -1]
  <2>1. Gone = [x EXCEPT !.freed = TRUE]
    BY <1>2, <1>3 DEF Gone
  <2> QED
    BY <1>4, <2>1
<1> QED
  BY <1>1, <1>2, <1>5 DEF VersionRecords

\* Only the files of the versions matter to the files.
LEMMA SameFiles ==
    ASSUME NEW m, NEW vs, NEW ws, Sound(m, vs),
           ws \in Seq(VersionRecords), Len(ws) = Len(vs),
           \A v \in 1..Len(vs) : VersionSound(ws[v], Len(m)) /\ ws[v].files = vs[v].files
    PROVE  Sound(m, ws)
<1>1. \A f : Owners(ws, f) = Owners(vs, f)
  BY DEF Owners, InFiles
<1> QED
  BY <1>1 DEF Sound, FilesSound

\* Replacing a version by one with the same files.
LEMMA ReplacedSound ==
    ASSUME NEW m, NEW vs, NEW v \in 1..Len(vs), NEW x, NEW ws, Sound(m, vs),
           Replaced(vs, v, x, ws), VersionSound(x, Len(m)), x.files = vs[v].files
    PROVE  Sound(m, ws)
<1>1. \A w \in 1..Len(vs) : VersionSound(ws[w], Len(m)) /\ ws[w].files = vs[w].files
  BY DEF Replaced, Sound
<1> QED
  BY <1>1, SameFiles DEF Replaced

\* Version::Ref counts one user more.
LEMMA RefIs ==
    ASSUME NEW m, NEW vs, NEW v \in 1..Len(vs), Sound(m, vs)
    PROVE  LET t == VE!Ref([meta |-> m, versions |-> vs], v)
           IN  /\ t.meta = m
               /\ Replaced(vs, v, [vs[v] EXCEPT !.refs = @ + 1], t.versions)
               /\ Sound(m, t.versions)
<1> DEFINE x == [vs[v] EXCEPT !.refs = @ + 1]
           ws == [vs EXCEPT ![v] = x]
           t == VE!Ref([meta |-> m, versions |-> vs], v)
<1>1. vs[v] \in VersionRecords /\ vs \in Seq(VersionRecords)
  BY DEF Sound
<1>2. x \in VersionRecords /\ x.files = vs[v].files
  <2>1. PICK y : y = vs[v]
    OBVIOUS
  <2>2. y \in VersionRecords => [y EXCEPT !.refs = @ + 1] \in VersionRecords /\ [y EXCEPT !.refs = @ + 1].files = y.files
    BY DEF VersionRecords
  <2> QED
    BY <1>1, <2>1, <2>2
<1>3. t.meta = m /\ t.versions = ws
  BY DEF VE!Ref
<1>4. Replaced(vs, v, x, ws)
  <2> HIDE DEF x
  <2> QED
    BY <1>1, <1>2 DEF Replaced
<1>5. VersionSound(x, Len(m))
  BY <1>1, <1>2 DEF Sound, VersionSound, VersionRecords
<1> QED
  BY <1>2, <1>3, <1>4, <1>5, ReplacedSound

\* The owners of a file are finitely many.
LEMMA OwnersFinite ==
    ASSUME NEW vs, NEW f, Len(vs) \in Nat
    PROVE  IsFiniteSet(Owners(vs, f)) /\ Cardinality(Owners(vs, f)) \in Nat
<1>1. IsFiniteSet(1..Len(vs)) /\ Owners(vs, f) \subseteq 1..Len(vs)
  BY FS_Interval DEF Owners
<1> QED
  BY <1>1, FS_Subset, FS_CardinalityType

\* The files after ~Version: those of the version have a reference less.
Dropped(m, fs) ==
    [f \in 1..Len(m) |-> IF f \in fs THEN [m[f] EXCEPT !.refs = @ - 1, !.freed = m[f].refs <= 1] ELSE m[f]]

\* A file keeps its number and its range.
SameRanges(m, n) ==
    /\ n \in Seq(FileRecords) /\ Len(n) = Len(m)
    /\ \A f \in 1..Len(m) :
          n[f].number = m[f].number /\ n[f].smallest = m[f].smallest /\ n[f].largest = m[f].largest

\* A file loses a reference.
LEMMA OneLess ==
    ASSUME NEW x \in FileRecords, x.refs # 0
    PROVE  LET y == [x EXCEPT !.refs = @ - 1, !.freed = x.refs <= 1]
           IN  /\ y \in FileRecords /\ y.number = x.number /\ y.smallest = x.smallest /\ y.largest = x.largest
               /\ y.refs = x.refs - 1 /\ (y.freed <=> x.refs <= 1)
<1>1. PICK z : z = [x EXCEPT !.refs = @ - 1]
  OBVIOUS
<1>2. /\ z \in FileRecords /\ z.number = x.number /\ z.smallest = x.smallest /\ z.largest = x.largest
      /\ z.refs = x.refs - 1
  BY <1>1 DEF FileRecords
<1>3. [x EXCEPT !.refs = @ - 1, !.freed = x.refs <= 1] = [z EXCEPT !.freed = x.refs <= 1]
  BY <1>1
<1>4. \A b \in BOOLEAN : LET y == [z EXCEPT !.freed = b]
                         IN  /\ y \in FileRecords /\ y.number = z.number /\ y.smallest = z.smallest
                             /\ y.largest = z.largest /\ y.refs = z.refs /\ y.freed = b
  BY <1>2 DEF FileRecords
<1>5. (x.refs <= 1) \in BOOLEAN
  BY DEF FileRecords
<1> QED
  BY <1>2, <1>3, <1>4, <1>5

\* What Drop does, if each of the files had a reference.
LEMMA DroppedIs ==
    ASSUME NEW m \in Seq(FileRecords), NEW fs, \A f \in fs : f \in 1..Len(m) => m[f].refs # 0
    PROVE  /\ SameRanges(m, Dropped(m, fs))
           /\ \A f \in 1..Len(m) :
                 IF f \in fs THEN /\ Dropped(m, fs)[f].refs = m[f].refs - 1
                                  /\ Dropped(m, fs)[f].freed <=> m[f].refs <= 1
                 ELSE Dropped(m, fs)[f] = m[f]
<1> DEFINE n == Dropped(m, fs)
<1>1. \A f \in 1..Len(m) : m[f] \in FileRecords
  OBVIOUS
<1>2. ASSUME NEW f \in 1..Len(m)
      PROVE  /\ n[f] \in FileRecords
             /\ n[f].number = m[f].number /\ n[f].smallest = m[f].smallest /\ n[f].largest = m[f].largest
             /\ IF f \in fs THEN n[f].refs = m[f].refs - 1 /\ (n[f].freed <=> m[f].refs <= 1) ELSE n[f] = m[f]
  <2>1. n[f] = IF f \in fs THEN [m[f] EXCEPT !.refs = @ - 1, !.freed = m[f].refs <= 1] ELSE m[f]
    BY DEF Dropped
  <2>2. PICK x \in FileRecords : x = m[f]
    BY <1>1
  <2>3. CASE f \in fs
    BY <2>1, <2>2, <2>3, OneLess
  <2>4. CASE f \notin fs
    BY <2>1, <2>2, <2>4
  <2> QED
    BY <2>3, <2>4
<1>3. n \in Seq(FileRecords) /\ Len(n) = Len(m)
  <2>1. n \in [1..Len(m) -> FileRecords]
    BY <1>2 DEF Dropped
  <2> QED
    BY <2>1
<1> HIDE DEF n
<1>4. SameRanges(m, n)
  BY <1>2, <1>3 DEF SameRanges
<1> QED
  BY <1>2, <1>4 DEF n

\* ~Version: the files of the version lose an owner, and those that lose the last are freed.
LEMMA DeleteIs ==
    ASSUME NEW m, NEW vs, NEW v \in 1..Len(vs), Sound(m, vs)
    PROVE  LET t == VE!Delete([meta |-> m, versions |-> vs], v)
           IN  /\ t = [meta |-> t.meta, versions |-> t.versions] /\ SameRanges(m, t.meta)
               /\ Replaced(vs, v, Gone, t.versions)
               /\ Sound(t.meta, t.versions)
<1> DEFINE t == VE!Delete([meta |-> m, versions |-> vs], v)
           fs == VE!AllFiles(vs[v])
           n == Dropped(m, fs)
           ws == [vs EXCEPT ![v] = Gone]
<1>1. m \in Seq(FileRecords) /\ vs \in Seq(VersionRecords) /\ Len(vs) \in Nat /\ Len(m) \in Nat
  BY DEF Sound
<1>2. t = [meta |-> n, versions |-> ws] /\ t.meta = n /\ t.versions = ws
  <2>1. PICK d : d = VE!Drop([meta |-> m, versions |-> vs], fs)
    OBVIOUS
  <2>2. d = [meta |-> n, versions |-> vs]
    BY <2>1 DEF VE!Drop, Dropped
  <2>3. t = [d EXCEPT !.versions[v] = Gone]
    BY <2>1 DEF VE!Delete, Gone
  <2> HIDE DEF n, t
  <2> QED
    BY <2>2, <2>3
<1>3. \A f : f \in fs <=> InFiles(vs[v], f)
  BY DEF VE!AllFiles, InFiles, VE!Levels, Levels
<1>4. Replaced(vs, v, Gone, ws)
  BY <1>1, GoneIs DEF Replaced
<1> HIDE DEF t, ws, fs
<1>5. \A f : Owners(ws, f) = Owners(vs, f) \ {v}
  <2>1. \A f : ~InFiles(Gone, f)
    BY GoneIs DEF InFiles
  <2> QED
    BY <1>4, <2>1 DEF Owners, Replaced
<1>6. ASSUME NEW f \in 1..Len(m)
      PROVE  LET o == Owners(vs, f)
             IN  /\ m[f].refs = Cardinality(o) /\ Cardinality(o) \in Nat
                 /\ m[f].freed <=> o = {}
                 /\ m[f].smallest <= m[f].largest
                 /\ f \in fs => Cardinality(o) # 0 /\ Cardinality(o \ {v}) = Cardinality(o) - 1 /\ (Cardinality(o) <= 1 <=> o \ {v} = {})
                 /\ f \notin fs => o \ {v} = o
  <2>1. PICK o : o = Owners(vs, f)
    OBVIOUS
  <2>2. IsFiniteSet(o) /\ Cardinality(o) \in Nat
    BY <1>1, <2>1, OwnersFinite
  <2>3. m[f].refs = Cardinality(o) /\ (m[f].freed <=> o = {}) /\ m[f].smallest <= m[f].largest
    BY <2>1 DEF Sound, FilesSound
  <2>4. v \in o <=> f \in fs
    BY <2>1, <1>3 DEF Owners
  <2>5. IsFiniteSet(o \ {v}) /\ Cardinality(o \ {v}) \in Nat
    BY <2>2, FS_RemoveElement, FS_CardinalityType
  <2>6. Cardinality(o \ {v}) = IF v \in o THEN Cardinality(o) - 1 ELSE Cardinality(o)
    BY <2>2, FS_RemoveElement
  <2>7. Cardinality(o \ {v}) = 0 <=> o \ {v} = {}
    BY <2>5, FS_EmptySet
  <2>8. f \in fs => Cardinality(o) # 0 /\ Cardinality(o \ {v}) = Cardinality(o) - 1 /\ (Cardinality(o) <= 1 <=> o \ {v} = {})
    BY <2>2, <2>4, <2>5, <2>6, <2>7
  <2>9. f \notin fs => o \ {v} = o
    BY <2>4
  <2> QED
    BY <2>1, <2>2, <2>3, <2>8, <2>9
<1>7. \A f \in fs : f \in 1..Len(m) => m[f].refs # 0
  BY <1>6
<1>8. /\ SameRanges(m, n)
      /\ \A f \in 1..Len(m) :
            IF f \in fs THEN n[f].refs = m[f].refs - 1 /\ (n[f].freed <=> m[f].refs <= 1) ELSE n[f] = m[f]
  BY <1>1, <1>7, DroppedIs
<1> HIDE DEF n
<1>9. FilesSound(n, ws)
  <2> SUFFICES ASSUME NEW f \in 1..Len(m)
               PROVE  /\ n[f].smallest <= n[f].largest
                      /\ n[f].refs = Cardinality(Owners(vs, f) \ {v})
                      /\ n[f].freed <=> Owners(vs, f) \ {v} = {}
    BY <1>5, <1>8 DEF FilesSound, SameRanges
  <2> QED
    BY <1>6, <1>8 DEF SameRanges
<1>10. \A w \in 1..Len(ws) : VersionSound(ws[w], Len(n))
  <2>1. VersionSound(Gone, Len(n))
    BY GoneIs DEF VersionSound
  <2>2. Len(n) = Len(m) /\ Len(ws) = Len(vs)
    BY <1>8, <1>4 DEF SameRanges, Replaced
  <2> QED
    BY <1>4, <2>1, <2>2 DEF Replaced, Sound
<1>11. Sound(n, ws)
  BY <1>4, <1>8, <1>9, <1>10 DEF Sound, SameRanges, Replaced
<1> QED
  BY <1>2, <1>4, <1>8, <1>11 DEF t

\* Version::Unref counts one user less, and the last one takes the version with it.
LEMMA UnrefIs ==
    ASSUME NEW m, NEW vs, NEW v \in 1..Len(vs), Sound(m, vs), vs[v].refs # 0
    PROVE  LET t == VE!Unref([meta |-> m, versions |-> vs], v)
           IN  /\ t = [meta |-> t.meta, versions |-> t.versions] /\ SameRanges(m, t.meta)
               /\ Replaced(vs, v, IF vs[v].refs = 1 THEN Gone ELSE [vs[v] EXCEPT !.refs = @ - 1], t.versions)
               /\ Sound(t.meta, t.versions)
<1> DEFINE x == [vs[v] EXCEPT !.refs = @ - 1]
           ws == [vs EXCEPT ![v] = x]
           t == VE!Unref([meta |-> m, versions |-> vs], v)
<1>1. vs[v] \in VersionRecords /\ vs \in Seq(VersionRecords) /\ m \in Seq(FileRecords)
  BY DEF Sound
<1>2. x \in VersionRecords /\ x.files = vs[v].files /\ x.refs = vs[v].refs - 1 /\ vs[v].refs \in Nat
  <2>1. PICK y : y = vs[v]
    OBVIOUS
  <2>2. y \in VersionRecords /\ y.refs # 0 =>
           LET z == [y EXCEPT !.refs = @ - 1]
           IN  z \in VersionRecords /\ z.files = y.files /\ z.refs = y.refs - 1 /\ y.refs \in Nat
    BY DEF VersionRecords
  <2> QED
    BY <1>1, <2>1, <2>2
<1>3. Replaced(vs, v, x, ws)
  <2> HIDE DEF x
  <2> QED
    BY <1>1, <1>2 DEF Replaced
<1>4. VersionSound(x, Len(m))
  BY <1>1, <1>2 DEF Sound, VersionSound, VersionRecords
<1>5. Sound(m, ws)
  BY <1>2, <1>3, <1>4, ReplacedSound
<1>6. t = IF x.refs = 0 THEN VE!Delete([meta |-> m, versions |-> ws], v) ELSE [meta |-> m, versions |-> ws]
  <2>1. [[meta |-> m, versions |-> vs] EXCEPT !.versions[v].refs = @ - 1] = [meta |-> m, versions |-> ws]
    OBVIOUS
  <2>2. ws[v] = x
    BY <1>3 DEF Replaced
  <2> HIDE DEF x, ws
  <2> QED
    BY <2>1, <2>2 DEF VE!Unref
<1> HIDE DEF ws, t
<1>7. CASE vs[v].refs = 1
  <2>1. v \in 1..Len(ws)
    BY <1>3 DEF Replaced
  <2>2. t = VE!Delete([meta |-> m, versions |-> ws], v)
    BY <1>2, <1>6, <1>7
  <2>3. t = [meta |-> t.meta, versions |-> t.versions] /\ SameRanges(m, t.meta) /\ Replaced(ws, v, Gone, t.versions) /\ Sound(t.meta, t.versions)
    BY <1>5, <2>1, <2>2, DeleteIs
  <2>4. Replaced(vs, v, Gone, t.versions)
    BY <1>3, <2>3 DEF Replaced
  <2> QED
    BY <1>7, <2>3, <2>4 DEF t
<1>8. CASE vs[v].refs # 1
  <2>1. t = [meta |-> m, versions |-> ws]
    BY <1>2, <1>6, <1>8
  <2>2. SameRanges(m, m)
    BY <1>1 DEF SameRanges
  <2>3. t.meta = m /\ t.versions = ws
    BY <2>1
  <2> HIDE DEF x
  <2>4. Replaced(vs, v, IF vs[v].refs = 1 THEN Gone ELSE x, t.versions)
    BY <1>3, <1>8, <2>3
  <2> QED
    BY <1>5, <2>1, <2>2, <2>3, <2>4 DEF t, x
<1> QED
  BY <1>7, <1>8

\* UpdateStats takes a seek from a file, and may make it the one to compact; nobody uses it
\* the more or the less.
LEMMA ChargeIs ==
    ASSUME NEW m, NEW vs, NEW v \in 1..Len(vs), Sound(m, vs),
           NEW level \in 0..(VersionLevels - 2), NEW f \in vs[v].files[level]
    PROVE  LET t == VE!Charge([meta |-> m, versions |-> vs], v, f, level)
           IN  \E x : /\ t = [meta |-> t.meta, versions |-> t.versions] /\ SameRanges(m, t.meta)
                      /\ Replaced(vs, v, x, t.versions)
                      /\ x.files = vs[v].files /\ x.refs = vs[v].refs /\ x.freed = vs[v].freed
                      /\ Sound(t.meta, t.versions)
<1> DEFINE t == VE!Charge([meta |-> m, versions |-> vs], v, f, level)
           n == [m EXCEPT ![f] = [m[f] EXCEPT !.seeks = m[f].seeks - 1]]
           y == [vs[v] EXCEPT !.toCompact = f, !.toLevel = level]
           ws == [vs EXCEPT ![v] = y]
<1>0. VersionLevels \in Nat /\ level \in Levels /\ level \in Int
  <2>1. VersionLevels \in Nat
    BY PartsAssumption
  <2> QED
    BY <2>1 DEF Levels
<1>1. vs[v] \in VersionRecords /\ vs \in Seq(VersionRecords) /\ m \in Seq(FileRecords) /\ level \in Levels
  BY <1>0 DEF Sound
<1>2. VersionSound(vs[v], Len(m)) /\ f \in 1..Len(m) /\ f # 0
  BY <1>1 DEF Sound, VersionSound
<1>3. m[f] \in FileRecords
  BY <1>1, <1>2
<1>4. /\ SameRanges(m, n)
      /\ \A g \in 1..Len(m) : n[g].refs = m[g].refs /\ n[g].freed = m[g].freed
  <2>1. PICK z : z = [m[f] EXCEPT !.seeks = m[f].seeks - 1]
    OBVIOUS
  <2>2. /\ z \in FileRecords /\ z.number = m[f].number /\ z.smallest = m[f].smallest /\ z.largest = m[f].largest
        /\ z.refs = m[f].refs /\ z.freed = m[f].freed
    <3>1. PICK q \in FileRecords : q = m[f]
      BY <1>3
    <3>2. z = [q EXCEPT !.seeks = q.seeks - 1]
      BY <2>1, <3>1
    <3>3. /\ z \in FileRecords /\ z.number = q.number /\ z.smallest = q.smallest /\ z.largest = q.largest
          /\ z.refs = q.refs /\ z.freed = q.freed
      BY <3>2 DEF FileRecords
    <3> QED
      BY <3>1, <3>3
  <2>3. n = [m EXCEPT ![f] = z]
    BY <2>1
  <2> HIDE DEF n
  <2>4. n \in Seq(FileRecords) /\ Len(n) = Len(m) /\ n[f] = z /\ \A g \in 1..Len(m) : g # f => n[g] = m[g]
    BY <1>1, <1>2, <2>2, <2>3
  <2> QED
    BY <2>2, <2>4 DEF SameRanges
<1> HIDE DEF n
<1>5. y \in VersionRecords /\ y.files = vs[v].files /\ y.refs = vs[v].refs /\ y.freed = vs[v].freed
      /\ y.toCompact = f /\ y.toLevel = level /\ y.score = vs[v].score /\ y.level = vs[v].level
  <2>1. PICK q : q = vs[v]
    OBVIOUS
  <2>2. PICK p : p = [q EXCEPT !.toCompact = f]
    OBVIOUS
  <2>3. /\ p \in VersionRecords /\ p.files = q.files /\ p.refs = q.refs /\ p.freed = q.freed /\ p.toCompact = f
        /\ p.score = q.score /\ p.level = q.level
    BY <1>1, <1>2, <2>1, <2>2 DEF VersionRecords
  <2>4. PICK o : o = [p EXCEPT !.toLevel = level]
    OBVIOUS
  <2>5. /\ o \in VersionRecords /\ o.files = p.files /\ o.refs = p.refs /\ o.freed = p.freed /\ o.toCompact = p.toCompact
        /\ o.score = p.score /\ o.level = p.level /\ o.toLevel = level
    BY <1>0, <2>3, <2>4 DEF VersionRecords
  <2>6. y = o
    BY <2>1, <2>2, <2>4
  <2> QED
    BY <2>1, <2>3, <2>5, <2>6
<1> HIDE DEF y
<1>6. VersionSound(y, Len(m))
  BY <1>1, <1>2, <1>5 DEF VersionSound
<1>7. Replaced(vs, v, y, ws) /\ Replaced(vs, v, vs[v], vs)
  BY <1>1, <1>5 DEF Replaced
<1>8. Sound(m, ws)
  BY <1>5, <1>6, <1>7, ReplacedSound
<1>9. \/ t = [meta |-> n, versions |-> ws] /\ t.meta = n /\ t.versions = ws
      \/ t = [meta |-> n, versions |-> vs] /\ t.meta = n /\ t.versions = vs
  <2>1. PICK s : s = [meta |-> m, versions |-> vs]
    OBVIOUS
  <2>2. PICK u : u = [s EXCEPT !.meta[f].seeks = s.meta[f].seeks - 1]
    OBVIOUS
  <2>3. u = [meta |-> n, versions |-> vs]
    BY <2>1, <2>2 DEF n
  <2>7. u.meta = n /\ u.versions = vs
    BY <2>3
  <2>4. \/ t = u \/ t = [u EXCEPT !.versions[v].toCompact = f, !.versions[v].toLevel = level]
    BY <2>1, <2>2 DEF VE!Charge
  <2>5. [u EXCEPT !.versions[v].toCompact = f, !.versions[v].toLevel = level] = [meta |-> n, versions |-> ws]
    <3>1. PICK p : p = [u EXCEPT !.versions[v].toCompact = f]
      OBVIOUS
    <3>2. p = [meta |-> n, versions |-> [vs EXCEPT ![v] = [vs[v] EXCEPT !.toCompact = f]]]
      BY <2>3, <3>1
    <3>3. [u EXCEPT !.versions[v].toCompact = f, !.versions[v].toLevel = level] = [p EXCEPT !.versions[v].toLevel = level]
      BY <3>1
    <3>4. PICK z : z = [vs[v] EXCEPT !.toCompact = f]
      OBVIOUS
    <3>5. PICK us : us = [vs EXCEPT ![v] = z]
      OBVIOUS
    <3>6. us[v] = z /\ [us EXCEPT ![v] = y] = ws
      <4>1. vs \in [1..Len(vs) -> VersionRecords] /\ v \in 1..Len(vs)
        BY <1>1
      <4> HIDE DEF y
      <4> QED
        BY ONLY <3>5, <4>1
    <3>7. y = [z EXCEPT !.toLevel = level]
      BY <3>4 DEF y
    <3>8. p = [meta |-> n, versions |-> us]
      BY <3>2, <3>4, <3>5
    <3>9. [p EXCEPT !.versions[v].toLevel = level] = [meta |-> n, versions |-> [us EXCEPT ![v] = [us[v] EXCEPT !.toLevel = level]]]
      BY <3>8
    <3> HIDE DEF ws
    <3> QED
      BY <3>3, <3>6, <3>7, <3>9
  <2>6. CASE t = u
    BY <2>3, <2>6, <2>7
  <2>8. CASE t = [meta |-> n, versions |-> ws]
    BY <2>8
  <2> QED
    BY <2>4, <2>5, <2>6, <2>8
<1>10. ASSUME NEW us, Sound(m, us)
       PROVE  Sound(n, us)
  BY <1>4, <1>10 DEF Sound, FilesSound, SameRanges
<1> HIDE DEF t, ws
<1>11. CASE t = [meta |-> n, versions |-> ws] /\ t.meta = n /\ t.versions = ws
  BY <1>4, <1>5, <1>7, <1>8, <1>10, <1>11 DEF t
<1>12. CASE t = [meta |-> n, versions |-> vs] /\ t.meta = n /\ t.versions = vs
  BY <1>4, <1>7, <1>10, <1>12 DEF t
<1> QED
  BY <1>9, <1>11, <1>12

\* What SumOf adds up, up to the n-th number.
SumUpTo(g, n, f) == f = [i \in 0..n |-> IF i = 0 THEN 0 ELSE f[i - 1] + g[i]]

\* The recursive function of SumOf exists.
LEMMA SumDefined ==
    ASSUME NEW g, NEW n \in Nat
    PROVE  \E f : SumUpTo(g, n, f)
<1> DEFINE S == {m \in Nat : \E f : SumUpTo(g, m, f)}
<1>1. 0 \in S
  <2> DEFINE f == [i \in 0..0 |-> 0]
  <2>1. f = [i \in 0..0 |-> IF i = 0 THEN 0 ELSE f[i - 1] + g[i]]
    OBVIOUS
  <2> QED
    BY <2>1 DEF SumUpTo
<1>2. ASSUME NEW m \in S
      PROVE  m + 1 \in S
  <2>1. PICK f : SumUpTo(g, m, f)
    OBVIOUS
  <2> DEFINE h == [i \in 0..(m + 1) |-> IF i # m + 1 THEN f[i] ELSE f[m] + g[i]]
  <2>2. \A i \in 0..m : f[i] = IF i = 0 THEN 0 ELSE f[i - 1] + g[i]
    BY <2>1 DEF SumUpTo
  <2>3. \A i \in 0..m : h[i] = f[i]
    OBVIOUS
  <2>4. h[m + 1] = h[m] + g[m + 1]
    BY <2>3
  <2>5. ASSUME NEW i \in 0..(m + 1)
        PROVE  h[i] = IF i = 0 THEN 0 ELSE h[i - 1] + g[i]
    <3> HIDE DEF h
    <3>1. CASE i = m + 1
      BY <2>4, <3>1
    <3>2. CASE i \in 0..m
      <4>1. i # 0 => i - 1 \in 0..m
        BY <3>2
      <4> QED
        BY <2>2, <2>3, <3>2, <4>1
    <3> QED
      BY <3>1, <3>2
  <2>6. SumUpTo(g, m + 1, h)
    BY <2>5 DEF SumUpTo
  <2> QED
    BY <2>6
<1>3. S \in SUBSET Nat
  OBVIOUS
<1>4. S = Nat
  <2> HIDE DEF S
  <2> QED
    BY <1>1, <1>2, <1>3, SetInduction
<1> QED
  BY <1>4

\* SumOf is the value of that function at the end.
LEMMA SumLoop ==
    ASSUME NEW g, NEW n \in Nat
    PROVE  \E f : VE!SumOf(g, n) = f[n] /\ \A i \in 0..n : f[i] = IF i = 0 THEN 0 ELSE f[i - 1] + g[i]
<1> DEFINE f == CHOOSE f : SumUpTo(g, n, f)
<1>1. SumUpTo(g, n, f)
  <2>1. \E h : SumUpTo(g, n, h)
    BY SumDefined
  <2> QED
    BY <2>1, Zenon
<1>2. VE!SumOf(g, n) = f[n]
  BY Zenon DEF VE!SumOf, SumUpTo
<1> HIDE DEF f
<1>3. \A i \in 0..n : f[i] = IF i = 0 THEN 0 ELSE f[i - 1] + g[i]
  BY <1>1, Zenon DEF SumUpTo
<1> QED
  BY <1>2, <1>3

\* Sums of sizes are sizes, and grow with the sizes.
LEMMA SumMonotone ==
    ASSUME NEW g, NEW h, NEW n \in Nat,
           \A i \in 1..n : g[i] \in Nat /\ h[i] \in Nat /\ g[i] <= h[i]
    PROVE  VE!SumOf(g, n) \in Nat /\ VE!SumOf(h, n) \in Nat /\ VE!SumOf(g, n) <= VE!SumOf(h, n)
<1>1. PICK a : VE!SumOf(g, n) = a[n] /\ \A i \in 0..n : a[i] = IF i = 0 THEN 0 ELSE a[i - 1] + g[i]
  BY SumLoop
<1>2. PICK b : VE!SumOf(h, n) = b[n] /\ \A i \in 0..n : b[i] = IF i = 0 THEN 0 ELSE b[i - 1] + h[i]
  BY SumLoop
<1> DEFINE S == {m \in Nat : m <= n => a[m] \in Nat /\ b[m] \in Nat /\ a[m] <= b[m]}
<1>3. 0 \in S
  BY <1>1, <1>2
<1>4. ASSUME NEW m \in S
      PROVE  m + 1 \in S
  <2> SUFFICES ASSUME m + 1 <= n
               PROVE  a[m + 1] \in Nat /\ b[m + 1] \in Nat /\ a[m + 1] <= b[m + 1]
    OBVIOUS
  <2>1. a[m] \in Nat /\ b[m] \in Nat /\ a[m] <= b[m]
    OBVIOUS
  <2>2. m + 1 \in 0..n /\ m + 1 # 0 /\ (m + 1) - 1 = m /\ m + 1 \in 1..n
    OBVIOUS
  <2>3. a[m + 1] = a[m] + g[m + 1] /\ b[m + 1] = b[m] + h[m + 1]
    BY <1>1, <1>2, <2>2
  <2>4. g[m + 1] \in Nat /\ h[m + 1] \in Nat /\ g[m + 1] <= h[m + 1]
    BY <2>2
  <2> QED
    BY <2>1, <2>3, <2>4
<1>5. S = Nat
  <2>1. S \in SUBSET Nat
    OBVIOUS
  <2> HIDE DEF S
  <2> QED
    BY <2>1, <1>3, <1>4, SetInduction
<1>6. a[n] \in Nat /\ b[n] \in Nat /\ a[n] <= b[n]
  BY <1>5
<1> QED
  BY <1>1, <1>2, <1>6

\* Fractions are ordered.
LEMMA FractionsOrdered ==
    ASSUME NEW a \in Nat, NEW b \in Nat, NEW c \in Nat, NEW d \in Nat, NEW e \in Nat, NEW f \in Nat,
           b # 0, d # 0, f # 0, a * d <= c * b, e * d > c * f
    PROVE  e * b > a * f
<1>1. (a * d) * f <= (c * b) * f
  OBVIOUS
<1>2. (e * d) * b > (c * f) * b
  OBVIOUS
<1>3. (e * b) * d > (a * f) * d
  BY <1>1, <1>2
<1>4. ASSUME e * b <= a * f
      PROVE  (e * b) * d <= (a * f) * d
  BY <1>4
<1>5. e * b \in Nat /\ a * f \in Nat /\ (e * b) * d \in Nat /\ (a * f) * d \in Nat
  OBVIOUS
<1> QED
  BY <1>3, <1>4, <1>5

\* Among finitely many fractions there is a first of the greatest.
LEMMA FirstGreatest ==
    ASSUME NEW k \in Nat, NEW a, NEW b, \A i \in 0..k : a[i] \in Nat /\ b[i] \in Nat /\ b[i] # 0
    PROVE  \E l \in 0..k : /\ \A j \in 0..k : ~(a[j] * b[l] > a[l] * b[j])
                           /\ \A j \in 0..(l - 1) : a[l] * b[j] > a[j] * b[l]
<1> DEFINE Best(n, l) == /\ \A j \in 0..n : ~(a[j] * b[l] > a[l] * b[j])
                         /\ \A j \in 0..(l - 1) : a[l] * b[j] > a[j] * b[l]
           S == {n \in Nat : n <= k => \E l \in 0..n : Best(n, l)}
<1>1. 0 \in S
  <2>1. a[0] \in Nat /\ b[0] \in Nat
    OBVIOUS
  <2>2. ~(a[0] * b[0] > a[0] * b[0])
    BY <2>1
  <2>3. Best(0, 0)
    BY <2>2
  <2> QED
    BY <2>3
<1>2. ASSUME NEW n \in S
      PROVE  n + 1 \in S
  <2> SUFFICES ASSUME n + 1 <= k
               PROVE  \E l \in 0..(n + 1) : Best(n + 1, l)
    OBVIOUS
  <2>1. PICK l \in 0..n : Best(n, l)
    OBVIOUS
  <2>2. a[n + 1] \in Nat /\ b[n + 1] \in Nat /\ b[n + 1] # 0 /\ a[l] \in Nat /\ b[l] \in Nat /\ b[l] # 0
    OBVIOUS
  <2>3. CASE ~(a[n + 1] * b[l] > a[l] * b[n + 1])
    <3>1. \A j \in 0..(n + 1) : j \in 0..n \/ j = n + 1
      OBVIOUS
    <3>2. \A j \in 0..(n + 1) : ~(a[j] * b[l] > a[l] * b[j])
      BY <2>1, <2>3, <3>1
    <3>3. Best(n + 1, l)
      BY <2>1, <3>2
    <3> QED
      BY <3>3
  <2>4. CASE a[n + 1] * b[l] > a[l] * b[n + 1]
    <3>1. ASSUME NEW j \in 0..n
          PROVE  a[n + 1] * b[j] > a[j] * b[n + 1]
      <4>1. a[j] \in Nat /\ b[j] \in Nat /\ b[j] # 0
        OBVIOUS
      <4>2. a[j] * b[l] <= a[l] * b[j]
        <5>1. ~(a[j] * b[l] > a[l] * b[j])
          BY <2>1
        <5>2. a[j] * b[l] \in Nat /\ a[l] * b[j] \in Nat
          BY <2>2, <4>1
        <5> QED
          BY <5>1, <5>2
      <4> QED
        BY <2>2, <2>4, <4>1, <4>2, FractionsOrdered
    <3>2. ASSUME NEW j \in 0..(n + 1)
          PROVE  ~(a[j] * b[n + 1] > a[n + 1] * b[j])
      <4>1. a[j] \in Nat /\ b[j] \in Nat
        OBVIOUS
      <4>2. a[j] * b[n + 1] \in Nat /\ a[n + 1] * b[j] \in Nat
        BY <2>2, <4>1
      <4>3. CASE j = n + 1
        BY <4>2, <4>3
      <4>4. CASE j \in 0..n
        BY <3>1, <4>2, <4>4
      <4> QED
        BY <4>3, <4>4
    <3>3. (n + 1) - 1 = n
      OBVIOUS
    <3>4. Best(n + 1, n + 1)
      BY <3>1, <3>2, <3>3
    <3> QED
      BY <3>4
  <2> QED
    BY <2>3, <2>4
<1>3. S = Nat
  <2>1. S \in SUBSET Nat
    OBVIOUS
  <2> HIDE DEF S
  <2> QED
    BY <2>1, <1>1, <1>2, SetInduction
<1> QED
  BY <1>3

\* The size of a file, and of files, is one.
LEMMA SizesAre ==
    ASSUME NEW m \in Seq(FileRecords), \A f \in 1..Len(m) : m[f].smallest <= m[f].largest, NEW fs
    PROVE  VE!TotalFileSize(m, fs) \in Nat
<1> DEFINE g == [f \in 1..Len(m) |-> IF f \in fs THEN VE!Size(m[f]) ELSE 0]
<1>1. ASSUME NEW f \in 1..Len(m)
      PROVE  g[f] \in Nat
  <2>1. PICK x \in FileRecords : x = m[f]
    OBVIOUS
  <2>2. VE!Size(x) \in Nat
    <3>1. x.smallest <= x.largest
      BY <2>1
    <3>2. x.smallest \in Int /\ x.largest \in Int
      BY DEF FileRecords
    <3> QED
      BY <3>1, <3>2 DEF VE!Size
  <2>3. g[f] = IF f \in fs THEN VE!Size(x) ELSE 0
    BY <2>1
  <2> QED
    BY <2>2, <2>3
<1> HIDE DEF g
<1>2. Len(m) \in Nat
  OBVIOUS
<1>3. \A f \in 1..Len(m) : g[f] \in Nat /\ g[f] <= g[f]
  BY <1>1
<1>4. VE!SumOf(g, Len(m)) \in Nat
  BY <1>2, <1>3, SumMonotone
<1> QED
  BY <1>4 DEF g, VE!TotalFileSize

\* The module counts as every other does.
LEMMA CountsAgree == \A S : VE!Cardinality(S) = Cardinality(S)
BY DEF VE!Cardinality, Cardinality

\* Finalize chooses a level that has one below it.
LEMMA FinalizeIs ==
    ASSUME NEW m \in Seq(FileRecords), \A f \in 1..Len(m) : m[f].smallest <= m[f].largest,
           NEW x \in VersionRecords, \A l \in Levels : x.files[l] \subseteq 1..Len(m)
    PROVE  LET y == VE!Finalize(m, x)
           IN  /\ y \in VersionRecords /\ y.level \in 0..(VersionLevels - 2)
               /\ y.files = x.files /\ y.refs = x.refs /\ y.freed = x.freed /\ y.toCompact = x.toCompact
<1> DEFINE Score(l) == IF l = 0 THEN <<VE!Cardinality(x.files[0]), Trigger>>
                       ELSE <<VE!TotalFileSize(m, x.files[l]), l * LevelLimit>>
           Better(i, j) == Score(i)[1] * Score(j)[2] > Score(j)[1] * Score(i)[2]
           Good(l) == /\ \A j \in 0..(VersionLevels - 2) : ~Better(j, l)
                      /\ \A j \in 0..(l - 1) : Better(l, j)
           Best == CHOOSE l \in 0..(VersionLevels - 2) : Good(l)
           sc == Score(Best)[1] >= Score(Best)[2]
           a == [l \in 0..(VersionLevels - 2) |-> Score(l)[1]]
           b == [l \in 0..(VersionLevels - 2) |-> Score(l)[2]]
<1>0. VersionLevels \in Nat \ {0, 1} /\ Trigger \in Nat \ {0} /\ LevelLimit \in Nat \ {0}
  BY PartsAssumption
<1>1. PICK y : y = VE!Finalize(m, x)
  OBVIOUS
<1>2. y = [x EXCEPT !.level = Best, !.score = sc]
  BY <1>1, Zenon DEF VE!Finalize
<1>3. ASSUME NEW i \in 0..(VersionLevels - 2)
      PROVE  Score(i)[1] \in Nat /\ Score(i)[2] \in Nat /\ Score(i)[2] # 0
  <2>1. CASE i = 0
    <3>1. 0 \in Levels /\ Len(m) \in Nat
      BY <1>0 DEF Levels
    <3>2. VE!Cardinality(x.files[0]) \in Nat
      <4>1. IsFiniteSet(1..Len(m))
        BY <3>1, FS_Interval
      <4>2. x.files[0] \subseteq 1..Len(m)
        BY <3>1
      <4> QED
        BY <4>1, <4>2, CountsAgree, FS_Subset, FS_CardinalityType
    <3> QED
      BY <1>0, <2>1, <3>2
  <2>2. CASE i # 0
    <3>1. PICK z : z = VE!TotalFileSize(m, x.files[i])
      OBVIOUS
    <3>2. z \in Nat
      BY <3>1, SizesAre
    <3>3. i * LevelLimit \in Nat /\ i * LevelLimit # 0
      BY <1>0, <2>2
    <3>4. Score(i) = <<z, i * LevelLimit>>
      BY <2>2, <3>1
    <3> QED
      BY <3>2, <3>3, <3>4
  <2> QED
    BY <2>1, <2>2
<1> HIDE DEF Score
<1>4. \A i \in 0..(VersionLevels - 2) : a[i] \in Nat /\ b[i] \in Nat /\ b[i] # 0
  BY <1>3
<1>5. \A i \in 0..(VersionLevels - 2) : a[i] = Score(i)[1] /\ b[i] = Score(i)[2]
  OBVIOUS
<1> HIDE DEF a, b
<1>6. VersionLevels - 2 \in Nat
  BY <1>0
<1>7. PICK l \in 0..(VersionLevels - 2) : /\ \A j \in 0..(VersionLevels - 2) : ~(a[j] * b[l] > a[l] * b[j])
                                      /\ \A j \in 0..(l - 1) : a[l] * b[j] > a[j] * b[l]
  BY ONLY <1>4, <1>6, FirstGreatest
<1>8. Good(l)
  <2>1. \A j \in 0..(VersionLevels - 2) : ~Better(j, l)
    BY <1>5, <1>7
  <2>2. \A j \in 0..(l - 1) : j \in 0..(VersionLevels - 2)
    BY <1>6
  <2>3. \A j \in 0..(l - 1) : Better(l, j)
    BY <1>5, <1>7, <2>2
  <2> QED
    BY <2>1, <2>3
<1> HIDE DEF Good
<1>9. Best \in 0..(VersionLevels - 2)
  BY <1>8
<1>10. sc \in BOOLEAN
  OBVIOUS
<1> HIDE DEF Best, sc
<1>11. PICK w : w = [x EXCEPT !.level = Best]
  OBVIOUS
<1>12. /\ w \in VersionRecords /\ w.level = Best
       /\ w.files = x.files /\ w.refs = x.refs /\ w.freed = x.freed /\ w.toCompact = x.toCompact
  <2>1. Best \in Int
    BY <1>6, <1>9
  <2> QED
    BY <1>11, <2>1 DEF VersionRecords
<1>13. /\ y \in VersionRecords /\ y.level = w.level
       /\ y.files = w.files /\ y.refs = w.refs /\ y.freed = w.freed /\ y.toCompact = w.toCompact
  <2>1. y = [w EXCEPT !.score = sc]
    BY <1>2, <1>11
  <2> QED
    BY <1>10, <1>12, <2>1 DEF VersionRecords
<1> QED
  BY <1>1, <1>9, <1>12, <1>13

\* A version more, with a file of its own and files that are not freed, each of which has a
\* reference more.
LEMMA GrownSound ==
    ASSUME NEW m, NEW vs, NEW n, NEW y, Sound(m, vs), VersionSound(y, Len(m) + 1),
           n \in Seq(FileRecords), Len(n) = Len(m) + 1,
           \A f \in 1..Len(m) :
              /\ n[f].smallest = m[f].smallest /\ n[f].largest = m[f].largest /\ n[f].freed = m[f].freed
              /\ n[f].refs = IF InFiles(y, f) THEN m[f].refs + 1 ELSE m[f].refs
              /\ InFiles(y, f) => ~m[f].freed,
           LET k == Len(m) + 1
           IN  n[k].refs = 1 /\ ~n[k].freed /\ n[k].smallest <= n[k].largest /\ InFiles(y, k)
    PROVE  Sound(n, Append(vs, y))
<1> DEFINE k == Len(m) + 1
           c == Len(vs) + 1
           ws == Append(vs, y)
<1>1. m \in Seq(FileRecords) /\ vs \in Seq(VersionRecords) /\ Len(vs) \in Nat /\ Len(m) \in Nat
  BY DEF Sound
<1>2. /\ ws \in Seq(VersionRecords) /\ Len(ws) = c /\ ws[c] = y
      /\ \A v \in 1..Len(vs) : ws[v] = vs[v]
  BY <1>1 DEF VersionSound
<1> HIDE DEF ws
<1>3. \A v \in 1..c : v \in 1..Len(vs) \/ v = c
  BY <1>1
<1>4. \A v \in 1..c : VersionSound(ws[v], k)
  <2>1. ASSUME NEW x, VersionSound(x, Len(m))
        PROVE  VersionSound(x, k)
    <3>1. 1..Len(m) \subseteq 1..k
      BY <1>1
    <3> QED
      BY <2>1, <3>1 DEF VersionSound
  <2> QED
    BY <1>2, <1>3, <2>1 DEF Sound
<1>5. ASSUME NEW f
      PROVE  Owners(ws, f) = IF InFiles(y, f) THEN Owners(vs, f) \cup {c} ELSE Owners(vs, f)
  <2>1. \A v : v \in 1..c <=> v \in 1..Len(vs) \/ v = c
    BY <1>1
  <2> QED
    BY <1>2, <2>1 DEF Owners
<1>6. ASSUME NEW f \in 1..k
      PROVE  /\ n[f].smallest <= n[f].largest
             /\ n[f].refs = Cardinality(Owners(ws, f))
             /\ n[f].freed <=> Owners(ws, f) = {}
  <2>1. PICK o : o = Owners(vs, f)
    OBVIOUS
  <2>2. IsFiniteSet(o) /\ Cardinality(o) \in Nat
    BY <1>1, <2>1, OwnersFinite
  <2>3. c \notin o
    BY <1>1, <2>1 DEF Owners
  <2>4. Cardinality(o \cup {c}) = Cardinality(o) + 1
    BY <2>2, <2>3, FS_AddElement
  <2>5. CASE f \in 1..Len(m)
    <3>1. m[f].refs = Cardinality(o) /\ (m[f].freed <=> o = {}) /\ m[f].smallest <= m[f].largest
      BY <2>1, <2>5 DEF Sound, FilesSound
    <3>2. n[f].smallest <= n[f].largest
      BY <2>5, <3>1
    <3>3. CASE InFiles(y, f)
      <4>1. Owners(ws, f) = o \cup {c} /\ ~m[f].freed /\ n[f].refs = m[f].refs + 1 /\ n[f].freed = m[f].freed
        BY <1>5, <2>1, <2>5, <3>3
      <4> QED
        BY <2>4, <3>1, <3>2, <4>1
    <3>4. CASE ~InFiles(y, f)
      <4>1. Owners(ws, f) = o /\ n[f].refs = m[f].refs /\ n[f].freed = m[f].freed
        BY <1>5, <2>1, <2>5, <3>4
      <4> QED
        BY <3>1, <3>2, <4>1
    <3> QED
      BY <3>3, <3>4
  <2>6. CASE f = k
    <3>1. o = {}
      <4>1. \A v \in 1..Len(vs) : ~InFiles(vs[v], k)
        BY <1>1 DEF Sound, VersionSound, InFiles
      <4> QED
        BY <2>1, <2>6, <4>1 DEF Owners
    <3>2. Owners(ws, f) = {c}
      BY <1>5, <2>1, <2>6, <3>1
    <3>3. Cardinality({c}) = 1
      BY FS_Singleton
    <3> QED
      BY <2>6, <3>2, <3>3
  <2> QED
    BY <1>1, <2>5, <2>6
<1>7. FilesSound(n, ws)
  BY <1>6 DEF FilesSound
<1> QED
  BY <1>2, <1>4, <1>7 DEF Sound, ws

\* A file has a reference more.
LEMMA CountedIn ==
    ASSUME NEW x \in FileRecords
    PROVE  LET y == [x EXCEPT !.refs = @ + 1]
           IN  /\ y \in FileRecords /\ y.smallest = x.smallest /\ y.largest = x.largest /\ y.freed = x.freed
               /\ y.refs = x.refs + 1
BY DEF FileRecords

\* Builder, of the files and versions given and with one file added.
BuiltFrom(m, vs, cur, level, x, del) ==
    LET new == 1..Len(<<x>>)
        grown == m \o [i \in new |-> [<<x>>[i] EXCEPT !.refs = 1]]
        files == [l \in Levels |-> (vs[cur].files[l] \ del) \cup (IF l = level THEN {Len(m) + i : i \in new} ELSE {})]
        all == UNION {files[l] : l \in Levels}
        m1 == [f \in 1..Len(grown) |-> IF f \in all THEN [grown[f] EXCEPT !.refs = @ + 1] ELSE grown[f]]
    IN  VE!Drop([meta |-> m1, versions |-> Append(vs, VE!Finalize(m1, VE!NewVersion(files)))], {Len(m) + i : i \in new})

\* Builder, with one file added: it is the new version's alone, the others are those of the
\* current version that are not deleted.
LEMMA BuilderIs ==
    ASSUME Sound(meta, versions), installed \in 1..Len(versions),
           NEW level \in Levels, NEW x \in FileRecords, x.smallest <= x.largest, NEW del
    PROVE  LET t == VE!Builder(level, <<x>>, del)
               k == Len(meta) + 1
               c == Len(versions) + 1
           IN  /\ Len(t.versions) = c
               /\ \A v \in 1..Len(versions) : t.versions[v] = versions[v]
               /\ t.versions[c].refs = 0 /\ ~t.versions[c].freed
               /\ \A l \in Levels : t.versions[c].files[l] =
                     (versions[installed].files[l] \ del) \cup (IF l = level THEN {k} ELSE {})
               /\ Sound(t.meta, t.versions)
<1>0. PICK m, vs, cur : m = meta /\ vs = versions /\ cur = installed
  OBVIOUS
<1> DEFINE k == Len(m) + 1
           c == Len(vs) + 1
           new == 1..Len(<<x>>)
           tail == [i \in new |-> [<<x>>[i] EXCEPT !.refs = 1]]
           grown == m \o tail
           files == [l \in Levels |-> (vs[cur].files[l] \ del) \cup (IF l = level THEN {Len(m) + i : i \in new} ELSE {})]
           all == UNION {files[l] : l \in Levels}
           m1 == [f \in 1..Len(grown) |-> IF f \in all THEN [grown[f] EXCEPT !.refs = @ + 1] ELSE grown[f]]
           y == VE!Finalize(m1, VE!NewVersion(files))
           n == Dropped(m1, {Len(m) + i : i \in new})
<1>1. /\ Sound(m, vs) /\ cur \in 1..Len(vs) /\ m \in Seq(FileRecords) /\ vs \in Seq(VersionRecords)
      /\ Len(m) \in Nat /\ Len(vs) \in Nat
  BY <1>0 DEF Sound
<1>2. PICK t : t = VE!Builder(level, <<x>>, del)
  OBVIOUS
<1>3. t = [meta |-> n, versions |-> Append(vs, y)]
  <2>1. t = BuiltFrom(meta, versions, installed, level, x, del)
    BY <1>2, Zenon DEF VE!Builder, VE!MaybeAddFile, BuiltFrom, VE!Levels, Levels
  <2>7. t = BuiltFrom(m, vs, cur, level, x, del)
    BY <1>0, <2>1
  <2>2. t = VE!Drop([meta |-> m1, versions |-> Append(vs, y)], {Len(m) + i : i \in new})
    BY <2>7, Zenon DEF BuiltFrom
  <2>3. PICK ws : ws = Append(vs, y)
    OBVIOUS
  <2>4. PICK m2, q : m2 = m1 /\ q = {Len(m) + i : i \in new}
    OBVIOUS
  <2>5. t = VE!Drop([meta |-> m2, versions |-> ws], q)
    BY <2>2, <2>3, <2>4
  <2>6. t = [meta |-> Dropped(m2, q), versions |-> ws]
    BY <2>5 DEF VE!Drop, Dropped
  <2> HIDE DEF m1, y, new
  <2> QED
    BY <2>3, <2>4, <2>6
<1>4. new = {1} /\ {Len(m) + i : i \in new} = {k}
  <2>1. new = {1}
    OBVIOUS
  <2> HIDE DEF new
  <2> QED
    BY <1>1, <2>1
<1>5. PICK x1 : x1 = [x EXCEPT !.refs = 1]
  OBVIOUS
<1>6. x1 \in FileRecords /\ x1.refs = 1 /\ x1.smallest <= x1.largest
  BY <1>5 DEF FileRecords
<1>7. tail = <<x1>>
  BY <1>5
<1>8. /\ grown \in Seq(FileRecords) /\ Len(grown) = k /\ grown[k] = x1
      /\ \A f \in 1..Len(m) : grown[f] = m[f]
  <2> HIDE DEF tail
  <2> QED
    BY <1>1, <1>6, <1>7
<1> HIDE DEF grown, tail
<1>9. ASSUME NEW l \in Levels
      PROVE  /\ vs[cur].files[l] \subseteq 1..Len(m)
             /\ files[l] = (vs[cur].files[l] \ del) \cup (IF l = level THEN {k} ELSE {})
  <2>1. vs[cur].files[l] \subseteq 1..Len(m)
    BY <1>1 DEF Sound, VersionSound
  <2> HIDE DEF new
  <2> QED
    BY <1>4, <2>1
<1>10. files \in [Levels -> SUBSET Nat] /\ \A l \in Levels : files[l] \subseteq 1..k
  <2>1. ASSUME NEW l \in Levels
        PROVE  files[l] \subseteq 1..k /\ files[l] \in SUBSET Nat
    <3>1. 1..Len(m) \subseteq 1..k /\ k \in 1..k /\ 1..k \subseteq Nat
      BY <1>1
    <3> HIDE DEF files
    <3> QED
      BY <1>9, <3>1
  <2> QED
    BY <2>1
<1>11. \A f : f \in all <=> \E l \in Levels : f \in files[l]
  OBVIOUS
<1> HIDE DEF files, all
<1>12. k \in all
  BY <1>9, <1>11
<1>13. ASSUME NEW f \in 1..Len(m), f \in all
       PROVE  ~m[f].freed
  <2>1. \E l \in Levels : f \in vs[cur].files[l]
    <3>1. f # k
      BY <1>1
    <3> QED
      BY <1>9, <1>11, <1>13, <3>1
  <2>2. cur \in Owners(vs, f)
    BY <1>1, <2>1 DEF Owners, InFiles
  <2> QED
    BY <1>1, <2>2 DEF Sound, FilesSound
<1>14. ASSUME NEW f \in 1..k
       PROVE  /\ m1[f] \in FileRecords /\ m1[f].smallest = grown[f].smallest /\ m1[f].largest = grown[f].largest
              /\ m1[f].freed = grown[f].freed
              /\ m1[f].refs = IF f \in all THEN grown[f].refs + 1 ELSE grown[f].refs
  <2>1. PICK g \in FileRecords : g = grown[f]
    BY <1>8
  <2>2. LET h == [g EXCEPT !.refs = @ + 1]
        IN  /\ h \in FileRecords /\ h.smallest = g.smallest /\ h.largest = g.largest /\ h.freed = g.freed
            /\ h.refs = g.refs + 1
    BY CountedIn
  <2>3. m1[f] = IF f \in all THEN [g EXCEPT !.refs = @ + 1] ELSE g
    BY <1>8, <2>1
  <2> HIDE DEF m1
  <2> QED
    BY <2>1, <2>2, <2>3
<1>15. m1 \in Seq(FileRecords) /\ Len(m1) = k
  <2>1. m1 \in [1..k -> FileRecords] /\ k \in Nat
    BY <1>1, <1>8, <1>14
  <2> HIDE DEF m1
  <2> QED
    BY <2>1
<1> HIDE DEF m1, n
<1>16. \A f \in 1..k : m1[f].smallest <= m1[f].largest
  <2>1. \A f \in 1..k : f \in 1..Len(m) \/ f = k
    BY <1>1
  <2>2. \A f \in 1..Len(m) : m[f].smallest <= m[f].largest
    BY <1>1 DEF Sound, FilesSound
  <2> QED
    BY <1>6, <1>8, <1>14, <2>1, <2>2
<1>17. /\ y \in VersionRecords /\ y.level \in 0..(VersionLevels - 2)
       /\ y.files = files /\ y.refs = 0 /\ ~y.freed /\ y.toCompact = 0
  <2>1. PICK z : z = VE!NewVersion(files)
    OBVIOUS
  <2>2. z \in VersionRecords /\ z.files = files /\ z.refs = 0 /\ ~z.freed /\ z.toCompact = 0
    BY <1>10, <2>1, NewVersionIs
  <2>3. \A l \in Levels : z.files[l] \subseteq 1..Len(m1)
    BY <1>10, <1>15, <2>2
  <2>4. y = VE!Finalize(m1, z)
    BY <2>1
  <2> HIDE DEF y
  <2> QED
    BY <1>15, <1>16, <2>2, <2>3, <2>4, FinalizeIs
<1> HIDE DEF y
<1>18. VersionSound(y, k)
  BY <1>10, <1>17 DEF VersionSound
<1>19. \A f : InFiles(y, f) <=> f \in all
  BY <1>11, <1>17 DEF InFiles
<1>20. m1[k].refs = 2
  BY <1>1, <1>6, <1>8, <1>12, <1>14
<1>21. /\ SameRanges(m1, n) /\ n[k].refs = 1 /\ ~n[k].freed
       /\ \A f \in 1..Len(m) : n[f] = m1[f]
  <2>1. n = Dropped(m1, {k})
    BY <1>4 DEF n
  <2>2. /\ SameRanges(m1, n)
        /\ \A f \in 1..k :
              IF f \in {k} THEN n[f].refs = m1[f].refs - 1 /\ (n[f].freed <=> m1[f].refs <= 1) ELSE n[f] = m1[f]
    BY <1>15, <1>20, <2>1, DroppedIs
  <2>3. k \in 1..k /\ \A f \in 1..Len(m) : f \in 1..k /\ f # k
    BY <1>1
  <2> QED
    BY <1>20, <2>2, <2>3
<1>22. n \in Seq(FileRecords) /\ Len(n) = k /\ n[k].smallest <= n[k].largest
  <2>1. k \in 1..k
    BY <1>1
  <2> QED
    BY <1>15, <1>16, <1>21, <2>1 DEF SameRanges
<1>23. ASSUME NEW f \in 1..Len(m)
       PROVE  /\ n[f].smallest = m[f].smallest /\ n[f].largest = m[f].largest /\ n[f].freed = m[f].freed
              /\ n[f].refs = IF InFiles(y, f) THEN m[f].refs + 1 ELSE m[f].refs
              /\ InFiles(y, f) => ~m[f].freed
  <2>1. f \in 1..k
    BY <1>1
  <2> QED
    BY <1>8, <1>13, <1>14, <1>19, <1>21, <2>1
<1>24. Sound(n, Append(vs, y))
  <2>1. LET p == Len(m) + 1
        IN  n[p].refs = 1 /\ ~n[p].freed /\ n[p].smallest <= n[p].largest /\ InFiles(y, p)
    BY <1>12, <1>19, <1>21, <1>22
  <2>2. Len(n) = Len(m) + 1 /\ VersionSound(y, Len(m) + 1)
    BY <1>18, <1>22
  <2> QED
    BY ONLY <1>1, <1>22, <1>23, <2>1, <2>2, GrownSound
<1>25. t.meta = n /\ t.versions = Append(vs, y)
  BY <1>3
<1>26. Len(Append(vs, y)) = c /\ Append(vs, y)[c] = y /\ \A v \in 1..Len(vs) : Append(vs, y)[v] = vs[v]
  BY <1>1, <1>17
<1> QED
  BY <1>0, <1>2, <1>9, <1>17, <1>24, <1>25, <1>26, ZenonT(60)

\* A file that is looked at for a key is where it is said to be, and on a level other than 0
\* it is the only one.
LEMMA LookedAre ==
    ASSUME Sound(meta, versions), NEW v \in 1..Len(versions), NEW k
    PROVE  /\ \A x \in VE!Looked(v, k) :
                 x.level \in Levels /\ x.file \in versions[v].files[x.level] /\ x.file \in 1..Len(meta)
           /\ \A x, y \in VE!Looked(v, k) : x.level = y.level /\ x.level # 0 => x = y
<1> DEFINE On(l) == {f \in versions[v].files[l] : VE!Covers(f, k)}
           One(l) == [file |-> CHOOSE f \in On(l) : TRUE, level |-> l]
           A == {[file |-> f, level |-> 0] : f \in On(0)}
           B == {One(l) : l \in {i \in 1..(VersionLevels - 1) : On(i) # {}}}
<1>0. VersionLevels \in Nat \ {0, 1} /\ 0 \in Levels /\ \A i \in 1..(VersionLevels - 1) : i \in Levels /\ i # 0
  <2>1. VersionLevels \in Nat \ {0, 1}
    BY PartsAssumption
  <2> QED
    BY <2>1 DEF Levels
<1>1. VE!Looked(v, k) = A \cup B
  BY Zenon DEF VE!Looked
<1>2. ASSUME NEW x \in A
      PROVE  x.level = 0 /\ x.file \in versions[v].files[x.level]
  <2>1. PICK f \in On(0) : x = [file |-> f, level |-> 0]
    OBVIOUS
  <2> QED
    BY <2>1
<1>3. ASSUME NEW x \in B
      PROVE  x.level \in 1..(VersionLevels - 1) /\ x = One(x.level) /\ x.file \in versions[v].files[x.level]
  <2>1. PICK l \in 1..(VersionLevels - 1) : x = One(l) /\ On(l) # {}
    OBVIOUS
  <2>2. x.level = l /\ x.file \in On(l)
    BY <2>1
  <2> QED
    BY <2>1, <2>2
<1> HIDE DEF A, B
<1>4. ASSUME NEW x \in A \cup B
      PROVE  x.level \in Levels /\ x.file \in versions[v].files[x.level] /\ x.file \in 1..Len(meta)
  <2>1. x.level \in Levels /\ x.file \in versions[v].files[x.level]
    BY <1>0, <1>2, <1>3
  <2>2. versions[v].files[x.level] \subseteq 1..Len(meta)
    BY <2>1 DEF Sound, VersionSound
  <2> QED
    BY <2>1, <2>2
<1> HIDE DEF One
<1>5. ASSUME NEW x \in A \cup B, NEW y \in A \cup B, x.level = y.level, x.level # 0
      PROVE  x = y
  BY <1>2, <1>3, <1>5
<1> QED
  BY <1>1, <1>4, <1>5

\* Of several files that are looked at the first is on a level that has one below it.
LEMMA FirstLooked ==
    ASSUME Sound(meta, versions), NEW v \in 1..Len(versions), NEW k,
           VE!Looked(v, k) # {}, \A x : VE!Looked(v, k) # {x}
    PROVE  LET x == VE!LookedFirst(v, k)
           IN  x.level \in 0..(VersionLevels - 2) /\ x.file \in versions[v].files[x.level]
<1> DEFINE Before(x, y) == x.level < y.level \/ (x.level = y.level /\ meta[x.file].number >= meta[y.file].number)
<1>0. PICK L : L = VE!Looked(v, k)
  OBVIOUS
<1>1. /\ \A x \in L : x.level \in Levels /\ x.file \in versions[v].files[x.level] /\ x.file \in 1..Len(meta)
      /\ \A x, y \in L : x.level = y.level /\ x.level # 0 => x = y
  BY <1>0, LookedAre
<1>2. VersionLevels \in Nat \ {0, 1} /\ Levels \subseteq Nat
  <2>1. VersionLevels \in Nat \ {0, 1}
    BY PartsAssumption
  <2> QED
    BY <2>1 DEF Levels
<1>3. \A f \in 1..Len(meta) : meta[f].number \in Nat
  <2>1. \A f \in 1..Len(meta) : meta[f] \in FileRecords
    BY DEF Sound
  <2> QED
    BY <2>1 DEF FileRecords
<1>4. \E x \in L : \A y \in L : Before(x, y)
  <2> DEFINE lev == {x.level : x \in L}
  <2>1. lev \in SUBSET Nat /\ lev # {}
    <3>1. PICK z : z \in L
      BY <1>0
    <3>2. z.level \in lev
      BY <3>1
    <3>3. \A x \in L : x.level \in Nat
      BY <1>1, <1>2
    <3> QED
      BY <3>2, <3>3
  <2> HIDE DEF lev
  <2>2. PICK a : a \in lev /\ \A b \in lev : a <= b
    BY <2>1, LeastOf
  <2> DEFINE top == {x \in L : x.level = a}
             num == {meta[x.file].number : x \in top}
  <2>3. num \in SUBSET Nat /\ num # {}
    BY <1>1, <1>3, <2>2 DEF lev
  <2>4. PICK b \in Nat : \A n \in num : n <= b
    <3>1. Len(meta) \in Nat
      BY DEF Sound
    <3> DEFINE g == [f \in 1..Len(meta) |-> meta[f].number]
    <3>2. \A f \in 1..Len(meta) : g[f] \in Nat
      BY <1>3
    <3>3. PICK b \in Nat : \A f \in 1..Len(meta) : g[f] <= b
      <4> HIDE DEF g
      <4>1. PICK n, h : n \in Nat /\ n = Len(meta) /\ h = g
        BY <3>1
      <4>2. \A f \in 1..n : h[f] \in Nat
        BY <3>2, <4>1
      <4> QED
        BY <4>1, <4>2, BoundOf
    <3>4. \A n \in num : n <= b
      BY <1>1, <3>3
    <3> QED
      BY <3>4
  <2> HIDE DEF num
  <2>5. PICK n : n \in num /\ \A p \in num : p <= n
    BY <2>3, <2>4, GreatestOf
  <2>6. PICK x \in top : n = meta[x.file].number
    BY <2>5 DEF num
  <2>7. ASSUME NEW y \in L
        PROVE  Before(x, y)
    <3>1. a <= y.level /\ y.level \in Nat /\ a \in Nat /\ x.level = a
      BY <1>1, <1>2, <2>2, <2>6 DEF lev
    <3>2. CASE a < y.level
      BY <3>1, <3>2
    <3>3. CASE a = y.level
      <4>1. meta[y.file].number \in num
        BY <3>3 DEF num
      <4>2. meta[y.file].number <= n /\ n \in Nat /\ meta[y.file].number \in Nat
        BY <2>3, <2>5, <4>1
      <4> QED
        BY <2>6, <3>1, <3>3, <4>2
    <3> QED
      BY <3>1, <3>2, <3>3
  <2> QED
    BY <2>6, <2>7
<1>5. PICK x : x = VE!LookedFirst(v, k)
  OBVIOUS
<1>6. x = CHOOSE z \in L : \A y \in L : Before(z, y)
  BY <1>0, <1>5, Zenon DEF VE!LookedFirst
<1>7. x \in L /\ \A y \in L : Before(x, y)
  <2> HIDE DEF Before
  <2> QED
    BY <1>4, <1>6, Zenon
<1>8. ASSUME x.level = VersionLevels - 1
      PROVE  FALSE
  <2>1. ASSUME NEW y \in L
        PROVE  y = x
    <3>1. y.level \in 0..(VersionLevels - 1) /\ x.level <= y.level
      <4>1. y.level \in Levels /\ x.level \in Nat /\ y.level \in Nat /\ Before(x, y)
        BY <1>1, <1>2, <1>7
      <4> QED
        BY <4>1 DEF Levels
    <3>2. y.level = x.level /\ x.level # 0
      BY <1>2, <1>8, <3>1
    <3> QED
      BY <1>1, <1>7, <3>2
  <2>2. L = {x}
    BY <1>7, <2>1
  <2> QED
    BY <1>0, <2>2
<1>9. x.level \in 0..(VersionLevels - 1) /\ x.file \in versions[v].files[x.level]
  BY <1>1, <1>7 DEF Levels
<1> QED
  BY <1>2, <1>5, <1>8, <1>9

\* The range of some files spans each of them.
LEMMA RangeSpans ==
    ASSUME Sound(meta, versions), NEW fs \in SUBSET (1..Len(meta)), fs # {}
    PROVE  /\ VE!First(fs) \in Nat /\ VE!Final(fs) \in Nat /\ VE!First(fs) <= VE!Final(fs)
           /\ \A f \in fs : VE!First(fs) <= meta[f].smallest /\ meta[f].largest <= VE!Final(fs)
<1> DEFINE A == {meta[f].smallest : f \in fs}
           B == {meta[f].largest : f \in fs}
<1>1. \A f \in 1..Len(meta) : meta[f].smallest \in Nat /\ meta[f].largest \in Nat /\ meta[f].smallest <= meta[f].largest
  <2>1. \A f \in 1..Len(meta) : meta[f] \in FileRecords
    BY DEF Sound
  <2>2. \A f \in 1..Len(meta) : meta[f].smallest \in Nat /\ meta[f].largest \in Nat
    BY <2>1 DEF FileRecords
  <2> QED
    BY <2>2 DEF Sound, FilesSound
<1>2. PICK f0 : f0 \in fs
  OBVIOUS
<1>3. A \in SUBSET Nat /\ A # {} /\ B \in SUBSET Nat /\ B # {}
  <2>1. meta[f0].smallest \in A /\ meta[f0].largest \in B
    BY <1>2
  <2>2. \A f \in fs : meta[f].smallest \in Nat /\ meta[f].largest \in Nat
    BY <1>1
  <2> QED
    BY <2>1, <2>2
<1>4. PICK b \in Nat : \A x \in B : x <= b
  <2> DEFINE g == [f \in 1..Len(meta) |-> meta[f].largest]
  <2>1. Len(meta) \in Nat /\ \A f \in 1..Len(meta) : g[f] \in Nat
    BY <1>1 DEF Sound
  <2>2. PICK b \in Nat : \A f \in 1..Len(meta) : g[f] <= b
    <3> HIDE DEF g
    <3>1. PICK n, h : n \in Nat /\ n = Len(meta) /\ h = g
      BY <2>1
    <3>2. \A f \in 1..n : h[f] \in Nat
      BY <2>1, <3>1
    <3> QED
      BY <3>1, <3>2, BoundOf
  <2>3. \A x \in B : x <= b
    BY <2>2
  <2> QED
    BY <2>3
<1>5. VE!First(fs) = Min(A) /\ VE!Final(fs) = Max(B)
  BY DEF VE!First, VE!Final, VE!Min, VE!Max, Min, Max
<1>6. \A f \in fs : meta[f].smallest \in A /\ meta[f].largest \in B
  OBVIOUS
<1> HIDE DEF A, B
<1>7. PICK lo, hi : lo = Min(A) /\ hi = Max(B)
  OBVIOUS
<1>8. lo \in A /\ (\A x \in A : lo <= x) /\ hi \in B /\ \A x \in B : x <= hi
  BY <1>3, <1>4, <1>7, LeastOf, GreatestOf
<1>9. lo \in Nat /\ hi \in Nat /\ \A f \in fs : lo <= meta[f].smallest /\ meta[f].largest <= hi
  BY <1>3, <1>6, <1>8
<1>10. lo <= hi
  <2>1. /\ lo <= meta[f0].smallest /\ meta[f0].largest <= hi /\ meta[f0].smallest <= meta[f0].largest
        /\ meta[f0].smallest \in Nat /\ meta[f0].largest \in Nat
    BY <1>1, <1>2, <1>9
  <2> QED
    BY <1>9, <2>1
<1> QED
  BY <1>5, <1>7, <1>9, <1>10

\* What Closed collects, up to the n-th round.
ClosedUpTo(files, all, n, f) ==
    f = [i \in 0..n |-> IF i = 0 THEN files ELSE VE!Overlapping(all, VE!First(f[i - 1]), VE!Final(f[i - 1]))]

\* The recursive function of Closed exists.
LEMMA ClosedDefined ==
    ASSUME NEW files, NEW all, NEW n \in Nat
    PROVE  \E f : ClosedUpTo(files, all, n, f)
<1> DEFINE Round(x) == VE!Overlapping(all, VE!First(x), VE!Final(x))
           S == {m \in Nat : \E f : f = [i \in 0..m |-> IF i = 0 THEN files ELSE Round(f[i - 1])]}
<1> HIDE DEF Round
<1>1. 0 \in S
  <2> DEFINE f == [i \in 0..0 |-> files]
  <2>1. f = [i \in 0..0 |-> IF i = 0 THEN files ELSE Round(f[i - 1])]
    OBVIOUS
  <2> QED
    BY <2>1
<1>2. ASSUME NEW m \in S
      PROVE  m + 1 \in S
  <2>1. PICK f : f = [i \in 0..m |-> IF i = 0 THEN files ELSE Round(f[i - 1])]
    OBVIOUS
  <2> DEFINE h == [i \in 0..(m + 1) |-> IF i # m + 1 THEN f[i] ELSE Round(f[m])]
  <2>2. \A i \in 0..m : f[i] = IF i = 0 THEN files ELSE Round(f[i - 1])
    BY <2>1
  <2>3. \A i \in 0..m : h[i] = f[i]
    OBVIOUS
  <2>4. h[m + 1] = Round(h[m])
    BY <2>3
  <2>5. ASSUME NEW i \in 0..(m + 1)
        PROVE  h[i] = IF i = 0 THEN files ELSE Round(h[i - 1])
    <3> HIDE DEF h
    <3>1. CASE i = m + 1
      BY <2>4, <3>1
    <3>2. CASE i \in 0..m
      <4>1. i # 0 => i - 1 \in 0..m
        BY <3>2
      <4> QED
        BY <2>2, <2>3, <3>2, <4>1
    <3> QED
      BY <3>1, <3>2
  <2>6. h = [i \in 0..(m + 1) |-> IF i = 0 THEN files ELSE Round(h[i - 1])]
    BY <2>5
  <2>7. \E q : q = [i \in 0..(m + 1) |-> IF i = 0 THEN files ELSE Round(q[i - 1])]
    <3> HIDE DEF h
    <3> QED
      BY <2>6, Zenon
  <2>8. m + 1 \in Nat
    OBVIOUS
  <2> QED
    BY <2>7, <2>8, Zenon
<1>3. S \in SUBSET Nat
  OBVIOUS
<1>4. S = Nat
  <2> HIDE DEF S
  <2> QED
    BY <1>1, <1>2, <1>3, SetInduction
<1>5. PICK f : f = [i \in 0..n |-> IF i = 0 THEN files ELSE Round(f[i - 1])]
  BY <1>4
<1>6. ClosedUpTo(files, all, n, f)
  BY <1>5, Zenon DEF ClosedUpTo, Round
<1> QED
  BY <1>6

\* GetOverlappingInputs takes files of the level, and those it was given.
LEMMA ClosedIs ==
    ASSUME Sound(meta, versions), NEW all \in SUBSET (1..Len(meta)), NEW g \in all
    PROVE  VE!Closed({g}, all) \subseteq all /\ g \in VE!Closed({g}, all)
<1>1. PICK n : n = VE!Cardinality(all) /\ n \in Nat
  <2>1. Len(meta) \in Nat
    BY DEF Sound
  <2>2. IsFiniteSet(1..Len(meta))
    BY <2>1, FS_Interval
  <2>3. Cardinality(all) \in Nat
    BY <2>2, FS_Subset, FS_CardinalityType
  <2> QED
    BY <2>3, CountsAgree
<1> DEFINE f == CHOOSE f : ClosedUpTo({g}, all, VE!Cardinality(all), f)
<1>2. ClosedUpTo({g}, all, VE!Cardinality(all), f)
  <2>1. \E h : ClosedUpTo({g}, all, VE!Cardinality(all), h)
    BY <1>1, ClosedDefined
  <2> QED
    BY <2>1, Zenon
<1>3. VE!Closed({g}, all) = f[VE!Cardinality(all)]
  BY Zenon DEF VE!Closed, ClosedUpTo
<1> HIDE DEF f
<1>4. ClosedUpTo({g}, all, n, f)
  BY <1>1, <1>2
<1>5. \A i \in 0..n : f[i] = IF i = 0 THEN {g} ELSE VE!Overlapping(all, VE!First(f[i - 1]), VE!Final(f[i - 1]))
  BY <1>4, Zenon DEF ClosedUpTo
<1> DEFINE S == {i \in Nat : i <= n => f[i] \subseteq all /\ g \in f[i]}
<1>6. 0 \in S
  BY <1>1, <1>5
<1>7. ASSUME NEW i \in S
      PROVE  i + 1 \in S
  <2> SUFFICES ASSUME i + 1 <= n
               PROVE  f[i + 1] \subseteq all /\ g \in f[i + 1]
    OBVIOUS
  <2>1. i \in Nat /\ f[i] \subseteq all /\ g \in f[i]
    BY <1>1
  <2>2. i + 1 \in 0..n /\ i + 1 # 0 /\ (i + 1) - 1 = i
    BY <1>1, <2>1
  <2>3. PICK x : x = f[i]
    OBVIOUS
  <2>4. f[i + 1] = VE!Overlapping(all, VE!First(x), VE!Final(x))
    BY <1>5, <2>2, <2>3
  <2>5. x \in SUBSET (1..Len(meta)) /\ x # {} /\ g \in x
    BY <2>1, <2>3
  <2>6. PICK lo, hi : lo = VE!First(x) /\ hi = VE!Final(x)
    OBVIOUS
  <2>7. lo \in Nat /\ hi \in Nat /\ lo <= meta[g].smallest /\ meta[g].largest <= hi
    BY <2>5, <2>6, RangeSpans
  <2>8. meta[g].smallest \in Nat /\ meta[g].largest \in Nat /\ meta[g].smallest <= meta[g].largest
    <3>1. meta[g] \in FileRecords /\ meta[g].smallest <= meta[g].largest
      BY DEF Sound, FilesSound
    <3> QED
      BY <3>1 DEF FileRecords
  <2>9. meta[g].smallest <= hi /\ lo <= meta[g].largest
    BY <2>7, <2>8
  <2> QED
    BY <2>4, <2>6, <2>9 DEF VE!Overlapping
<1>8. S = Nat
  <2>1. S \in SUBSET Nat
    OBVIOUS
  <2> HIDE DEF S
  <2> QED
    BY <2>1, <1>6, <1>7, SetInduction
<1>9. f[n] \subseteq all /\ g \in f[n]
  BY <1>1, <1>8
<1> QED
  BY <1>1, <1>3, <1>9

\* How many readers have a version, and what a reader that takes one changes.
LEMMA ReadersCount ==
    ASSUME NEW rd, NEW v
    PROVE  /\ IsFiniteSet({q \in Readers : rd[q] = v})
           /\ Cardinality({q \in Readers : rd[q] = v}) \in Nat
<1>1. IsFiniteSet(Readers) /\ {q \in Readers : rd[q] = v} \subseteq Readers
  BY PartsAssumption
<1> QED
  BY <1>1, FS_Subset, FS_CardinalityType

\* Users are counted.
LEMMA UsersNat ==
    ASSUME NEW cur, NEW rd, NEW comp, NEW v
    PROVE  UsersOf(cur, rd, comp, v) \in Nat
<1>1. PICK n : n = Cardinality({q \in Readers : rd[q] = v}) /\ n \in Nat
  BY ReadersCount
<1> QED
  BY <1>1 DEF UsersOf

\* A reader without a version takes one.
Takes(rd, r, c, p) ==
    /\ rd \in [Readers -> Nat] /\ r \in Readers /\ rd[r] = 0
    /\ c \in Nat /\ c # 0 /\ p = [rd EXCEPT ![r] = c]

\* One of n versions has a user more.
OneUserMore(cur, rd, comp, p, comp2, v, n) ==
    \A w \in 1..n :
        UsersOf(cur, p, comp2, w) = IF w = v THEN UsersOf(cur, rd, comp, w) + 1 ELSE UsersOf(cur, rd, comp, w)

\* A reader that takes a version is a user more of it.
LEMMA PinnedUsers ==
    ASSUME NEW rd, NEW r, NEW c, NEW p, Takes(rd, r, c, p), NEW cur, NEW comp, NEW n \in Nat
    PROVE  OneUserMore(cur, rd, comp, p, comp, c, n)
<1> SUFFICES ASSUME NEW v \in 1..n
             PROVE  UsersOf(cur, p, comp, v) = IF v = c THEN UsersOf(cur, rd, comp, v) + 1 ELSE UsersOf(cur, rd, comp, v)
  BY DEF OneUserMore
<1> USE DEF Takes
<1> DEFINE A == {q \in Readers : rd[q] = v}
           B == {q \in Readers : p[q] = v}
<1>1. IsFiniteSet(A) /\ Cardinality(A) \in Nat
  BY ReadersCount
<1>2. r \notin A
  OBVIOUS
<1>3. CASE v = c
  <2>1. B = A \cup {r}
    BY <1>3
  <2>2. Cardinality(A \cup {r}) = Cardinality(A) + 1
    BY <1>1, <1>2, FS_AddElement
  <2>3. PICK a, b : a = Cardinality(A) /\ b = Cardinality(B)
    OBVIOUS
  <2> QED
    BY <1>1, <1>3, <2>1, <2>2, <2>3 DEF UsersOf
<1>4. CASE v # c
  <2>1. B = A
    BY <1>4
  <2> QED
    BY <1>4, <2>1 DEF UsersOf
<1> QED
  BY <1>3, <1>4

\* The invariant, of a state given by its parts.
VersionsSound(m, vs, cur, rd, comp, nx) ==
    Sound(m, vs) /\ UsesSound(vs, cur, rd, comp, nx) /\ CompactionSound(vs, cur, comp, nx)

\* A version with users is not freed.
LEMMA UsedKept ==
    ASSUME NEW vs, NEW cur, NEW rd, NEW comp, NEW nx, UsesSound(vs, cur, rd, comp, nx),
           vs \in Seq(VersionRecords)
    PROVE  /\ \A v \in 1..Len(vs) : vs[v].refs \in Nat /\ vs[v].freed \in BOOLEAN
           /\ vs[cur].refs # 0 /\ ~vs[cur].freed
           /\ \A r \in Readers : rd[r] # 0 => rd[r] \in 1..Len(vs) /\ rd[r] # nx /\ vs[rd[r]].refs # 0
           /\ comp.version # 0 => comp.version \in 1..Len(vs) /\ comp.version # nx /\ vs[comp.version].refs # 0
<1>1. \A v \in 1..Len(vs) : vs[v].refs \in Nat /\ vs[v].freed \in BOOLEAN
  <2>1. \A v \in 1..Len(vs) : vs[v] \in VersionRecords
    OBVIOUS
  <2> QED
    BY <2>1 DEF VersionRecords
<1>2. Len(vs) \in Nat
  OBVIOUS
<1>3. ASSUME NEW v \in 1..Len(vs), cur = v \/ comp.version = v
      PROVE  UsersOf(cur, rd, comp, v) # 0
  <2>1. PICK n : n = Cardinality({q \in Readers : rd[q] = v}) /\ n \in Nat
    BY ReadersCount
  <2> QED
    BY <1>3, <2>1 DEF UsersOf
<1>4. ASSUME NEW r \in Readers, rd[r] # 0
      PROVE  rd[r] \in 1..Len(vs) /\ UsersOf(cur, rd, comp, rd[r]) # 0
  <2>1. rd[r] \in 1..Len(vs)
    BY <1>2, <1>4 DEF UsesSound
  <2>2. PICK v : v = rd[r]
    OBVIOUS
  <2>3. PICK A : A = {q \in Readers : rd[q] = v}
    OBVIOUS
  <2>4. IsFiniteSet(A) /\ Cardinality(A) \in Nat /\ r \in A
    BY <2>2, <2>3, ReadersCount
  <2>5. Cardinality(A) # 0
    BY <2>4, FS_EmptySet
  <2>6. UsersOf(cur, rd, comp, v) # 0
    BY <2>3, <2>4, <2>5 DEF UsersOf
  <2> QED
    BY <2>1, <2>2, <2>6
<1>5. \A v \in 1..Len(vs) : UsersOf(cur, rd, comp, v) # 0 => vs[v].refs # 0 /\ ~vs[v].freed /\ v # nx
  BY <1>1 DEF UsesSound
<1>6. cur \in 1..Len(vs) /\ (comp.version # 0 => comp.version \in 1..Len(vs))
  BY <1>2 DEF UsesSound
<1> QED
  BY <1>1, <1>3, <1>4, <1>5, <1>6

\* The inputs of a compaction are where they are as long as the files of the current
\* version and of the next one are.
LEMMA SameInputs ==
    ASSUME NEW vs, NEW ws, NEW cur, NEW comp, NEW nx, CompactionSound(vs, cur, comp, nx),
           ws[cur].files = vs[cur].files, nx # 0 => ws[nx].files = vs[nx].files
    PROVE  CompactionSound(ws, cur, comp, nx)
BY DEF CompactionSound, InputsIn

\* A user more.
LEMMA MoreUsers ==
    ASSUME NEW vs, NEW ws, NEW cur, NEW rd, NEW comp, NEW nx, NEW rd2, NEW comp2, NEW v \in 1..Len(vs),
           vs \in Seq(VersionRecords), UsesSound(vs, cur, rd, comp, nx), v # nx, ~vs[v].freed,
           Replaced(vs, v, [vs[v] EXCEPT !.refs = @ + 1], ws),
           rd2 \in [Readers -> 0..Len(vs)], comp2.version \in 0..Len(vs),
           OneUserMore(cur, rd, comp, rd2, comp2, v, Len(vs))
    PROVE  UsesSound(ws, cur, rd2, comp2, nx) /\ \A w \in 1..Len(vs) : ws[w].files = vs[w].files
<1>1. /\ ws[v].refs = vs[v].refs + 1 /\ ws[v].freed = vs[v].freed /\ ws[v].files = vs[v].files
      /\ vs[v].refs \in Nat
  <2>1. PICK x : x = vs[v]
    OBVIOUS
  <2>2. x \in VersionRecords
    BY <2>1
  <2>3. ws[v] = [x EXCEPT !.refs = @ + 1]
    BY <2>1 DEF Replaced
  <2>4. ws[v].refs = x.refs + 1 /\ ws[v].freed = x.freed /\ ws[v].files = x.files /\ x.refs \in Nat
    BY <2>2, <2>3 DEF VersionRecords
  <2> QED
    BY <2>1, <2>4
<1>2. \A w \in 1..Len(vs) : w # v => ws[w] = vs[w]
  BY DEF Replaced
<1>3. ASSUME NEW w \in 1..Len(vs)
      PROVE  ws[w].refs = UsersOf(cur, rd2, comp2, w) /\ (ws[w].freed <=> ws[w].refs = 0 /\ w # nx)
  <2>1. vs[w].refs = UsersOf(cur, rd, comp, w) /\ (vs[w].freed <=> vs[w].refs = 0 /\ w # nx)
    BY DEF UsesSound
  <2>2. CASE w = v
    BY <1>1, <2>1, <2>2 DEF OneUserMore
  <2>3. CASE w # v
    BY <1>2, <2>1, <2>3 DEF OneUserMore
  <2> QED
    BY <2>2, <2>3
<1>4. nx # 0 => nx \in 1..Len(vs) /\ ws[nx].refs = 0
  BY <1>2 DEF UsesSound
<1>5. Len(ws) = Len(vs)
  BY DEF Replaced
<1> QED
  BY <1>1, <1>2, <1>3, <1>4, <1>5 DEF UsesSound

\* The current version and the next one have the files they had.
FilesStay(vs, ws, cur, nx) == ws[cur].files = vs[cur].files /\ (nx # 0 => ws[nx].files = vs[nx].files)

\* A version has a user less, or is gone with the last.
LosesUser(vs, v, ws) == Replaced(vs, v, IF vs[v].refs = 1 THEN Gone ELSE [vs[v] EXCEPT !.refs = @ - 1], ws)

\* A user less.
LEMMA FewerUsers ==
    ASSUME NEW vs, NEW ws, NEW cur, NEW rd, NEW comp, NEW nx, NEW rd2, NEW comp2, NEW v \in 1..Len(vs),
           vs \in Seq(VersionRecords), UsesSound(vs, cur, rd, comp, nx), v # nx, vs[v].refs # 0,
           LosesUser(vs, v, ws),
           rd2 \in [Readers -> 0..Len(vs)], comp2.version \in 0..Len(vs),
           OneUserMore(cur, rd2, comp2, rd, comp, v, Len(vs))
    PROVE  UsesSound(ws, cur, rd2, comp2, nx) /\ FilesStay(vs, ws, cur, nx)
<1>0. /\ \A w \in 1..Len(vs) : vs[w].refs \in Nat /\ vs[w].freed \in BOOLEAN
      /\ vs[cur].refs # 0
  BY UsedKept
<1>1. /\ ws[v].refs = vs[v].refs - 1 /\ (ws[v].freed <=> vs[v].refs = 1)
      /\ vs[v].refs # 1 => ws[v].files = vs[v].files
  <2>1. PICK x : x = vs[v]
    OBVIOUS
  <2>2. x \in VersionRecords /\ x.refs # 0 /\ ~x.freed /\ x.refs \in Nat
    BY <1>0, <2>1 DEF UsesSound
  <2>3. CASE x.refs = 1
    BY <2>1, <2>3, GoneIs DEF LosesUser, Replaced
  <2>4. CASE x.refs # 1
    <3>1. ws[v] = [x EXCEPT !.refs = @ - 1]
      BY <2>1, <2>4 DEF LosesUser, Replaced
    <3>2. ws[v].refs = x.refs - 1 /\ ws[v].freed = x.freed /\ ws[v].files = x.files
      BY <2>2, <3>1 DEF VersionRecords
    <3> QED
      BY <2>1, <2>2, <2>4, <3>2
  <2> QED
    BY <2>3, <2>4
<1>2. \A w \in 1..Len(vs) : w # v => ws[w] = vs[w]
  BY DEF LosesUser, Replaced
<1>3. \A w : UsersOf(cur, rd2, comp2, w) \in Nat
  BY UsersNat
<1>4. ASSUME NEW w \in 1..Len(vs)
      PROVE  ws[w].refs = UsersOf(cur, rd2, comp2, w) /\ (ws[w].freed <=> ws[w].refs = 0 /\ w # nx)
  <2>1. vs[w].refs = UsersOf(cur, rd, comp, w) /\ (vs[w].freed <=> vs[w].refs = 0 /\ w # nx)
    BY DEF UsesSound
  <2>2. CASE w = v
    <3>1. vs[v].refs = UsersOf(cur, rd2, comp2, v) + 1
      BY <2>1, <2>2 DEF OneUserMore
    <3>2. ws[v].refs = UsersOf(cur, rd2, comp2, v)
      BY <1>0, <1>1, <1>3, <3>1
    <3>3. vs[v].refs = 1 <=> ws[v].refs = 0
      BY <1>0, <1>1
    <3> QED
      BY <1>1, <2>2, <3>2, <3>3
  <2>3. CASE w # v
    BY <1>2, <2>1, <2>3 DEF OneUserMore
  <2> QED
    BY <2>2, <2>3
<1>5. nx # 0 => nx \in 1..Len(vs) /\ ws[nx].refs = 0 /\ ws[nx].files = vs[nx].files
  BY <1>2 DEF UsesSound
<1>6. Len(ws) = Len(vs) /\ cur \in 1..Len(vs)
  BY DEF LosesUser, Replaced, UsesSound
<1>7. ws[cur].files = vs[cur].files
  <2>1. CASE cur = v
    <3>1. UsersOf(cur, rd2, comp2, cur) # 0
      <4>1. PICK n : n = Cardinality({q \in Readers : rd2[q] = cur}) /\ n \in Nat
        BY ReadersCount
      <4> QED
        BY <4>1 DEF UsersOf
    <3>2. vs[v].refs = UsersOf(cur, rd2, comp2, v) + 1
      BY <1>6, <2>1 DEF UsesSound, OneUserMore
    <3> QED
      BY <1>1, <1>3, <2>1, <3>1, <3>2
  <2>2. CASE cur # v
    BY <1>2, <1>6, <2>2
  <2> QED
    BY <2>1, <2>2
<1> QED
  BY <1>4, <1>5, <1>6, <1>7 DEF UsesSound, FilesStay

\* A reader takes the current version.
LEMMA PinKeeps ==
    ASSUME NEW m, NEW vs, NEW cur, NEW rd, NEW comp, NEW nx, VersionsSound(m, vs, cur, rd, comp, nx),
           NEW r \in Readers, rd[r] = 0
    PROVE  LET t == VE!Ref([meta |-> m, versions |-> vs], cur)
           IN  VersionsSound(t.meta, t.versions, cur, [rd EXCEPT ![r] = cur], comp, nx)
<1>1. Sound(m, vs) /\ UsesSound(vs, cur, rd, comp, nx) /\ CompactionSound(vs, cur, comp, nx)
  BY DEF VersionsSound
<1>2. vs \in Seq(VersionRecords) /\ Len(vs) \in Nat
  BY <1>1 DEF Sound
<1>3. /\ cur \in 1..Len(vs) /\ cur # nx /\ ~vs[cur].freed
      /\ rd \in [Readers -> 0..Len(vs)] /\ comp.version \in 0..Len(vs)
  <2>1. ~vs[cur].freed
    BY ONLY <1>1, <1>2, UsedKept
  <2> QED
    BY <1>1, <2>1 DEF UsesSound
<1>4. PICK p : p = [rd EXCEPT ![r] = cur]
  OBVIOUS
<1>5. p \in [Readers -> 0..Len(vs)] /\ rd \in [Readers -> Nat] /\ cur \in Nat /\ cur # 0
  BY <1>2, <1>3, <1>4
<1>6. OneUserMore(cur, rd, comp, p, comp, cur, Len(vs))
  <2>1. Takes(rd, r, cur, p)
    BY <1>4, <1>5 DEF Takes
  <2> QED
    BY <1>2, <2>1, PinnedUsers
<1>7. PICK t : t = VE!Ref([meta |-> m, versions |-> vs], cur)
  OBVIOUS
<1>8. /\ Sound(t.meta, t.versions)
      /\ Replaced(vs, cur, [vs[cur] EXCEPT !.refs = @ + 1], t.versions)
  BY <1>1, <1>3, <1>7, RefIs
<1>9. UsesSound(t.versions, cur, p, comp, nx) /\ \A w \in 1..Len(vs) : t.versions[w].files = vs[w].files
  <2>1. PICK ws : ws = t.versions
    OBVIOUS
  <2>2. Replaced(vs, cur, [vs[cur] EXCEPT !.refs = @ + 1], ws)
    BY <1>8, <2>1
  <2>3. UsesSound(ws, cur, p, comp, nx) /\ \A w \in 1..Len(vs) : ws[w].files = vs[w].files
    BY ONLY <1>1, <1>2, <1>3, <1>5, <1>6, <2>2, MoreUsers
  <2> QED
    BY <2>1, <2>3
<1>10. CompactionSound(t.versions, cur, comp, nx)
  <2>1. nx # 0 => nx \in 1..Len(vs)
    BY <1>1, <1>2 DEF UsesSound
  <2> QED
    BY <1>1, <1>3, <1>9, <2>1, SameInputs
<1> QED
  BY <1>4, <1>7, <1>8, <1>9, <1>10 DEF VersionsSound

\* A reader gives its version up.
LEMMA UnpinKeeps ==
    ASSUME NEW m, NEW vs, NEW cur, NEW rd, NEW comp, NEW nx, VersionsSound(m, vs, cur, rd, comp, nx),
           NEW r \in Readers, rd[r] # 0
    PROVE  LET t == VE!Unref([meta |-> m, versions |-> vs], rd[r])
           IN  VersionsSound(t.meta, t.versions, cur, [rd EXCEPT ![r] = 0], comp, nx)
<1>1. Sound(m, vs) /\ UsesSound(vs, cur, rd, comp, nx) /\ CompactionSound(vs, cur, comp, nx)
  BY DEF VersionsSound
<1>2. vs \in Seq(VersionRecords) /\ Len(vs) \in Nat
  BY <1>1 DEF Sound
<1>3. PICK v : v = rd[r]
  OBVIOUS
<1>4. /\ v \in 1..Len(vs) /\ v # nx /\ vs[v].refs # 0
      /\ rd \in [Readers -> 0..Len(vs)] /\ comp.version \in 0..Len(vs)
  <2>1. \A q \in Readers : rd[q] # 0 => rd[q] \in 1..Len(vs) /\ rd[q] # nx /\ vs[rd[q]].refs # 0
    BY ONLY <1>1, <1>2, UsedKept
  <2> QED
    BY <1>1, <1>3, <2>1 DEF UsesSound
<1>5. PICK p : p = [rd EXCEPT ![r] = 0]
  OBVIOUS
<1>6. p \in [Readers -> 0..Len(vs)] /\ rd \in [Readers -> Nat] /\ v \in Nat /\ v # 0
  BY <1>2, <1>4, <1>5
<1>7. OneUserMore(cur, p, comp, rd, comp, v, Len(vs))
  <2>1. p \in [Readers -> Nat] /\ p[r] = 0 /\ rd = [p EXCEPT ![r] = v]
    BY <1>3, <1>5, <1>6
  <2>2. Takes(p, r, v, rd)
    BY <1>6, <2>1 DEF Takes
  <2> QED
    BY <1>2, <2>2, PinnedUsers
<1>8. PICK t : t = VE!Unref([meta |-> m, versions |-> vs], v)
  OBVIOUS
<1>9. /\ Sound(t.meta, t.versions)
      /\ Replaced(vs, v, IF vs[v].refs = 1 THEN Gone ELSE [vs[v] EXCEPT !.refs = @ - 1], t.versions)
  BY <1>1, <1>4, <1>8, UnrefIs
<1>10. /\ UsesSound(t.versions, cur, p, comp, nx)
       /\ t.versions[cur].files = vs[cur].files
       /\ nx # 0 => t.versions[nx].files = vs[nx].files
  <2>1. PICK ws : ws = t.versions
    OBVIOUS
  <2>2. LosesUser(vs, v, ws)
    BY <1>9, <2>1 DEF LosesUser
  <2>3. UsesSound(ws, cur, p, comp, nx) /\ ws[cur].files = vs[cur].files /\ (nx # 0 => ws[nx].files = vs[nx].files)
    <3>1. UsesSound(vs, cur, rd, comp, nx) /\ v \in 1..Len(vs) /\ v # nx /\ vs[v].refs # 0
      BY <1>1, <1>4
    <3>2. p \in [Readers -> 0..Len(vs)] /\ comp.version \in 0..Len(vs)
      BY <1>4, <1>6
    <3>3. UsesSound(ws, cur, p, comp, nx) /\ FilesStay(vs, ws, cur, nx)
      BY ONLY <1>2, <1>7, <2>2, <3>1, <3>2, FewerUsers
    <3> QED
      BY <3>3 DEF FilesStay
  <2> QED
    BY <2>1, <2>3
<1>11. CompactionSound(t.versions, cur, comp, nx)
  BY <1>1, <1>10, SameInputs
<1> QED
  BY <1>3, <1>5, <1>8, <1>9, <1>10, <1>11 DEF VersionsSound

\* A compaction gives up the version it was of.
LEMMA ReleaseKeeps ==
    ASSUME NEW m, NEW vs, NEW cur, NEW rd, NEW comp, VersionsSound(m, vs, cur, rd, comp, 0),
           comp.level = -1
    PROVE  LET t == VE!Unref([meta |-> m, versions |-> vs], comp.version)
           IN  VersionsSound(t.meta, t.versions, cur, rd, VE!NoCompaction, 0)
<1>1. Sound(m, vs) /\ UsesSound(vs, cur, rd, comp, 0) /\ CompactionSound(vs, cur, comp, 0)
  BY DEF VersionsSound
<1>2. vs \in Seq(VersionRecords) /\ Len(vs) \in Nat
  BY <1>1 DEF Sound
<1>3. PICK v : v = comp.version
  OBVIOUS
<1>4. v # 0
  BY <1>1, <1>3 DEF CompactionSound
<1>5. /\ v \in 1..Len(vs) /\ v # 0 /\ vs[v].refs # 0
      /\ rd \in [Readers -> 0..Len(vs)] /\ comp.version \in 0..Len(vs)
  <2>1. comp.version # 0 => comp.version \in 1..Len(vs) /\ vs[comp.version].refs # 0
    BY ONLY <1>1, <1>2, UsedKept
  <2> QED
    BY <1>1, <1>3, <1>4, <2>1 DEF UsesSound
<1>6. PICK c : c = VE!NoCompaction
  OBVIOUS
<1>7. c = [version |-> 0, level |-> 0, in0 |-> {}, in1 |-> {}]
  BY <1>6 DEF VE!NoCompaction
<1>8. c.version = 0 /\ c.version \in 0..Len(vs)
  BY <1>2, <1>7
<1>9. OneUserMore(cur, rd, c, rd, comp, v, Len(vs))
  <2> SUFFICES ASSUME NEW w \in 1..Len(vs)
               PROVE  UsersOf(cur, rd, comp, w) = IF w = v THEN UsersOf(cur, rd, c, w) + 1 ELSE UsersOf(cur, rd, c, w)
    BY DEF OneUserMore
  <2>1. PICK n : n = Cardinality({q \in Readers : rd[q] = w}) /\ n \in Nat
    BY ReadersCount
  <2>2. w # 0
    BY <1>2
  <2> QED
    BY <1>3, <1>8, <2>1, <2>2 DEF UsersOf
<1>10. PICK t : t = VE!Unref([meta |-> m, versions |-> vs], v)
  OBVIOUS
<1>11. /\ Sound(t.meta, t.versions)
       /\ Replaced(vs, v, IF vs[v].refs = 1 THEN Gone ELSE [vs[v] EXCEPT !.refs = @ - 1], t.versions)
  BY <1>1, <1>5, <1>10, UnrefIs
<1>12. UsesSound(t.versions, cur, rd, c, 0)
  <2>1. LosesUser(vs, v, t.versions)
    BY <1>11 DEF LosesUser
  <2> QED
    BY <1>1, <1>2, <1>5, <1>8, <1>9, <2>1, FewerUsers
<1>13. CompactionSound(t.versions, cur, c, 0)
  BY <1>7 DEF CompactionSound
<1> QED
  BY <1>3, <1>6, <1>10, <1>11, <1>12, <1>13 DEF VersionsSound

\* Charging a file of a version that has users.
LEMMA ChargeKeeps ==
    ASSUME NEW m, NEW vs, NEW cur, NEW rd, NEW comp, NEW nx, VersionsSound(m, vs, cur, rd, comp, nx),
           NEW v \in 1..Len(vs), NEW level \in 0..(VersionLevels - 2), NEW f \in vs[v].files[level]
    PROVE  LET t == VE!Charge([meta |-> m, versions |-> vs], v, f, level)
           IN  VersionsSound(t.meta, t.versions, cur, rd, comp, nx)
<1>1. Sound(m, vs) /\ UsesSound(vs, cur, rd, comp, nx) /\ CompactionSound(vs, cur, comp, nx)
  BY DEF VersionsSound
<1>2. PICK t : t = VE!Charge([meta |-> m, versions |-> vs], v, f, level)
  OBVIOUS
<1>3. PICK x : /\ Replaced(vs, v, x, t.versions)
               /\ x.files = vs[v].files /\ x.refs = vs[v].refs /\ x.freed = vs[v].freed
               /\ Sound(t.meta, t.versions)
  BY <1>1, <1>2, ChargeIs
<1>4. /\ Len(t.versions) = Len(vs)
      /\ \A w \in 1..Len(vs) : /\ t.versions[w].files = vs[w].files /\ t.versions[w].refs = vs[w].refs
                               /\ t.versions[w].freed = vs[w].freed
  BY <1>3 DEF Replaced
<1>5. cur \in 1..Len(vs) /\ (nx # 0 => nx \in 1..Len(vs))
  <2>1. Len(vs) \in Nat
    BY <1>1 DEF Sound
  <2> QED
    BY <1>1, <2>1 DEF UsesSound
<1>6. UsesSound(t.versions, cur, rd, comp, nx)
  BY <1>1, <1>4, <1>5 DEF UsesSound
<1>7. CompactionSound(t.versions, cur, comp, nx)
  BY <1>1, <1>4, <1>5, SameInputs
<1> QED
  BY <1>2, <1>3, <1>6, <1>7 DEF VersionsSound

\* AppendVersion: the version that was built becomes the current one.
LEMMA InstallKeeps ==
    ASSUME NEW m, NEW vs, NEW cur, NEW rd, NEW comp, NEW nx, VersionsSound(m, vs, cur, rd, comp, nx), nx # 0
    PROVE  LET t == VE!Ref(VE!Unref([meta |-> m, versions |-> vs], cur), nx)
           IN  VersionsSound(t.meta, t.versions, nx, rd, comp, 0)
<1>1. Sound(m, vs) /\ UsesSound(vs, cur, rd, comp, nx) /\ CompactionSound(vs, cur, comp, nx)
  BY DEF VersionsSound
<1>2. vs \in Seq(VersionRecords) /\ Len(vs) \in Nat
  BY <1>1 DEF Sound
<1>3. /\ cur \in 1..Len(vs) /\ nx \in 1..Len(vs) /\ cur # nx /\ vs[cur].refs # 0 /\ vs[nx].refs = 0 /\ ~vs[nx].freed
      /\ \A w \in 1..Len(vs) : vs[w].refs \in Nat /\ vs[w].freed \in BOOLEAN
  <2>1. vs[cur].refs # 0 /\ \A w \in 1..Len(vs) : vs[w].refs \in Nat /\ vs[w].freed \in BOOLEAN
    BY ONLY <1>1, <1>2, UsedKept
  <2> QED
    BY <1>1, <1>2, <2>1 DEF UsesSound
<1>4. PICK s : s = VE!Unref([meta |-> m, versions |-> vs], cur)
  OBVIOUS
<1>5. PICK n, us : s = [meta |-> n, versions |-> us] /\ Sound(n, us) /\ LosesUser(vs, cur, us)
  BY <1>1, <1>3, <1>4, UnrefIs DEF LosesUser
<1>6. PICK t : t = VE!Ref(s, nx)
  OBVIOUS
<1>7. PICK ws : ws = t.versions
  OBVIOUS
<1>8. Len(us) = Len(vs) /\ (\A w \in 1..Len(vs) : w # cur => us[w] = vs[w]) /\ us \in Seq(VersionRecords)
  BY <1>5 DEF LosesUser, Replaced
<1>9. t.meta = n /\ Replaced(us, nx, [us[nx] EXCEPT !.refs = @ + 1], ws) /\ Sound(n, ws)
  BY <1>3, <1>5, <1>6, <1>7, <1>8, RefIs
<1>10. Len(ws) = Len(vs) /\ \A w \in 1..Len(vs) : w # nx => ws[w] = us[w]
  BY <1>8, <1>9 DEF Replaced
<1>11. ws[nx].refs = 1 /\ ~ws[nx].freed /\ ws[nx].files = vs[nx].files
  <2>1. PICK x : x = vs[nx]
    OBVIOUS
  <2>2. x \in VersionRecords /\ x.refs = 0 /\ ~x.freed
    BY <1>2, <1>3, <2>1
  <2>3. ws[nx] = [x EXCEPT !.refs = @ + 1]
    BY <1>3, <1>8, <1>9, <2>1 DEF Replaced
  <2>4. ws[nx].refs = x.refs + 1 /\ ws[nx].freed = x.freed /\ ws[nx].files = x.files
    BY <2>2, <2>3 DEF VersionRecords
  <2> QED
    BY <2>1, <2>2, <2>4
<1>12. ws[cur].refs = vs[cur].refs - 1 /\ (ws[cur].freed <=> vs[cur].refs = 1)
  <2>1. ws[cur] = us[cur]
    BY <1>3, <1>10
  <2>2. PICK x : x = vs[cur]
    OBVIOUS
  <2>3. x \in VersionRecords /\ x.refs # 0 /\ ~x.freed /\ x.refs \in Nat
    BY <1>1, <1>2, <1>3, <2>2 DEF UsesSound
  <2>4. CASE x.refs = 1
    BY <1>5, <2>1, <2>2, <2>4, GoneIs DEF LosesUser, Replaced
  <2>5. CASE x.refs # 1
    <3>1. us[cur] = [x EXCEPT !.refs = @ - 1]
      BY <1>5, <2>2, <2>5 DEF LosesUser, Replaced
    <3>2. us[cur].refs = x.refs - 1 /\ us[cur].freed = x.freed
      BY <2>3, <3>1 DEF VersionRecords
    <3> QED
      BY <2>1, <2>2, <2>3, <2>5, <3>2
  <2> QED
    BY <2>4, <2>5
<1>13. ASSUME NEW w \in 1..Len(vs)
       PROVE  ws[w].refs = UsersOf(nx, rd, comp, w) /\ (ws[w].freed <=> ws[w].refs = 0)
  <2>1. vs[w].refs = UsersOf(cur, rd, comp, w) /\ (vs[w].freed <=> vs[w].refs = 0 /\ w # nx)
    BY <1>1 DEF UsesSound
  <2>2. PICK k, j : /\ k = Cardinality({q \in Readers : rd[q] = w}) /\ k \in Nat
                    /\ j = (IF comp.version = w THEN 1 ELSE 0)
    BY ReadersCount
  <2>3. j \in Nat
    BY <2>2
  <2>4. UsersOf(cur, rd, comp, w) = k + (IF cur = w THEN 1 ELSE 0) + j
    BY <2>2 DEF UsersOf
  <2>5. UsersOf(nx, rd, comp, w) = k + (IF nx = w THEN 1 ELSE 0) + j
    BY <2>2 DEF UsersOf
  <2>6. CASE w = nx
    BY <1>3, <1>11, <2>1, <2>2, <2>3, <2>4, <2>5, <2>6
  <2>7. CASE w = cur
    <3>1. vs[w].refs = k + 1 + j /\ UsersOf(nx, rd, comp, w) = k + j
      BY <1>3, <2>1, <2>2, <2>3, <2>4, <2>5, <2>7
    <3>2. ws[w].refs = k + j /\ (vs[w].refs = 1 <=> ws[w].refs = 0)
      BY <1>12, <2>2, <2>3, <2>7, <3>1
    <3> QED
      BY <1>12, <2>7, <3>1, <3>2
  <2>8. CASE w # cur /\ w # nx
    <3>1. ws[w] = vs[w]
      BY <1>8, <1>10, <2>8
    <3> QED
      BY <2>1, <2>2, <2>3, <2>4, <2>5, <2>8, <3>1
  <2> QED
    BY <2>6, <2>7, <2>8
<1>14. UsesSound(ws, nx, rd, comp, 0)
  <2>1. \A w \in 1..Len(vs) : w # 0
    BY <1>2
  <2>2. rd \in [Readers -> 0..Len(vs)] /\ comp.version \in 0..Len(vs)
    BY <1>1 DEF UsesSound
  <2> QED
    BY <1>2, <1>3, <1>10, <1>13, <2>1, <2>2 DEF UsesSound
<1>15. CompactionSound(ws, nx, comp, 0)
  BY <1>1, <1>11 DEF CompactionSound, InputsIn
<1> QED
  BY <1>4, <1>6, <1>7, <1>9, <1>14, <1>15 DEF VersionsSound

\* The version that was built is deleted again.
LEMMA InstallFailsKeeps ==
    ASSUME NEW m, NEW vs, NEW cur, NEW rd, NEW comp, NEW nx, VersionsSound(m, vs, cur, rd, comp, nx), nx # 0
    PROVE  LET t == VE!Delete([meta |-> m, versions |-> vs], nx)
           IN  VersionsSound(t.meta, t.versions, cur, rd, comp, 0)
<1>1. Sound(m, vs) /\ UsesSound(vs, cur, rd, comp, nx) /\ CompactionSound(vs, cur, comp, nx)
  BY DEF VersionsSound
<1>2. vs \in Seq(VersionRecords) /\ Len(vs) \in Nat
  BY <1>1 DEF Sound
<1>3. cur \in 1..Len(vs) /\ nx \in 1..Len(vs) /\ cur # nx /\ vs[nx].refs = 0
  BY <1>1, <1>2 DEF UsesSound
<1>4. PICK t : t = VE!Delete([meta |-> m, versions |-> vs], nx)
  OBVIOUS
<1>5. PICK ws : ws = t.versions
  OBVIOUS
<1>6. Sound(t.meta, ws) /\ Replaced(vs, nx, Gone, ws)
  BY <1>1, <1>3, <1>4, <1>5, DeleteIs
<1>7. Len(ws) = Len(vs) /\ ws[nx].refs = 0 /\ ws[nx].freed /\ \A w \in 1..Len(vs) : w # nx => ws[w] = vs[w]
  BY <1>6, GoneIs DEF Replaced
<1>8. ASSUME NEW w \in 1..Len(vs)
      PROVE  ws[w].refs = UsersOf(cur, rd, comp, w) /\ (ws[w].freed <=> ws[w].refs = 0)
  <2>1. vs[w].refs = UsersOf(cur, rd, comp, w) /\ (vs[w].freed <=> vs[w].refs = 0 /\ w # nx)
    BY <1>1 DEF UsesSound
  <2> QED
    BY <1>3, <1>7, <2>1
<1>9. UsesSound(ws, cur, rd, comp, 0)
  <2>1. \A w \in 1..Len(vs) : w # 0
    BY <1>2
  <2>2. rd \in [Readers -> 0..Len(vs)] /\ comp.version \in 0..Len(vs)
    BY <1>1 DEF UsesSound
  <2> QED
    BY <1>2, <1>3, <1>7, <1>8, <2>1, <2>2 DEF UsesSound
<1>10. CompactionSound(ws, cur, comp, 0)
  BY <1>1, <1>3, <1>7 DEF CompactionSound, InputsIn
<1> QED
  BY <1>4, <1>5, <1>6, <1>9, <1>10 DEF VersionsSound

\* A version more, that nobody uses yet.
OneVersionMore(vs, ws) ==
    LET c == Len(vs) + 1
    IN  /\ Len(ws) = c /\ \A v \in 1..Len(vs) : ws[v] = vs[v]
        /\ ws[c].refs = 0 /\ ~ws[c].freed

\* A compaction goes on where it was, or is done.
CompactionGoesOn(comp, comp2, x) ==
    /\ comp2 \in [version : Nat, level : Int, in0 : SUBSET Nat, in1 : SUBSET Nat]
    /\ comp2.version = comp.version
    /\ comp2.level = -1 => comp2.version # 0
    /\ comp2.version # 0 /\ comp2.level >= 0 => comp2 = comp /\ InputsIn(comp, x)

\* LogAndApply has built a version.
LEMMA BuildKeeps ==
    ASSUME NEW m, NEW vs, NEW cur, NEW rd, NEW comp, VersionsSound(m, vs, cur, rd, comp, 0),
           NEW n, NEW ws, Sound(n, ws), OneVersionMore(vs, ws),
           NEW comp2, CompactionGoesOn(comp, comp2, ws[Len(vs) + 1])
    PROVE  VersionsSound(n, ws, cur, rd, comp2, Len(vs) + 1)
<1>1. Sound(m, vs) /\ UsesSound(vs, cur, rd, comp, 0) /\ CompactionSound(vs, cur, comp, 0)
  BY DEF VersionsSound
<1>2. vs \in Seq(VersionRecords) /\ Len(vs) \in Nat
  BY <1>1 DEF Sound
<1>3. cur \in 1..Len(vs) /\ rd \in [Readers -> 0..Len(vs)] /\ comp.version \in 0..Len(vs) /\ comp2.version = comp.version
  BY <1>1 DEF UsesSound, CompactionGoesOn
<1>4. PICK c : c = Len(vs) + 1
  OBVIOUS
<1>5. /\ Len(ws) = c /\ (\A v \in 1..Len(vs) : ws[v] = vs[v]) /\ ws[c].refs = 0 /\ ~ws[c].freed
      /\ c \notin 0..Len(vs) /\ c \in Nat
  BY <1>2, <1>4 DEF OneVersionMore
<1>6. UsersOf(cur, rd, comp2, c) = 0
  <2>1. {q \in Readers : rd[q] = c} = {}
    BY <1>3, <1>5
  <2>2. Cardinality({q \in Readers : rd[q] = c}) = 0
    BY <2>1, FS_EmptySet
  <2>3. cur # c /\ comp2.version # c
    BY <1>2, <1>3, <1>5
  <2> QED
    BY <2>2, <2>3 DEF UsersOf
<1>7. ASSUME NEW w \in 1..Len(ws)
      PROVE  ws[w].refs = UsersOf(cur, rd, comp2, w) /\ (ws[w].freed <=> ws[w].refs = 0 /\ w # c)
  <2>1. CASE w = c
    BY <1>5, <1>6, <2>1
  <2>2. CASE w # c
    <3>1. w \in 1..Len(vs)
      BY <1>2, <1>4, <1>5, <2>2
    <3>2. vs[w].refs = UsersOf(cur, rd, comp, w) /\ (vs[w].freed <=> vs[w].refs = 0)
      BY <1>1, <1>2, <3>1 DEF UsesSound
    <3>3. UsersOf(cur, rd, comp2, w) = UsersOf(cur, rd, comp, w)
      BY <1>3 DEF UsersOf
    <3> QED
      BY <1>5, <2>2, <3>1, <3>2, <3>3
  <2> QED
    BY <2>1, <2>2
<1>8. UsesSound(ws, cur, rd, comp2, c)
  <2>1. /\ cur \in 1..Len(ws) /\ rd \in [Readers -> 0..Len(ws)] /\ comp2.version \in 0..Len(ws)
        /\ c \in 0..Len(ws) /\ c # cur /\ ws[c].refs = 0
    BY <1>2, <1>3, <1>4, <1>5
  <2> QED
    BY <1>7, <2>1 DEF UsesSound
<1>9. CompactionSound(ws, cur, comp2, c)
  <2>1. ws[cur] = vs[cur]
    BY <1>3, <1>5
  <2> QED
    BY <1>1, <1>4, <2>1 DEF CompactionSound, CompactionGoesOn, InputsIn
<1> QED
  BY <1>4, <1>8, <1>9 DEF VersionsSound

\* The inputs of a compaction, as PickCompaction chooses them.
Chosen(comp, cur, x) ==
    /\ comp \in [version : Nat, level : Int, in0 : SUBSET Nat, in1 : SUBSET Nat]
    /\ comp.version = cur /\ comp.level \in 0..(VersionLevels - 2) /\ comp.in0 # {}
    /\ InputsIn(comp, x)

\* A compaction takes the current version.
LEMMA PickKeeps ==
    ASSUME NEW m, NEW vs, NEW cur, NEW rd, NEW comp, VersionsSound(m, vs, cur, rd, comp, 0),
           comp.version = 0, NEW comp2, Chosen(comp2, cur, vs[cur])
    PROVE  LET t == VE!Ref([meta |-> m, versions |-> vs], cur)
           IN  VersionsSound(t.meta, t.versions, cur, rd, comp2, 0)
<1>1. Sound(m, vs) /\ UsesSound(vs, cur, rd, comp, 0) /\ CompactionSound(vs, cur, comp, 0)
  BY DEF VersionsSound
<1>2. vs \in Seq(VersionRecords) /\ Len(vs) \in Nat
  BY <1>1 DEF Sound
<1>3. /\ cur \in 1..Len(vs) /\ cur # 0 /\ ~vs[cur].freed
      /\ rd \in [Readers -> 0..Len(vs)] /\ comp2.version \in 0..Len(vs) /\ comp2.version = cur
  <2>1. ~vs[cur].freed
    BY ONLY <1>1, <1>2, UsedKept
  <2>2. comp2.version = cur
    BY DEF Chosen
  <2> QED
    BY <1>1, <1>2, <2>1, <2>2 DEF UsesSound
<1>4. OneUserMore(cur, rd, comp, rd, comp2, cur, Len(vs))
  <2> SUFFICES ASSUME NEW w \in 1..Len(vs)
               PROVE  UsersOf(cur, rd, comp2, w) = IF w = cur THEN UsersOf(cur, rd, comp, w) + 1 ELSE UsersOf(cur, rd, comp, w)
    BY DEF OneUserMore
  <2>1. PICK n : n = Cardinality({q \in Readers : rd[q] = w}) /\ n \in Nat
    BY ReadersCount
  <2>2. w # 0
    BY <1>2
  <2> QED
    BY <1>3, <2>1, <2>2 DEF UsersOf
<1>5. PICK t : t = VE!Ref([meta |-> m, versions |-> vs], cur)
  OBVIOUS
<1>6. PICK ws : ws = t.versions
  OBVIOUS
<1>7. /\ Sound(t.meta, ws)
      /\ Replaced(vs, cur, [vs[cur] EXCEPT !.refs = @ + 1], ws)
  BY <1>1, <1>3, <1>5, <1>6, RefIs
<1>8. UsesSound(ws, cur, rd, comp2, 0) /\ \A w \in 1..Len(vs) : ws[w].files = vs[w].files
  BY ONLY <1>1, <1>2, <1>3, <1>4, <1>7, MoreUsers
<1>9. CompactionSound(ws, cur, comp2, 0)
  <2>1. VersionLevels \in Nat
    BY PartsAssumption
  <2> QED
    BY <1>3, <1>8, <2>1 DEF CompactionSound, Chosen, InputsIn
<1> QED
  BY <1>5, <1>6, <1>7, <1>8, <1>9 DEF VersionsSound

\* A compaction could not write its outputs.
LEMMA FailureKeeps ==
    ASSUME NEW m, NEW vs, NEW cur, NEW rd, NEW comp, NEW nx, VersionsSound(m, vs, cur, rd, comp, nx),
           comp.version # 0
    PROVE  VersionsSound(m, vs, cur, rd, [comp EXCEPT !.level = -1], nx)
<1>1. Sound(m, vs) /\ UsesSound(vs, cur, rd, comp, nx) /\ CompactionSound(vs, cur, comp, nx)
  BY DEF VersionsSound
<1>2. PICK comp2 : comp2 = [comp EXCEPT !.level = -1]
  OBVIOUS
<1>3. /\ comp2 \in [version : Nat, level : Int, in0 : SUBSET Nat, in1 : SUBSET Nat]
      /\ comp2.version = comp.version /\ comp2.level = -1
  BY <1>1, <1>2 DEF CompactionSound
<1>4. \A w : UsersOf(cur, rd, comp2, w) = UsersOf(cur, rd, comp, w)
  BY <1>3 DEF UsersOf
<1>5. UsesSound(vs, cur, rd, comp2, nx)
  BY <1>1, <1>3, <1>4 DEF UsesSound
<1>6. CompactionSound(vs, cur, comp2, nx)
  BY <1>3 DEF CompactionSound
<1> QED
  BY <1>1, <1>2, <1>5, <1>6 DEF VersionsSound

\* What the variables are, and what they become.
VersionsAre(m, vs, cur, rd, comp, nx) ==
    meta = m /\ versions = vs /\ installed = cur /\ pinned = rd /\ compaction = comp /\ built = nx
VersionsBecome(m, vs, cur, rd, comp, nx) ==
    meta' = m /\ versions' = vs /\ installed' = cur /\ pinned' = rd /\ compaction' = comp /\ built' = nx

\* The invariant, of the state as it is.
LEMMA VersionsNow ==
    ASSUME VersionsInv
    PROVE  \E m, vs, cur, rd, comp, nx : VersionsAre(m, vs, cur, rd, comp, nx) /\ VersionsSound(m, vs, cur, rd, comp, nx)
BY DEF VersionsInv, VersionsSound, VersionsAre

\* The invariant, of the state to come.
LEMMA VersionsThen ==
    ASSUME NEW m, NEW vs, NEW cur, NEW rd, NEW comp, NEW nx, VersionsSound(m, vs, cur, rd, comp, nx),
           VersionsBecome(m, vs, cur, rd, comp, nx)
    PROVE  VersionsInv'
<1>1. Sound(m, vs) /\ UsesSound(vs, cur, rd, comp, nx) /\ CompactionSound(vs, cur, comp, nx)
  BY DEF VersionsSound
<1>2. Sound(meta, versions)'
  <2>1. meta' = m /\ versions' = vs
    BY DEF VersionsBecome
  <2>2. (\A v \in 1..Len(versions) : VersionSound(versions[v], Len(meta)))'
    BY <1>1, <2>1 DEF Sound, VersionSound
  <2>3. \A f : Owners(versions, f)' = Owners(vs, f)
    BY <2>1 DEF Owners, InFiles
  <2>4. FilesSound(meta, versions)'
    BY <1>1, <2>1, <2>3 DEF Sound, FilesSound
  <2>5. (meta \in Seq(FileRecords) /\ versions \in Seq(VersionRecords))'
    BY <1>1, <2>1 DEF Sound
  <2> QED
    BY <2>2, <2>4, <2>5 DEF Sound
<1>3. UsesSound(versions, installed, pinned, compaction, built)'
  BY <1>1 DEF VersionsBecome, UsesSound, UsersOf
<1>4. CompactionSound(versions, installed, compaction, built)'
  BY <1>1 DEF VersionsBecome, CompactionSound, InputsIn
<1> QED
  BY <1>2, <1>3, <1>4 DEF VersionsInv

\* Get, an iterator or GetApproximateSizes takes the current version.
LEMMA VersionsPin ==
    ASSUME VersionsInv, NEW r \in Readers, VE!Pin(r)
    PROVE  VersionsInv'
<1>1. PICK m, vs, cur, rd, comp, nx : VersionsAre(m, vs, cur, rd, comp, nx) /\ VersionsSound(m, vs, cur, rd, comp, nx)
  BY VersionsNow
<1>2. PICK t : t = VE!Ref([meta |-> m, versions |-> vs], cur)
  OBVIOUS
<1>3. rd[r] = 0 /\ VersionsBecome(t.meta, t.versions, cur, [rd EXCEPT ![r] = cur], comp, nx)
  BY <1>1, <1>2 DEF VE!Pin, VE!Becomes, VE!State, VersionsAre, VersionsBecome
<1>4. VersionsSound(t.meta, t.versions, cur, [rd EXCEPT ![r] = cur], comp, nx)
  BY <1>1, <1>2, <1>3, PinKeeps
<1> QED
  BY <1>3, <1>4, VersionsThen

\* It gives the version up.
LEMMA VersionsUnpin ==
    ASSUME VersionsInv, NEW r \in Readers, VE!Unpin(r)
    PROVE  VersionsInv'
<1>1. PICK m, vs, cur, rd, comp, nx : VersionsAre(m, vs, cur, rd, comp, nx) /\ VersionsSound(m, vs, cur, rd, comp, nx)
  BY VersionsNow
<1>2. PICK t : t = VE!Unref([meta |-> m, versions |-> vs], rd[r])
  OBVIOUS
<1>3. rd[r] # 0 /\ VersionsBecome(t.meta, t.versions, cur, [rd EXCEPT ![r] = 0], comp, nx)
  BY <1>1, <1>2 DEF VE!Unpin, VE!Becomes, VE!State, VersionsAre, VersionsBecome
<1>4. VersionsSound(t.meta, t.versions, cur, [rd EXCEPT ![r] = 0], comp, nx)
  BY <1>1, <1>2, <1>3, UnpinKeeps
<1> QED
  BY <1>3, <1>4, VersionsThen

\* The version LogAndApply has built becomes the current one.
LEMMA VersionsInstall ==
    ASSUME VersionsInv, VE!Install
    PROVE  VersionsInv'
<1>1. PICK m, vs, cur, rd, comp, nx : VersionsAre(m, vs, cur, rd, comp, nx) /\ VersionsSound(m, vs, cur, rd, comp, nx)
  BY VersionsNow
<1>2. PICK t : t = VE!Ref(VE!Unref([meta |-> m, versions |-> vs], cur), nx)
  OBVIOUS
<1>3. nx # 0 /\ VersionsBecome(t.meta, t.versions, nx, rd, comp, 0)
  BY <1>1, <1>2 DEF VE!Install, VE!Becomes, VE!State, VersionsAre, VersionsBecome
<1>4. VersionsSound(t.meta, t.versions, nx, rd, comp, 0)
  BY <1>1, <1>2, <1>3, InstallKeeps
<1> QED
  BY <1>3, <1>4, VersionsThen

\* Or it is deleted again.
LEMMA VersionsInstallFails ==
    ASSUME VersionsInv, VE!InstallFails
    PROVE  VersionsInv'
<1>1. PICK m, vs, cur, rd, comp, nx : VersionsAre(m, vs, cur, rd, comp, nx) /\ VersionsSound(m, vs, cur, rd, comp, nx)
  BY VersionsNow
<1>2. PICK t : t = VE!Delete([meta |-> m, versions |-> vs], nx)
  OBVIOUS
<1>3. nx # 0 /\ VersionsBecome(t.meta, t.versions, cur, rd, comp, 0)
  BY <1>1, <1>2 DEF VE!InstallFails, VE!Becomes, VE!State, VersionsAre, VersionsBecome
<1>4. VersionsSound(t.meta, t.versions, cur, rd, comp, 0)
  BY <1>1, <1>2, <1>3, InstallFailsKeeps
<1> QED
  BY <1>3, <1>4, VersionsThen

\* A compaction gives its version up.
LEMMA VersionsRelease ==
    ASSUME VersionsInv, VE!ReleaseInputs
    PROVE  VersionsInv'
<1>1. PICK m, vs, cur, rd, comp, nx : VersionsAre(m, vs, cur, rd, comp, nx) /\ VersionsSound(m, vs, cur, rd, comp, nx)
  BY VersionsNow
<1>2. PICK t : t = VE!Unref([meta |-> m, versions |-> vs], comp.version)
  OBVIOUS
<1>3. nx = 0 /\ comp.level = -1 /\ VersionsBecome(t.meta, t.versions, cur, rd, VE!NoCompaction, 0)
  BY <1>1, <1>2 DEF VE!ReleaseInputs, VE!Becomes, VE!State, VersionsAre, VersionsBecome
<1>4. VersionsSound(t.meta, t.versions, cur, rd, VE!NoCompaction, 0)
  BY <1>1, <1>2, <1>3, ReleaseKeeps
<1>5. PICK c : c = VE!NoCompaction
  OBVIOUS
<1> QED
  BY <1>3, <1>4, <1>5, VersionsThen

\* A compaction fails.
LEMMA VersionsCompactFails ==
    ASSUME VersionsInv, VE!CompactFails
    PROVE  VersionsInv'
<1>1. PICK m, vs, cur, rd, comp, nx : VersionsAre(m, vs, cur, rd, comp, nx) /\ VersionsSound(m, vs, cur, rd, comp, nx)
  BY VersionsNow
<1>2. comp.version # 0 /\ VersionsBecome(m, vs, cur, rd, [comp EXCEPT !.level = -1], nx)
  BY <1>1 DEF VE!CompactFails, VersionsAre, VersionsBecome
<1>3. VersionsSound(m, vs, cur, rd, [comp EXCEPT !.level = -1], nx)
  BY <1>1, <1>2, FailureKeeps
<1> QED
  BY <1>2, <1>3, VersionsThen

\* Of at least two files that are looked at, the first has a level below it.
LEMMA SeveralLooked ==
    ASSUME Sound(meta, versions), NEW v \in 1..Len(versions), NEW k, NEW n, n \in Int, n >= 2,
           n <= VE!Cardinality(VE!Looked(v, k))
    PROVE  LET x == VE!LookedFirst(v, k)
           IN  x.level \in 0..(VersionLevels - 2) /\ x.file \in versions[v].files[x.level]
<1>1. PICK L : L = VE!Looked(v, k)
  OBVIOUS
<1>2. n <= Cardinality(L)
  BY <1>1, CountsAgree
<1>3. L # {}
  BY <1>2, FS_EmptySet
<1>4. \A x : Cardinality({x}) = 1
  BY FS_Singleton
<1>5. ASSUME NEW x, L = {x}
      PROVE  FALSE
  <2>1. Cardinality(L) = 1
    BY <1>4, <1>5
  <2> QED
    BY <1>2, <2>1
<1> QED
  BY <1>1, <1>3, <1>5, FirstLooked

\* Charging a file leaves a state of files and versions.
LEMMA ChargedState ==
    ASSUME NEW m, NEW vs, NEW cur, NEW rd, NEW comp, NEW nx, VersionsSound(m, vs, cur, rd, comp, nx),
           NEW v \in 1..Len(vs), NEW level \in 0..(VersionLevels - 2), NEW f \in vs[v].files[level]
    PROVE  \E n, us : /\ VE!Charge([meta |-> m, versions |-> vs], v, f, level) = [meta |-> n, versions |-> us]
                      /\ VersionsSound(n, us, cur, rd, comp, nx)
<1>1. Sound(m, vs)
  BY DEF VersionsSound
<1>2. PICK t : t = VE!Charge([meta |-> m, versions |-> vs], v, f, level)
  OBVIOUS
<1>3. VersionsSound(t.meta, t.versions, cur, rd, comp, nx)
  BY <1>2, ChargeKeeps
<1>4. t = [meta |-> t.meta, versions |-> t.versions]
  BY <1>1, <1>2, ChargeIs
<1> QED
  BY <1>2, <1>3, <1>4

\* RecordReadSample charges a file of the current version.
LEMMA VersionsReadSample ==
    ASSUME VersionsInv, NEW k \in VE!Keys, VE!ReadSample(k)
    PROVE  VersionsInv'
<1>1. PICK m, vs, cur, rd, comp, nx : VersionsAre(m, vs, cur, rd, comp, nx) /\ VersionsSound(m, vs, cur, rd, comp, nx)
  BY VersionsNow
<1>2. PICK x : x = VE!LookedFirst(installed, k)
  OBVIOUS
<1>3. Sound(meta, versions) /\ installed \in 1..Len(versions)
  BY DEF VersionsInv, UsesSound
<1>4. x.level \in 0..(VersionLevels - 2) /\ x.file \in versions[installed].files[x.level]
  <2>1. 2 <= VE!Cardinality(VE!Looked(installed, k))
    <3>1. VE!Cardinality(VE!Looked(installed, k)) >= 2
      BY Zenon DEF VE!ReadSample
    <3> QED
      BY <3>1
  <2> QED
    BY <1>2, <1>3, <2>1, SeveralLooked
<1>5. PICK level, f : level = x.level /\ f = x.file
  OBVIOUS
<1>6. cur \in 1..Len(vs) /\ level \in 0..(VersionLevels - 2) /\ f \in vs[cur].files[level]
  BY <1>1, <1>3, <1>4, <1>5 DEF VersionsAre
<1>7. PICK n, us : /\ VE!Charge([meta |-> m, versions |-> vs], cur, f, level) = [meta |-> n, versions |-> us]
                   /\ VersionsSound(n, us, cur, rd, comp, nx)
  BY <1>1, <1>6, ChargedState, SMTT(30)
<1>8. VersionsBecome(n, us, cur, rd, comp, nx)
  <2>1. VE!Becomes(VE!Charge(VE!State, installed, f, level)) /\ UNCHANGED <<installed, pinned, compaction, built>>
    BY <1>2, <1>5, Zenon DEF VE!ReadSample
  <2>2. VE!Charge(VE!State, installed, f, level) = [meta |-> n, versions |-> us]
    BY <1>1, <1>7 DEF VE!State, VersionsAre
  <2> QED
    BY <1>1, <2>1, <2>2 DEF VE!Becomes, VersionsBecome, VersionsAre
<1> QED
  BY <1>7, <1>8, VersionsThen

\* The end of a Get charges a file of the version it had, or none, and gives the version up.
LEMMA VersionsGetEnds ==
    ASSUME VersionsInv, NEW r \in Readers, NEW k \in VE!Keys, VE!GetEnds(r, k)
    PROVE  VersionsInv'
<1>1. PICK m, vs, cur, rd, comp, nx : VersionsAre(m, vs, cur, rd, comp, nx) /\ VersionsSound(m, vs, cur, rd, comp, nx)
  BY VersionsNow
<1>2. PICK v : v = pinned[r]
  OBVIOUS
<1>3. PICK x : x = VE!LookedFirst(v, k)
  OBVIOUS
<1>4. PICK looked : /\ looked \in 0..VE!Cardinality(VE!Looked(v, k))
                    /\ VE!Becomes(VE!Unref(IF looked < 2 THEN VE!State ELSE VE!Charge(VE!State, v, x.file, x.level), v))
  <2>1. \E looked \in 0..VE!Cardinality(VE!Looked(v, k)) :
           VE!Becomes(VE!Unref(IF looked < 2 THEN VE!State ELSE VE!Charge(VE!State, v, x.file, x.level), v))
    BY <1>2, <1>3, Zenon DEF VE!GetEnds
  <2> QED
    BY <2>1
<1>5. /\ pinned[r] # 0 /\ pinned' = [pinned EXCEPT ![r] = 0]
      /\ UNCHANGED <<installed, compaction, built>>
  BY DEF VE!GetEnds
<1>6. rd[r] = v /\ rd[r] # 0 /\ v \in 1..Len(vs)
  <2>1. rd \in [Readers -> 0..Len(vs)] /\ Len(vs) \in Nat
    BY <1>1 DEF VersionsSound, UsesSound, Sound
  <2> QED
    BY <1>1, <1>2, <1>5, <2>1 DEF VersionsAre
<1>7. PICK n, us : /\ (IF looked < 2 THEN VE!State ELSE VE!Charge(VE!State, v, x.file, x.level)) = [meta |-> n, versions |-> us]
                   /\ VersionsSound(n, us, cur, rd, comp, nx)
  <2>1. VE!State = [meta |-> m, versions |-> vs]
    BY <1>1 DEF VE!State, VersionsAre
  <2>2. CASE looked < 2
    BY <1>1, <2>1, <2>2
  <2>3. CASE ~(looked < 2)
    <3>1. looked \in Int /\ looked >= 2 /\ looked <= VE!Cardinality(VE!Looked(v, k))
      BY <1>4, <2>3
    <3>2. Sound(meta, versions) /\ v \in 1..Len(versions)
      BY <1>1, <1>6 DEF VersionsInv, VersionsAre
    <3>3. x.level \in 0..(VersionLevels - 2) /\ x.file \in versions[v].files[x.level]
      BY <1>3, <3>1, <3>2, SeveralLooked
    <3>4. PICK level, f : level = x.level /\ f = x.file
      OBVIOUS
    <3>5. level \in 0..(VersionLevels - 2) /\ f \in vs[v].files[level]
      BY <1>1, <3>3, <3>4 DEF VersionsAre
    <3>6. \E n, us : /\ VE!Charge([meta |-> m, versions |-> vs], v, f, level) = [meta |-> n, versions |-> us]
                     /\ VersionsSound(n, us, cur, rd, comp, nx)
      BY <1>1, <1>6, <3>5, ChargedState
    <3> QED
      BY <2>1, <2>3, <3>4, <3>6
  <2> QED
    BY <2>2, <2>3
<1>8. PICK t : t = VE!Unref([meta |-> n, versions |-> us], rd[r])
  OBVIOUS
<1>9. VersionsBecome(t.meta, t.versions, cur, [rd EXCEPT ![r] = 0], comp, nx)
  <2>1. VE!Becomes(t)
    BY <1>4, <1>6, <1>7, <1>8
  <2> QED
    BY <1>1, <1>5, <2>1 DEF VE!Becomes, VersionsAre, VersionsBecome
<1>10. VersionsSound(t.meta, t.versions, cur, [rd EXCEPT ![r] = 0], comp, nx)
  BY <1>6, <1>7, <1>8, UnpinKeeps
<1> QED
  BY <1>9, <1>10, VersionsThen

\* A new file has a number.
LEMMA NewNumberNat ==
    ASSUME Sound(meta, versions)
    PROVE  VE!NewNumber \in Nat
<1> DEFINE A == {0} \cup {meta[f].number : f \in 1..Len(meta)}
<1>1. Len(meta) \in Nat /\ \A f \in 1..Len(meta) : meta[f].number \in Nat
  <2>1. Len(meta) \in Nat /\ \A f \in 1..Len(meta) : meta[f] \in FileRecords
    BY DEF Sound
  <2> QED
    BY <2>1 DEF FileRecords
<1>2. A \in SUBSET Nat /\ A # {}
  BY <1>1
<1>3. PICK b \in Nat : \A x \in A : x <= b
  <2> DEFINE g == [f \in 1..Len(meta) |-> meta[f].number]
  <2>1. \A f \in 1..Len(meta) : g[f] \in Nat
    BY <1>1
  <2>2. PICK b \in Nat : \A f \in 1..Len(meta) : g[f] <= b
    <3> HIDE DEF g
    <3>1. PICK n, h : n \in Nat /\ n = Len(meta) /\ h = g
      BY <1>1
    <3>2. \A f \in 1..n : h[f] \in Nat
      BY <2>1, <3>1
    <3> QED
      BY <3>1, <3>2, BoundOf
  <2>3. \A x \in A : x <= b
    BY <2>2
  <2> QED
    BY <2>3
<1>4. VE!NewNumber = Max(A) + 1
  BY DEF VE!NewNumber, VE!Max, Max
<1> HIDE DEF A
<1>5. PICK hi : hi = Max(A)
  OBVIOUS
<1>6. hi \in A
  BY <1>2, <1>3, <1>5, GreatestOf
<1> QED
  BY <1>2, <1>4, <1>5, <1>6

\* A file to be added.
LEMMA FileIs ==
    ASSUME NEW number \in Nat, NEW a \in Nat, NEW b \in Nat, a <= b
    PROVE  LET x == VE!File(number, a, b)
           IN  x \in FileRecords /\ x.smallest <= x.largest
<1>1. AllowedSeeks \in Int
  BY PartsAssumption
<1> QED
  BY <1>1 DEF VE!File, FileRecords

\* The files of a version that is built from the current one.
BuiltFiles(y, level, del) ==
    \A l \in Levels : y.files[l] = (versions[installed].files[l] \ del) \cup (IF l = level THEN {Len(meta) + 1} ELSE {})

\* LogAndApply, up to where it gives up the mutex.
LEMMA VersionsApply ==
    ASSUME VersionsInv, NEW level \in Levels, NEW x \in FileRecords, x.smallest <= x.largest, NEW del,
           VE!Apply(level, <<x>>, del), NEW comp2, compaction' = comp2,
           \A y : BuiltFiles(y, level, del) => CompactionGoesOn(compaction, comp2, y)
    PROVE  VersionsInv'
<1>1. PICK m, vs, cur, rd, comp, nx : VersionsAre(m, vs, cur, rd, comp, nx) /\ VersionsSound(m, vs, cur, rd, comp, nx)
  BY VersionsNow
<1>2. Sound(meta, versions) /\ installed \in 1..Len(versions) /\ Len(versions) \in Nat
  BY DEF VersionsInv, UsesSound, Sound
<1>3. PICK t : t = VE!Builder(level, <<x>>, del)
  OBVIOUS
<1>4. PICK c : c = Len(versions) + 1
  OBVIOUS
<1>5. /\ Len(t.versions) = c
      /\ \A v \in 1..Len(versions) : t.versions[v] = versions[v]
      /\ t.versions[c].refs = 0 /\ ~t.versions[c].freed
      /\ \A l \in Levels : t.versions[c].files[l] =
            (versions[installed].files[l] \ del) \cup (IF l = level THEN {Len(meta) + 1} ELSE {})
      /\ Sound(t.meta, t.versions)
  BY ONLY <1>2, <1>3, <1>4, level \in Levels, x \in FileRecords, x.smallest <= x.largest, BuilderIs
<1>6. PICK n, ws : n = t.meta /\ ws = t.versions
  OBVIOUS
<1>7. c = Len(vs) + 1 /\ OneVersionMore(vs, ws) /\ Sound(n, ws)
  BY <1>1, <1>4, <1>5, <1>6 DEF OneVersionMore, VersionsAre
<1>8. BuiltFiles(ws[c], level, del)
  BY <1>5, <1>6 DEF BuiltFiles
<1>9. CompactionGoesOn(comp, comp2, ws[c])
  BY <1>1, <1>8 DEF VersionsAre
<1>10. nx = 0 /\ VersionsBecome(n, ws, cur, rd, comp2, c)
  <2>1. /\ built = 0 /\ VE!Becomes(VE!Builder(level, <<x>>, del))
        /\ built' = Len(versions) + 1 /\ UNCHANGED <<installed, pinned>>
    BY DEF VE!Apply
  <2>2. meta' = t.meta /\ versions' = t.versions
    BY <1>3, <2>1 DEF VE!Becomes
  <2> QED
    BY <1>1, <1>4, <1>6, <2>1, <2>2 DEF VersionsAre, VersionsBecome
<1>11. VersionsSound(n, ws, cur, rd, comp2, c)
  BY <1>1, <1>7, <1>9, <1>10, BuildKeeps
<1> QED
  BY <1>10, <1>11, VersionsThen

\* A memtable becomes a file of level 0.
LEMMA VersionsFlush ==
    ASSUME VersionsInv, NEW a \in VE!Keys, NEW b \in VE!Keys, VE!Flush(a, b)
    PROVE  VersionsInv'
<1>1. VersionLevels \in Nat \ {0, 1} /\ VersionKeys \in Nat
  BY PartsAssumption
<1>2. 0 \in Levels /\ a \in Nat /\ b \in Nat /\ a <= b
  BY <1>1 DEF Levels, VE!Keys, VE!Flush
<1>3. PICK number : number = VE!NewNumber
  OBVIOUS
<1>4. number \in Nat
  BY <1>3, NewNumberNat DEF VersionsInv
<1>5. PICK x : x = VE!File(number, a, b)
  OBVIOUS
<1>6. x \in FileRecords /\ x.smallest <= x.largest
  BY <1>2, <1>4, <1>5, FileIs
<1>7. VE!Apply(0, <<x>>, {}) /\ compaction' = compaction
  BY <1>3, <1>5 DEF VE!Flush
<1>8. PICK comp2 : comp2 = compaction
  OBVIOUS
<1>9. ASSUME NEW y, BuiltFiles(y, 0, {})
      PROVE  CompactionGoesOn(compaction, comp2, y)
  <2>1. CompactionSound(versions, installed, compaction, built)
    BY DEF VersionsInv
  <2>2. \A l \in Levels : versions[installed].files[l] \subseteq y.files[l]
    BY <1>9 DEF BuiltFiles
  <2>3. compaction.version # 0 /\ compaction.level >= 0 => compaction.level \in Levels /\ compaction.level + 1 \in Levels
    BY <1>1, <2>1 DEF CompactionSound, Levels
  <2> QED
    BY <1>8, <2>1, <2>2, <2>3 DEF CompactionSound, CompactionGoesOn, InputsIn
<1>10. compaction' = comp2
  BY <1>7, <1>8
<1> QED
  BY <1>2, <1>6, <1>7, <1>9, <1>10, VersionsApply

\* The outputs of a compaction, or the file it moves, are in the version that is built.
LEMMA VersionsCompact ==
    ASSUME VersionsInv, NEW move \in BOOLEAN, VE!Compact(move)
    PROVE  VersionsInv'
<1>1. VersionLevels \in Nat \ {0, 1}
  BY PartsAssumption
<1>2. Sound(meta, versions) /\ CompactionSound(versions, installed, compaction, built) /\ installed \in 1..Len(versions)
  BY DEF VersionsInv, UsesSound
<1>3. PICK comp : comp = compaction
  OBVIOUS
<1>4. comp.version # 0 /\ comp.level >= 0 /\ compaction' = [comp EXCEPT !.level = -1]
  BY <1>3 DEF VE!Compact
<1>5. /\ comp \in [version : Nat, level : Int, in0 : SUBSET Nat, in1 : SUBSET Nat]
      /\ comp.level \in 0..(VersionLevels - 2) /\ comp.in0 # {}
      /\ comp.in0 \subseteq versions[installed].files[comp.level]
      /\ comp.in1 \subseteq versions[installed].files[comp.level + 1]
  BY <1>2, <1>3, <1>4 DEF CompactionSound, InputsIn
<1>6. comp.level \in Levels /\ comp.level + 1 \in Levels
  BY <1>1, <1>5 DEF Levels
<1>7. PICK in, f : in = comp.in0 \cup comp.in1 /\ f = CHOOSE g \in comp.in0 : TRUE
  OBVIOUS
<1>8. f \in comp.in0
  BY <1>5, <1>7
<1>9. in \in SUBSET (1..Len(meta)) /\ in # {} /\ f \in 1..Len(meta)
  <2>1. \A l \in Levels : versions[installed].files[l] \subseteq 1..Len(meta)
    BY <1>2 DEF Sound, VersionSound
  <2> QED
    BY <1>5, <1>6, <1>7, <1>8, <2>1
<1>10. PICK a, b : a = VE!First(in) /\ b = VE!Final(in)
  OBVIOUS
<1>11. a \in Nat /\ b \in Nat /\ a <= b
  BY <1>2, <1>9, <1>10, RangeSpans
<1>12. PICK number : number = IF move THEN meta[f].number ELSE VE!NewNumber
  OBVIOUS
<1>13. number \in Nat
  <2>1. VE!NewNumber \in Nat
    BY <1>2, NewNumberNat
  <2>2. meta[f] \in FileRecords
    BY <1>2, <1>9 DEF Sound
  <2>3. meta[f].number \in Nat
    BY <2>2 DEF FileRecords
  <2> QED
    BY <1>12, <2>1, <2>3
<1>14. PICK x : x = VE!File(number, a, b)
  OBVIOUS
<1>15. x \in FileRecords /\ x.smallest <= x.largest
  BY <1>11, <1>13, <1>14, FileIs
<1>16. PICK level : level = comp.level + 1
  OBVIOUS
<1>17. VE!Apply(level, <<x>>, in)
  BY <1>3, <1>7, <1>10, <1>12, <1>14, <1>16, Zenon DEF VE!Compact
<1>18. PICK comp2 : comp2 = [comp EXCEPT !.level = -1]
  OBVIOUS
<1>19. /\ comp2 \in [version : Nat, level : Int, in0 : SUBSET Nat, in1 : SUBSET Nat]
       /\ comp2.version = comp.version /\ comp2.level = -1
  BY <1>5, <1>18
<1>20. \A y : CompactionGoesOn(compaction, comp2, y)
  BY <1>3, <1>4, <1>19 DEF CompactionGoesOn
<1>21. level \in Levels /\ compaction' = comp2
  BY <1>4, <1>6, <1>16, <1>18
<1> QED
  BY <1>15, <1>17, <1>20, <1>21, VersionsApply

\* A compaction is picked.
LEMMA VersionsPick ==
    ASSUME VersionsInv, VE!PickCompaction
    PROVE  VersionsInv'
<1>1. PICK m, vs, cur, rd, comp, nx : VersionsAre(m, vs, cur, rd, comp, nx) /\ VersionsSound(m, vs, cur, rd, comp, nx)
  BY VersionsNow
<1>2. VersionLevels \in Nat \ {0, 1}
  BY PartsAssumption
<1>3. Sound(meta, versions) /\ installed \in 1..Len(versions) /\ Len(meta) \in Nat
  BY DEF VersionsInv, UsesSound, Sound
<1>4. PICK v : v = versions[installed]
  OBVIOUS
<1>5. VersionSound(v, Len(meta))
  BY <1>3, <1>4 DEF Sound
<1>6. PICK level : level = IF v.score THEN v.level ELSE v.toLevel
  OBVIOUS
<1>7. PICK f : /\ f \in (IF v.score THEN v.files[level] ELSE {v.toCompact})
               /\ compaction' =
                     LET in0 == IF level = 0 THEN VE!Closed({f}, v.files[0]) ELSE {f}
                         in1 == IF level + 1 \in VE!Levels THEN VE!Overlapping(v.files[level + 1], VE!First(in0), VE!Final(in0)) ELSE {}
                     IN  [version |-> installed, level |-> level, in0 |-> in0, in1 |-> in1]
  BY <1>4, <1>6, Zenon DEF VE!PickCompaction
<1>8. /\ v.score \/ v.toCompact # 0
      /\ compaction = VE!NoCompaction /\ built = 0
      /\ VE!Becomes(VE!Ref(VE!State, installed)) /\ UNCHANGED <<installed, pinned, built>>
  BY <1>4, Zenon DEF VE!PickCompaction
<1>9. level \in 0..(VersionLevels - 2) /\ f \in v.files[level]
  BY <1>5, <1>6, <1>7, <1>8 DEF VersionSound
<1>10. /\ level \in Levels /\ level + 1 \in Levels /\ level + 1 \in VE!Levels /\ level \in Int
       /\ \A l \in Levels : v.files[l] \subseteq 1..Len(meta)
  <2>1. level \in Levels /\ level + 1 \in Levels /\ level \in Int
    BY <1>2, <1>9 DEF Levels
  <2> QED
    BY <1>5, <2>1 DEF Levels, VE!Levels, VersionSound
<1>11. PICK in0 : in0 = IF level = 0 THEN VE!Closed({f}, v.files[0]) ELSE {f}
  OBVIOUS
<1>12. PICK in1 : in1 = VE!Overlapping(v.files[level + 1], VE!First(in0), VE!Final(in0))
  OBVIOUS
<1>13. in0 \subseteq v.files[level] /\ in0 # {}
  <2>1. CASE level = 0
    <3>1. PICK all : all = v.files[0]
      OBVIOUS
    <3>2. all \in SUBSET (1..Len(meta)) /\ f \in all
      BY <1>9, <1>10, <2>1, <3>1
    <3>3. VE!Closed({f}, all) \subseteq all /\ f \in VE!Closed({f}, all)
      BY <1>3, <3>2, ClosedIs
    <3> QED
      BY <1>11, <2>1, <3>1, <3>3
  <2>2. CASE level # 0
    BY <1>9, <1>11, <2>2
  <2> QED
    BY <2>1, <2>2
<1>14. in1 \subseteq v.files[level + 1]
  BY <1>12 DEF VE!Overlapping
<1>15. PICK comp2 : comp2 = [version |-> cur, level |-> level, in0 |-> in0, in1 |-> in1]
  OBVIOUS
<1>16. compaction' = comp2
  <2>1. installed = cur
    BY <1>1 DEF VersionsAre
  <2> QED
    BY <1>7, <1>10, <1>11, <1>12, <1>15, <2>1
<1>17. in0 \in SUBSET Nat /\ in1 \in SUBSET Nat /\ cur \in Nat
  <2>1. v.files[level] \subseteq Nat /\ v.files[level + 1] \subseteq Nat
    BY <1>3, <1>10
  <2>2. cur \in Nat
    BY <1>1, <1>3 DEF VersionsAre
  <2> QED
    BY <1>13, <1>14, <2>1, <2>2
<1>18. Chosen(comp2, cur, vs[cur])
  <2>1. v = vs[cur]
    BY <1>1, <1>4 DEF VersionsAre
  <2> QED
    BY <1>9, <1>10, <1>13, <1>14, <1>15, <1>17, <2>1 DEF Chosen, InputsIn
<1>19. nx = 0 /\ comp.version = 0
  BY <1>1, <1>8 DEF VersionsAre, VE!NoCompaction
<1>20. PICK t : t = VE!Ref([meta |-> m, versions |-> vs], cur)
  OBVIOUS
<1>21. VersionsBecome(t.meta, t.versions, cur, rd, comp2, 0)
  BY <1>1, <1>8, <1>16, <1>20 DEF VE!Becomes, VE!State, VersionsAre, VersionsBecome
<1>22. VersionsSound(t.meta, t.versions, cur, rd, comp2, 0)
  BY <1>1, <1>18, <1>19, <1>20, PickKeeps
<1> QED
  BY <1>21, <1>22, VersionsThen

\* The database is new: one version, without files, that is the current one.
LEMMA VersionsInit == VE!Init => VersionsInv
<1> SUFFICES ASSUME VE!Init
             PROVE  VersionsInv
  OBVIOUS
<1>1. VersionLevels \in Nat \ {0, 1}
  BY PartsAssumption
<1>2. VE!NoFiles \in [Levels -> SUBSET Nat] /\ \A l \in Levels : VE!NoFiles[l] = {}
  BY DEF VE!NoFiles, VE!Levels, Levels
<1>3. PICK fs : fs = VE!NoFiles
  OBVIOUS
<1>4. PICK y : y = VE!NewVersion(fs)
  OBVIOUS
<1>5. y = [files |-> fs, refs |-> 0, freed |-> FALSE, toCompact |-> 0, toLevel |-> -1, score |-> FALSE, level |-> -1]
  BY <1>2, <1>3, <1>4, NewVersionIs
<1>6. PICK x : x = [y EXCEPT !.refs = 1]
  OBVIOUS
<1>7. x = [files |-> fs, refs |-> 1, freed |-> FALSE, toCompact |-> 0, toLevel |-> -1, score |-> FALSE, level |-> -1]
  BY <1>5, <1>6
<1>8. x \in VersionRecords /\ x.files = fs /\ x.refs = 1 /\ ~x.freed /\ x.toCompact = 0 /\ ~x.score
  BY <1>2, <1>3, <1>7 DEF VersionRecords
<1>9. versions = <<x>> /\ meta = <<>> /\ installed = 1 /\ pinned = [r \in Readers |-> 0] /\ built = 0
  BY <1>3, <1>4, <1>6 DEF VE!Init
<1>10. compaction = [version |-> 0, level |-> 0, in0 |-> {}, in1 |-> {}]
  BY DEF VE!Init, VE!NoCompaction
<1>11. versions \in Seq(VersionRecords) /\ Len(versions) = 1 /\ versions[1] = x /\ meta \in Seq(FileRecords) /\ Len(meta) = 0
  BY <1>8, <1>9
<1>12. VersionSound(x, 0)
  BY <1>2, <1>3, <1>8 DEF VersionSound
<1>13. Sound(meta, versions)
  <2>1. \A v \in 1..Len(versions) : VersionSound(versions[v], Len(meta))
    BY <1>11, <1>12
  <2>2. FilesSound(meta, versions)
    BY <1>11 DEF FilesSound
  <2> QED
    BY <1>11, <2>1, <2>2 DEF Sound
<1>14. UsersOf(installed, pinned, compaction, 1) = 1
  <2>1. {r \in Readers : pinned[r] = 1} = {}
    BY <1>9
  <2>2. Cardinality({r \in Readers : pinned[r] = 1}) = 0
    BY <2>1, FS_EmptySet
  <2> QED
    BY <1>9, <1>10, <2>2 DEF UsersOf
<1>15. UsesSound(versions, installed, pinned, compaction, built)
  <2>1. /\ installed \in 1..Len(versions) /\ pinned \in [Readers -> 0..Len(versions)]
        /\ compaction.version \in 0..Len(versions) /\ built \in 0..Len(versions) /\ built # installed /\ built = 0
    BY <1>9, <1>10, <1>11
  <2>2. \A v \in 1..Len(versions) : /\ versions[v].refs = UsersOf(installed, pinned, compaction, v)
                                    /\ versions[v].freed <=> versions[v].refs = 0 /\ v # built
    BY <1>8, <1>11, <1>14
  <2> QED
    BY <2>1, <2>2 DEF UsesSound
<1>16. CompactionSound(versions, installed, compaction, built)
  BY <1>10 DEF CompactionSound
<1> QED
  BY <1>13, <1>15, <1>16 DEF VersionsInv

\* Every step keeps the invariant.
LEMMA VersionsStep == VersionsInv /\ [VE!Next]_VE!vars => VersionsInv'
<1> SUFFICES ASSUME VersionsInv, [VE!Next]_VE!vars
             PROVE  VersionsInv'
  OBVIOUS
<1>1. CASE \E r \in Readers : VE!Pin(r)
  BY <1>1, VersionsPin
<1>2. CASE \E r \in Readers : VE!Unpin(r)
  BY <1>2, VersionsUnpin
<1>3. CASE \E r \in Readers : \E k \in VE!Keys : VE!GetEnds(r, k)
  BY <1>3, VersionsGetEnds
<1>4. CASE \E k \in VE!Keys : VE!ReadSample(k)
  BY <1>4, VersionsReadSample
<1>5. CASE \E a, b \in VE!Keys : VE!Flush(a, b)
  BY <1>5, VersionsFlush
<1>6. CASE VE!Install
  BY <1>6, VersionsInstall
<1>7. CASE VE!InstallFails
  BY <1>7, VersionsInstallFails
<1>8. CASE VE!PickCompaction
  BY <1>8, VersionsPick
<1>9. CASE \E move \in BOOLEAN : VE!Compact(move)
  BY <1>9, VersionsCompact
<1>10. CASE VE!CompactFails
  BY <1>10, VersionsCompactFails
<1>11. CASE VE!ReleaseInputs
  BY <1>11, VersionsRelease
<1>12. CASE UNCHANGED VE!vars
  <2>1. PICK m, vs, cur, rd, comp, nx : VersionsAre(m, vs, cur, rd, comp, nx) /\ VersionsSound(m, vs, cur, rd, comp, nx)
    BY VersionsNow
  <2>2. VersionsBecome(m, vs, cur, rd, comp, nx)
    BY <1>12, <2>1 DEF VE!vars, VersionsAre, VersionsBecome
  <2> QED
    BY <2>1, <2>2, VersionsThen
<1> QED
  BY <1>1, <1>2, <1>3, <1>4, <1>5, <1>6, <1>7, <1>8, <1>9, <1>10, <1>11, <1>12 DEF VE!Next

\* References are what the users are, and a file is freed when no version has it.
LEMMA VersionsOwned == VersionsInv => VE!VersionsOwnFiles
<1> SUFFICES ASSUME VersionsInv
             PROVE  VE!VersionsOwnFiles
  OBVIOUS
<1>1. Sound(meta, versions) /\ UsesSound(versions, installed, pinned, compaction, built)
  BY DEF VersionsInv
<1>2. \A v : VE!Users(v) = UsersOf(installed, pinned, compaction, v)
  BY CountsAgree DEF VE!Users, UsersOf
<1>3. /\ \A v \in 1..Len(versions) : /\ versions[v].refs = VE!Users(v)
                                     /\ versions[v].freed <=> VE!Users(v) = 0 /\ v # built
  BY <1>1, <1>2 DEF UsesSound
<1>4. \A v \in 1..Len(versions) : \A f : f \in VE!AllFiles(versions[v]) <=> InFiles(versions[v], f)
  BY DEF VE!AllFiles, InFiles, VE!Levels, Levels
<1>5. \A v \in 1..Len(versions) : /\ versions[v].freed => \A f : ~InFiles(versions[v], f)
                                  /\ \A f : InFiles(versions[v], f) => f \in 1..Len(meta)
  BY <1>1 DEF Sound, VersionSound, InFiles
<1>6. \A f \in 1..Len(meta) : meta[f].freed <=> \A v \in 1..Len(versions) : ~InFiles(versions[v], f)
  BY <1>1 DEF Sound, FilesSound, Owners
<1>7. \A v \in 1..Len(versions) : \A f \in VE!AllFiles(versions[v]) : ~meta[f].freed
  BY <1>4, <1>5, <1>6
<1>8. \A f \in 1..Len(meta) :
         meta[f].freed <=> \A v \in 1..Len(versions) : versions[v].freed \/ f \notin VE!AllFiles(versions[v])
  BY <1>4, <1>5, <1>6
<1> QED
  BY <1>3, <1>7, <1>8 DEF VE!VersionsOwnFiles

\* Offsets are numbers, and grow with the key.
LEMMA OffsetsGrow ==
    ASSUME Sound(meta, versions), NEW v, NEW j \in Nat, NEW k \in Nat, j <= k
    PROVE  /\ VE!ApproximateOffsetOf(v, j) \in Nat /\ VE!ApproximateOffsetOf(v, k) \in Nat
           /\ VE!ApproximateOffsetOf(v, j) <= VE!ApproximateOffsetOf(v, k)
<1> DEFINE Before(f, i) == IF meta[f].largest < i THEN VE!Size(meta[f])
                           ELSE IF meta[f].smallest > i THEN 0 ELSE i - meta[f].smallest
           g(i) == [f \in 1..Len(meta) |-> IF f \in VE!AllFiles(versions[v]) THEN Before(f, i) ELSE 0]
<1>1. Len(meta) \in Nat
  BY DEF Sound
<1>2. \A i : VE!ApproximateOffsetOf(v, i) = VE!SumOf(g(i), Len(meta))
  BY Zenon DEF VE!ApproximateOffsetOf
<1>3. ASSUME NEW f \in 1..Len(meta)
      PROVE  Before(f, j) \in Nat /\ Before(f, k) \in Nat /\ Before(f, j) <= Before(f, k)
  <2>1. meta[f] \in FileRecords /\ meta[f].smallest <= meta[f].largest
    BY DEF Sound, FilesSound
  <2>2. PICK a, b : a = meta[f].smallest /\ b = meta[f].largest
    OBVIOUS
  <2>3. a \in Nat /\ b \in Nat /\ a <= b
    BY <2>1, <2>2 DEF FileRecords
  <2>4. VE!Size(meta[f]) = b - a + 1
    BY <2>2 DEF VE!Size
  <2> DEFINE Part(i) == IF b < i THEN b - a + 1 ELSE IF a > i THEN 0 ELSE i - a
  <2>5. Before(f, j) = Part(j) /\ Before(f, k) = Part(k)
    BY <2>2, <2>4
  <2>6. Part(j) \in Nat /\ Part(k) \in Nat /\ Part(j) <= Part(k)
    BY ONLY <2>3, j \in Nat, k \in Nat, j <= k
  <2> QED
    BY <2>5, <2>6
<1>4. \A f \in 1..Len(meta) : g(j)[f] \in Nat /\ g(k)[f] \in Nat /\ g(j)[f] <= g(k)[f]
  <2> HIDE DEF Before
  <2> QED
    BY <1>3
<1>5. PICK n, p, q : n = Len(meta) /\ p = g(j) /\ q = g(k)
  OBVIOUS
<1> HIDE DEF g
<1>6. n \in Nat /\ \A f \in 1..n : p[f] \in Nat /\ q[f] \in Nat /\ p[f] <= q[f]
  BY <1>1, <1>4, <1>5
<1>7. VE!SumOf(p, n) \in Nat /\ VE!SumOf(q, n) \in Nat /\ VE!SumOf(p, n) <= VE!SumOf(q, n)
  BY <1>6, SumMonotone
<1> QED
  BY <1>2, <1>5, <1>7

\* A compaction is of files that are there, and sizes add up.
LEMMA VersionsInPlace == VersionsInv => VE!CompactionInPlace
<1> SUFFICES ASSUME VersionsInv
             PROVE  VE!CompactionInPlace
  OBVIOUS
<1>1. VersionLevels \in Nat \ {0, 1} /\ VersionKeys \in Nat
  BY PartsAssumption
<1>2. Sound(meta, versions) /\ CompactionSound(versions, installed, compaction, built)
  BY DEF VersionsInv
<1>3. \A v \in 1..Len(versions) :
         versions[v].toCompact # 0 /\ ~versions[v].freed =>
             versions[v].toLevel + 1 < VersionLevels /\ versions[v].toCompact \in versions[v].files[versions[v].toLevel]
  BY <1>1, <1>2 DEF Sound, VersionSound
<1>4. compaction.version # 0 /\ compaction.level >= 0 =>
         /\ compaction.level + 1 < VersionLevels
         /\ compaction.in0 \subseteq versions[installed].files[compaction.level]
         /\ compaction.in1 \subseteq versions[installed].files[compaction.level + 1]
  BY <1>1, <1>2 DEF CompactionSound, InputsIn
<1>5. ASSUME NEW v, NEW a \in VE!Keys, NEW b \in a..VersionKeys
      PROVE  VE!GetApproximateSizes(v, a, VersionKeys + 1)
                = VE!GetApproximateSizes(v, a, b) + VE!GetApproximateSizes(v, b, VersionKeys + 1)
  <2>1. PICK c : c = VersionKeys + 1
    OBVIOUS
  <2>2. a \in Nat /\ b \in Nat /\ c \in Nat /\ a <= b /\ b <= c
    BY <1>1, <2>1 DEF VE!Keys
  <2>3. PICK x, y, z : x = VE!ApproximateOffsetOf(v, a) /\ y = VE!ApproximateOffsetOf(v, b) /\ z = VE!ApproximateOffsetOf(v, c)
    OBVIOUS
  <2>4. x \in Nat /\ y \in Nat /\ z \in Nat /\ x <= y /\ y <= z
    BY <1>2, <2>2, <2>3, OffsetsGrow
  <2>5. /\ VE!GetApproximateSizes(v, a, c) = z - x /\ VE!GetApproximateSizes(v, a, b) = y - x
        /\ VE!GetApproximateSizes(v, b, c) = z - y
    BY <2>3, <2>4 DEF VE!GetApproximateSizes
  <2> QED
    BY <2>1, <2>4, <2>5
<1>6. \A r \in Readers : pinned[r] # 0 =>
         \A a \in VE!Keys : \A b \in a..VersionKeys :
             VE!GetApproximateSizes(pinned[r], a, VersionKeys + 1)
                 = VE!GetApproximateSizes(pinned[r], a, b) + VE!GetApproximateSizes(pinned[r], b, VersionKeys + 1)
  BY <1>5
<1> QED
  BY <1>3, <1>4, <1>6 DEF VE!CompactionInPlace

\* A version, with its files, lives exactly as long as a reader, a compaction or the database
\* uses it, a file as long as a version has it (Version::Ref, Unref and ~Version); what a
\* compaction takes is on its level of the current version, and the sizes of adjacent ranges
\* add up.  The inductive invariant counts the users of a version and the versions of a file,
\* also while LogAndApply has given up the mutex with a version that is built and not yet
\* installed (version_set.cc).
THEOREM VersionsOwnTheirFiles == VE!Spec => []VersionsOwnFiles
<1>1. VersionsInv => VersionsOwnFiles
  BY VersionsOwned, VersionsInPlace DEF VersionsOwnFiles
<1> QED
  BY <1>1, VersionsInit, VersionsStep, PTL DEF VE!Spec

=============================================================================
