---------------------------- MODULE SessionProofs ----------------------------
(***************************************************************************)
(* Proofs about Session, for any number of members and concurrent tasks.   *)
(*                                                                         *)
(* What the screen shows depends on answers that are still on the bridge,  *)
(* so the inductive invariant says what those answers are worth: an answer *)
(* belongs to the one task that awaits it, and one that names an account   *)
(* is right about the device unless a later answer brings news.            *)
(***************************************************************************)
EXTENDS Session, SequenceTheorems, TLAPS

Messages == [task : Tasks, res : Members \cup {NoUser, Failed}]

\* The process holds no work while the app is not running.
Stopped == ~running => bridge = <<>> /\ \A t \in Tasks : Idle(t)

\* Each answer on the bridge is the only one for a task that awaits it.
Correlated ==
    /\ \A i, j \in 1..Len(bridge) : bridge[i].task = bridge[j].task => i = j
    /\ \A i \in 1..Len(bridge) : ~Idle(bridge[i].task)

\* A silent sign-in that succeeds has a member.
SilentKnows ==
    \A i \in 1..Len(bridge) :
        call[bridge[i].task] = "signInSilently" => bridge[i].res # NoUser

\* login$ reads the record of a member.
ReadsAsMember == \A t \in Tasks : call[t] = "once" => member[t] \in Members

\* The sign-in module remembers nobody but the signed-in account.
CurrentIsSignedIn == current # NoUser => current = keychain

\* The i-th answer names the account of the device.
Tells(i) ==
    \/ News(i)
    \/ call[bridge[i].task] \in {"getCurrentUser", "signInSilently"} /\ bridge[i].res \in Members

\* An answer that names the account is right unless news comes after it.
LatestIsRight ==
    \A i \in 1..Len(bridge) :
        Tells(i) /\ (\A j \in 1..Len(bridge) : j > i => ~News(j)) => bridge[i].res = keychain

Bridging == Stopped /\ Correlated /\ SilentKnows /\ CurrentIsSignedIn /\ LatestIsRight

IInv ==
    /\ TypeOK
    /\ Bridging
    /\ ReadsAsMember
    /\ ProgressHasOwner
    /\ DashboardHasMember
    /\ ShownMemberIsSignedIn

-----------------------------------------------------------------------------
\* The reducer of the welcome slice touches no flag but its own.
LEMMA ReducerType ==
    ASSUME NEW w \in SUBSET WelcomeFlags,
           NEW type \in {"LOGIN", "LOGIN_FAIL", "LOGIN_SUCCESS", "IS_LOGGED", "IS_LOGGED_FAIL",
                         "IS_LOGGED_SUCCESS", "LOGOUT", "LOGOUT_FAIL", "LOGOUT_SUCCESS"}
    PROVE  WelcomeReducer(w, type) \in SUBSET WelcomeFlags
BY DEF WelcomeReducer, WelcomeFlags

\* What each action does to the two progress flags that have owners.
LEMMA ReducerFlags ==
    ASSUME NEW w
    PROVE  /\ \A f : f # "loginInProgress" =>
                 (f \in WelcomeReducer(w, "LOGIN") => f \in w)
           /\ \A f : f # "loginFail" =>
                 (f \in WelcomeReducer(w, "LOGIN_FAIL") => f \in w)
           /\ \A f : f \in WelcomeReducer(w, "LOGIN_SUCCESS") => f \in w
           /\ \A f : f \notin {"isLogged", "isLoggedInProgress"} =>
                 (f \in WelcomeReducer(w, "IS_LOGGED") => f \in w)
           /\ \A f : f # "isLoggedFail" =>
                 (f \in WelcomeReducer(w, "IS_LOGGED_FAIL") => f \in w)
           /\ "isLoggedInProgress" \notin WelcomeReducer(w, "IS_LOGGED_FAIL")
           /\ \A f : f \in WelcomeReducer(w, "IS_LOGGED_SUCCESS") => f \in w
           /\ "isLoggedInProgress" \notin WelcomeReducer(w, "IS_LOGGED_SUCCESS")
           /\ \A f : f # "logoutInProgress" =>
                 (f \in WelcomeReducer(w, "LOGOUT") => f \in w)
           /\ \A f : f # "logoutFail" =>
                 (f \in WelcomeReducer(w, "LOGOUT_FAIL") => f \in w)
           /\ "logoutInProgress" \notin WelcomeReducer(w, "LOGOUT_FAIL")
           /\ \A f : f \in WelcomeReducer(w, "LOGOUT_SUCCESS") => f \in w
           /\ "isLoggedInProgress" \notin WelcomeReducer(w, "LOGOUT_SUCCESS")
           /\ "logoutInProgress" \notin WelcomeReducer(w, "LOGOUT_SUCCESS")
BY DEF WelcomeReducer

\* Taking the oldest answer shifts the others.
LEMMA TakeHead ==
    ASSUME TypeOK, bridge # <<>>, bridge' = Tail(bridge)
    PROVE  /\ bridge' \in Seq(Messages)
           /\ Len(bridge) \in Nat /\ Len(bridge) > 0
           /\ Head(bridge) = bridge[1]
           /\ Len(bridge') = Len(bridge) - 1
           /\ \A i \in 1..Len(bridge') : i + 1 \in 1..Len(bridge) /\ bridge'[i] = bridge[i + 1]
<1>1. bridge \in Seq(Messages)
  BY DEF TypeOK, Messages
<1> QED
  BY <1>1, HeadTailProperties, LenProperties, EmptySeq

\* Posting an answer leaves those before it alone.
LEMMA PostAnswer ==
    ASSUME TypeOK, NEW m \in Messages, bridge' = Append(bridge, m)
    PROVE  /\ bridge' \in Seq(Messages)
           /\ Len(bridge) \in Nat
           /\ Len(bridge') = Len(bridge) + 1
           /\ \A i \in 1..Len(bridge) : bridge'[i] = bridge[i]
           /\ bridge'[Len(bridge) + 1] = m
<1>1. bridge \in Seq(Messages)
  BY DEF TypeOK, Messages
<1> QED
  BY <1>1, AppendProperties, LenProperties

\* A saga that takes the answer it awaits and moves on keeps the bridge in order.
LEMMA SagaBridging ==
    ASSUME IInv, NEW t \in Tasks, NEW c \in Calls, NEW d \in Calls \cup {"none"},
           Resumes(t, c), Goto(t, d), UNCHANGED <<running, keychain, current>>
    PROVE  /\ Bridging'
           /\ \A i \in 1..Len(bridge') :
                 /\ i + 1 \in 1..Len(bridge)
                 /\ i + 1 > 1
                 /\ bridge'[i] = bridge[i + 1]
                 /\ bridge[i + 1].task # t
                 /\ call'[bridge'[i].task] = call[bridge[i + 1].task]
                 /\ News(i)' <=> News(i + 1)
           /\ 1 \in 1..Len(bridge)
           /\ bridge[1] = Head(bridge) /\ bridge[1].task = t /\ call[bridge[1].task] = c
           /\ Len(bridge') = Len(bridge) - 1 /\ Len(bridge) \in Nat
           /\ Head(bridge) \in Messages
           /\ bridge' \in Seq(Messages)
<1>1. TypeOK /\ Bridging
  BY DEF IInv
<1>2. /\ bridge # <<>> /\ bridge' = Tail(bridge) /\ Head(bridge).task = t /\ call[t] = c /\ running
  BY DEF Resumes
<1>3. /\ bridge' \in Seq(Messages)
      /\ Len(bridge) \in Nat /\ Len(bridge) > 0
      /\ Head(bridge) = bridge[1]
      /\ Len(bridge') = Len(bridge) - 1
      /\ \A i \in 1..Len(bridge') : i + 1 \in 1..Len(bridge) /\ bridge'[i] = bridge[i + 1]
  BY <1>1, <1>2, TakeHead
<1>4. \A i \in 1..Len(bridge) : bridge[i] \in Messages
  BY <1>1, ElementOfSeq DEF TypeOK, Messages
<1>5. 1 \in 1..Len(bridge) /\ bridge[1].task = t
  BY <1>2, <1>3
<1>6. ASSUME NEW i \in 1..Len(bridge')
      PROVE  /\ i + 1 \in 1..Len(bridge)
             /\ i + 1 > 1
             /\ bridge'[i] = bridge[i + 1]
             /\ bridge[i + 1].task # t
             /\ call'[bridge'[i].task] = call[bridge[i + 1].task]
  <2>1. i + 1 \in 1..Len(bridge) /\ i + 1 > 1 /\ bridge'[i] = bridge[i + 1]
    BY <1>3
  <2>2. bridge[i + 1].task # t
    BY <1>1, <1>5, <2>1 DEF Bridging, Correlated
  <2>3. bridge[i + 1].task \in Tasks
    BY <1>4, <2>1 DEF Messages
  <2>4. call' = [call EXCEPT ![t] = d] /\ call \in [Tasks -> Calls \cup {"none"}]
    BY <1>1 DEF Goto, TypeOK
  <2> QED
    BY <2>1, <2>2, <2>3, <2>4
<1>7. \A i \in 1..Len(bridge') : News(i)' <=> News(i + 1)
  BY <1>6 DEF News
<1>8. \A i \in 1..Len(bridge') : Tells(i)' <=> Tells(i + 1)
  BY <1>6, <1>7 DEF Tells
<1>9. Stopped'
  BY <1>2 DEF Stopped
<1>10. Correlated'
  <2>1. \A i, j \in 1..Len(bridge') : bridge'[i].task = bridge'[j].task => i = j
    <3> SUFFICES ASSUME NEW i \in 1..Len(bridge'), NEW j \in 1..Len(bridge'),
                        bridge'[i].task = bridge'[j].task
                 PROVE  i = j
      OBVIOUS
    <3>1. i + 1 = j + 1
      BY <1>1, <1>6 DEF Bridging, Correlated
    <3> QED
      BY <3>1
  <2>2. \A i \in 1..Len(bridge') : call'[bridge'[i].task] # "none"
    BY <1>1, <1>6, SMTT(30) DEF Bridging, Correlated, Idle
  <2> QED
    BY <2>1, <2>2 DEF Correlated, Idle
<1>11. SilentKnows'
  BY <1>1, <1>6 DEF Bridging, SilentKnows
<1>12. CurrentIsSignedIn'
  BY <1>1 DEF Bridging, CurrentIsSignedIn
<1>13. LatestIsRight'
  <2> SUFFICES ASSUME NEW i \in 1..Len(bridge'), Tells(i)',
                      \A j \in 1..Len(bridge') : j > i => ~News(j)'
               PROVE  bridge'[i].res = keychain'
    BY DEF LatestIsRight
  <2>1. \A j \in 1..Len(bridge) : j > i + 1 => ~News(j)
    <3> SUFFICES ASSUME NEW j \in 1..Len(bridge), j > i + 1
                 PROVE  ~News(j)
      OBVIOUS
    <3>1. j - 1 \in 1..Len(bridge') /\ j - 1 > i /\ (j - 1) + 1 = j
      BY <1>3
    <3> QED
      BY <3>1, <1>7
  <2> QED
    BY <1>1, <1>6, <1>8, <2>1 DEF Bridging, LatestIsRight
<1> QED
  BY <1>2, <1>3, <1>4, <1>5, <1>6, <1>7, <1>9, <1>10, <1>11, <1>12, <1>13 DEF Bridging

\* A native call that takes effect and posts its answer keeps the bridge in order,
\* if the answer is news when the account changes and right when it names it.
LEMMA NativeBridging ==
    ASSUME IInv, NEW t \in Tasks, NEW res \in Members \cup {NoUser, Failed},
           running, ~Idle(t), ~Answered(t), Answer(t, res),
           call[t] = "signInSilently" => res # NoUser,
           CurrentIsSignedIn',
           \/ keychain' = keychain
           \/ call[t] = "signIn" /\ res \in Members
           \/ call[t] = "signOut" /\ res # Failed,
           \/ call[t] = "signIn" /\ res \in Members
           \/ call[t] = "signOut" /\ res # Failed
           \/ call[t] \in {"getCurrentUser", "signInSilently"} /\ res \in Members
           => res = keychain'
    PROVE  /\ Bridging'
           /\ TypeOK /\ bridge' \in Seq(Messages)
           /\ UNCHANGED <<running, appVars, databaseVars, kills>>
           /\ \A i \in 1..Len(bridge) : i \in 1..Len(bridge') /\ (News(i)' <=> News(i))
           /\ \E n \in 1..Len(bridge') :
                 News(n)' <=> \/ call[t] = "signIn" /\ res \in Members
                              \/ call[t] = "signOut" /\ res # Failed
<1> DEFINE msg == [task |-> t, res |-> res]
<1>0. PICK n : n = Len(bridge) + 1
  OBVIOUS
<1>1. TypeOK /\ Bridging
  BY DEF IInv
<1>2. bridge' = Append(bridge, msg) /\ UNCHANGED <<running, appVars, databaseVars, kills>>
  BY DEF Answer
<1>3. call' = call /\ running' = running
  BY <1>2 DEF appVars
<1>4. /\ bridge' \in Seq(Messages)
      /\ Len(bridge) \in Nat
      /\ Len(bridge') = n
      /\ \A i \in 1..Len(bridge) : bridge'[i] = bridge[i]
      /\ bridge'[n] = msg
  <2>1. msg \in Messages
    BY DEF Messages
  <2> QED
    BY <1>0, <1>1, <1>2, <2>1, PostAnswer
<1>5. n \in 1..Len(bridge') /\ \A i \in 1..Len(bridge') : i \in 1..Len(bridge) \/ i = n
  BY <1>0, <1>4
<1>6. \A i \in 1..Len(bridge) : i \in 1..Len(bridge') /\ i < n
  BY <1>0, <1>4
<1>7. \A i \in 1..Len(bridge) : (News(i)' <=> News(i)) /\ (Tells(i)' <=> Tells(i))
  BY <1>3, <1>4 DEF News, Tells
<1>8. /\ News(n)' <=>
            \/ call[t] = "signIn" /\ res \in Members
            \/ call[t] = "signOut" /\ res # Failed
      /\ Tells(n)' => bridge'[n].res = keychain'
  BY <1>3, <1>4 DEF News, Tells
<1>9. Stopped'
  BY <1>3 DEF Stopped
<1>10. Correlated'
  <2>1. \A i \in 1..Len(bridge) : bridge[i].task # t
    BY DEF Answered
  <2>2. \A i, j \in 1..Len(bridge') : bridge'[i].task = bridge'[j].task => i = j
    BY <1>1, <1>4, <1>5, <2>1 DEF Bridging, Correlated
  <2>3. \A i \in 1..Len(bridge') : call'[bridge'[i].task] # "none"
    BY <1>1, <1>3, <1>4, <1>5 DEF Bridging, Correlated, Idle
  <2> QED
    BY <2>2, <2>3 DEF Correlated, Idle
<1>11. SilentKnows'
  BY <1>1, <1>3, <1>4, <1>5 DEF Bridging, SilentKnows
<1>12. LatestIsRight'
  <2> SUFFICES ASSUME NEW i \in 1..Len(bridge'), Tells(i)',
                      \A j \in 1..Len(bridge') : j > i => ~News(j)'
               PROVE  bridge'[i].res = keychain'
    BY DEF LatestIsRight
  <2>1. CASE i = n
    BY <1>8, <2>1
  <2>2. CASE i \in 1..Len(bridge)
    <3>1. ~News(n)'
      BY <1>5, <1>6, <2>2
    <3>2. keychain' = keychain
      BY <1>8, <3>1
    <3>3. \A j \in 1..Len(bridge) : j > i => ~News(j)
      BY <1>6, <1>7
    <3> QED
      BY <1>1, <1>4, <1>7, <2>2, <3>2, <3>3 DEF Bridging, LatestIsRight
  <2> QED
    BY <1>5, <2>1, <2>2
<1> QED
  BY <1>1, <1>2, <1>4, <1>5, <1>6, <1>7, <1>8, <1>9, <1>10, <1>11, <1>12 DEF Bridging

\* A saga that takes an answer without news leaves the right member on the screen.
LEMMA SagaQuiet ==
    ASSUME IInv, NEW t \in Tasks, NEW c \in Calls, NEW d \in Calls \cup {"none"},
           Resumes(t, c), Goto(t, d), UNCHANGED <<running, keychain, current>>,
           UNCHANGED <<user, route>>, ~News(1)
    PROVE  ShownMemberIsSignedIn'
<1> SUFFICES ASSUME running', route' = "Dashboard", \A i \in 1..Len(bridge') : ~News(i)'
             PROVE  user' = keychain'
  BY DEF ShownMemberIsSignedIn
<1>1. \A i \in 1..Len(bridge) : ~News(i)
  <2> SUFFICES ASSUME NEW i \in 1..Len(bridge), i # 1
               PROVE  ~News(i)
    OBVIOUS
  <2>1. PICK k \in 1..Len(bridge') : k + 1 = i
    <3>1. i - 1 \in 1..Len(bridge') /\ (i - 1) + 1 = i
      BY SagaBridging
    <3> QED
      BY <3>1
  <2>2. ~News(k)'
    OBVIOUS
  <2>3. News(k)' <=> News(k + 1)
    BY SagaBridging
  <2> QED
    BY <2>1, <2>2, <2>3
<1> QED
  BY <1>1 DEF IInv, ShownMemberIsSignedIn

\* A saga that shows the account its answer names shows the right member.
LEMMA SagaTells ==
    ASSUME IInv, NEW t \in Tasks, NEW c \in Calls, NEW d \in Calls \cup {"none"},
           Resumes(t, c), Goto(t, d), UNCHANGED <<running, keychain, current>>,
           user' = Res, Tells(1)
    PROVE  ShownMemberIsSignedIn'
<1> SUFFICES ASSUME \A i \in 1..Len(bridge') : ~News(i)'
             PROVE  user' = keychain'
  BY DEF ShownMemberIsSignedIn
<1>1. \A i \in 1..Len(bridge) : i > 1 => ~News(i)
  <2> SUFFICES ASSUME NEW i \in 1..Len(bridge), i > 1
               PROVE  ~News(i)
    OBVIOUS
  <2>1. PICK k \in 1..Len(bridge') : k + 1 = i
    <3>1. i - 1 \in 1..Len(bridge') /\ (i - 1) + 1 = i
      BY SagaBridging
    <3> QED
      BY <3>1
  <2>2. ~News(k)'
    OBVIOUS
  <2>3. News(k)' <=> News(k + 1)
    BY SagaBridging
  <2> QED
    BY <2>1, <2>2, <2>3
<1>2. 1 \in 1..Len(bridge) /\ bridge[1] = Head(bridge)
  BY SagaBridging
<1>3. bridge[1].res = keychain
  BY <1>1, <1>2 DEF IInv, Bridging, LatestIsRight
<1> QED
  BY <1>2, <1>3 DEF Res

-----------------------------------------------------------------------------
\* Before the first launch there is no task, no answer and no Dashboard.
LEMMA InitIInv == Init => IInv
<1> SUFFICES ASSUME Init
             PROVE  IInv
  OBVIOUS
<1>1. TypeOK
  BY EmptySeq DEF Init, TypeOK, InitialState
<1>2. Len(bridge) = 0
  BY EmptySeq DEF Init
<1> QED
  BY <1>1, <1>2 DEF Init, IInv, Bridging, Stopped, Correlated, SilentKnows, CurrentIsSignedIn,
     LatestIsRight, ReadsAsMember, ProgressHasOwner, DashboardHasMember, ShownMemberIsSignedIn,
     Idle

\* Stuttering.
LEMMA StutterStep == ASSUME IInv, UNCHANGED vars PROVE IInv'
<1>1. /\ UNCHANGED <<running, welcome, user, route, call, member, bridge, keychain, current>>
      /\ UNCHANGED <<directory, outbox, kills>>
  BY DEF vars, appVars, googleVars, databaseVars
<1> QED
  BY <1>1 DEF IInv, TypeOK, Bridging, Stopped, Correlated, SilentKnows, CurrentIsSignedIn,
     LatestIsRight, Tells, News, ReadsAsMember, ProgressHasOwner, DashboardHasMember,
     ShownMemberIsSignedIn, Idle

\* A fresh process checks the session.
LEMMA LaunchStep == ASSUME IInv, NEW t \in Tasks, Launch(t) PROVE IInv'
<1> USE DEF Launch
<1>1. /\ UNCHANGED <<member, bridge, keychain, current, directory, outbox, kills>>
      /\ bridge = <<>> /\ running'
      /\ call' = [call EXCEPT ![t] = "configure"]
  BY DEF IInv, Bridging, Stopped, googleVars, databaseVars
<1>2. TypeOK'
  <2>1. welcome' \in SUBSET WelcomeFlags
    BY DEF WelcomeReducer, WelcomeFlags, InitialState
  <2> QED
    BY <1>1, <2>1 DEF IInv, TypeOK, Calls, IsLoggedCalls
<1>3. Len(bridge') = 0
  BY <1>1, EmptySeq
<1>4. Bridging'
  BY <1>1, <1>3 DEF IInv, Bridging, Stopped, Correlated, SilentKnows, CurrentIsSignedIn, LatestIsRight
<1>5. ReadsAsMember'
  BY <1>1 DEF IInv, TypeOK, ReadsAsMember
<1>6. ProgressHasOwner'
  <2>1. call'[t] \in IsLoggedCalls
    BY <1>1 DEF IInv, TypeOK, IsLoggedCalls
  <2>2. "logoutInProgress" \notin welcome'
    BY DEF WelcomeReducer, InitialState
  <2> QED
    BY <2>1, <2>2 DEF ProgressHasOwner
<1>7. DashboardHasMember' /\ ShownMemberIsSignedIn'
  BY DEF DashboardHasMember, ShownMemberIsSignedIn
<1> QED
  BY <1>2, <1>4, <1>5, <1>6, <1>7 DEF IInv

\* A kill leaves no work behind.
LEMMA KillStep == ASSUME IInv, Kill PROVE IInv'
<1> USE DEF Kill
<1>1. UNCHANGED <<welcome, user, route, keychain, directory, outbox>> /\ ~running'
  BY DEF databaseVars
<1>2. TypeOK'
  <2>1. bridge' \in Seq(Messages)
    BY EmptySeq
  <2>2. call' \in [Tasks -> Calls \cup {"none"}] /\ member' \in [Tasks -> Members \cup {NoUser}]
    OBVIOUS
  <2>3. running' \in BOOLEAN /\ current' \in Members \cup {NoUser}
    OBVIOUS
  <2>4. kills' \in Nat
    BY DEF IInv, TypeOK
  <2> QED
    BY <1>1, <2>1, <2>2, <2>3, <2>4 DEF IInv, TypeOK, Messages
<1>3. Len(bridge') = 0
  BY EmptySeq
<1>4. Bridging'
  BY <1>1, <1>3 DEF Bridging, Stopped, Correlated, SilentKnows, CurrentIsSignedIn, LatestIsRight, Idle
<1> QED
  BY <1>1, <1>2, <1>4 DEF IInv, ReadsAsMember, ProgressHasOwner, DashboardHasMember,
     ShownMemberIsSignedIn

\* A new task awaits its first call, which the bridge knows nothing of.
LEMMA DispatchStep ==
    ASSUME IInv, NEW t \in Tasks, TapLogin(t) \/ TapLogout(t)
    PROVE  IInv'
<1>1. PICK type \in {"LOGIN", "LOGOUT"}, c \in {"signIn", "signOut"} :
         /\ Dispatch(t, type, c)
         /\ type = "LOGOUT" => c = "signOut"
  BY DEF TapLogin, TapLogout
<1>2. /\ UNCHANGED <<running, user, route, member, bridge, keychain, current, directory, outbox, kills>>
      /\ running /\ call[t] = "none"
      /\ welcome' = WelcomeReducer(welcome, type)
      /\ call' = [call EXCEPT ![t] = c]
  BY <1>1 DEF Dispatch, googleVars, databaseVars, Idle
<1>3. TypeOK /\ call \in [Tasks -> Calls \cup {"none"}]
  BY DEF IInv, TypeOK
<1>4. TypeOK'
  <2>1. welcome' \in SUBSET WelcomeFlags
    BY <1>2, <1>3, ReducerType DEF TypeOK
  <2> QED
    BY <1>2, <1>3, <2>1 DEF TypeOK, Calls, LoginCalls, LogoutCalls
<1>5. \A i \in 1..Len(bridge) : bridge[i].task \in Tasks
  <2>1. \A i \in 1..Len(bridge) : bridge[i] \in Messages
    BY <1>3, ElementOfSeq DEF TypeOK, Messages
  <2> QED
    BY <2>1 DEF Messages
<1>6. \A i \in 1..Len(bridge) : bridge[i].task # t /\ call'[bridge[i].task] = call[bridge[i].task]
  BY <1>2, <1>3, <1>5 DEF IInv, Bridging, Correlated, Idle
<1>7. \A i \in 1..Len(bridge) : (News(i)' <=> News(i)) /\ (Tells(i)' <=> Tells(i))
  BY <1>2, <1>6 DEF News, Tells
<1>8. Bridging'
  <2>1. Stopped'
    BY <1>2 DEF Stopped
  <2>2. Correlated'
    BY <1>2, <1>6 DEF IInv, Bridging, Correlated, Idle
  <2>3. SilentKnows' /\ CurrentIsSignedIn'
    BY <1>2, <1>6 DEF IInv, Bridging, SilentKnows, CurrentIsSignedIn
  <2>4. LatestIsRight'
    BY <1>2, <1>7 DEF IInv, Bridging, LatestIsRight
  <2> QED
    BY <2>1, <2>2, <2>3, <2>4 DEF Bridging
<1>9. ReadsAsMember'
  BY <1>2, <1>3 DEF IInv, ReadsAsMember
<1>10. ProgressHasOwner'
  <2>1. "isLoggedInProgress" \in welcome' => "isLoggedInProgress" \in welcome
    BY <1>2, ReducerFlags
  <2>2. "logoutInProgress" \in welcome' => "logoutInProgress" \in welcome \/ c = "signOut"
    BY <1>1, <1>2, ReducerFlags
  <2>3. \A u \in Tasks : call[u] # "none" => call'[u] = call[u]
    BY <1>2, <1>3
  <2>4. call'[t] = c
    BY <1>2, <1>3
  <2> QED
    BY <1>2, <2>1, <2>2, <2>3, <2>4 DEF IInv, ProgressHasOwner, IsLoggedCalls, LogoutCalls
<1>11. DashboardHasMember' /\ ShownMemberIsSignedIn'
  BY <1>2, <1>7 DEF IInv, DashboardHasMember, ShownMemberIsSignedIn
<1> QED
  BY <1>4, <1>8, <1>9, <1>10, <1>11 DEF IInv

\* The database client sends a write: nothing else moves.
LEMMA FlushStep == ASSUME IInv, Flush PROVE IInv'
<1>1. /\ UNCHANGED <<running, welcome, user, route, call, member, bridge, keychain, current, kills>>
      /\ outbox # <<>> /\ directory' = {Head(outbox)} /\ outbox' = Tail(outbox)
  BY DEF Flush, appVars, googleVars
<1>2. TypeOK'
  <2>1. Head(outbox) \in Members /\ Tail(outbox) \in Seq(Members)
    BY <1>1, HeadTailProperties DEF IInv, TypeOK
  <2> QED
    BY <1>1, <2>1 DEF IInv, TypeOK
<1> QED
  BY <1>1, <1>2 DEF IInv, Bridging, Stopped, Correlated, SilentKnows, CurrentIsSignedIn,
     LatestIsRight, Tells, News, ReadsAsMember, ProgressHasOwner, DashboardHasMember,
     ShownMemberIsSignedIn, Idle

-----------------------------------------------------------------------------
\* Whatever a native call answers, the app has not seen it yet.
LEMMA NativeStep == ASSUME IInv, NEW t \in Tasks, Native(t) PROVE IInv'
<1>1. TypeOK /\ CurrentIsSignedIn /\ ShownMemberIsSignedIn
  BY DEF IInv, Bridging
<1>2. PICK res \in Members \cup {NoUser, Failed} :
        /\ running /\ ~Idle(t) /\ ~Answered(t) /\ Answer(t, res)
        /\ call[t] = "signInSilently" => res # NoUser
        /\ CurrentIsSignedIn'
        /\ \/ keychain' = keychain
           \/ call[t] = "signIn" /\ res \in Members
           \/ call[t] = "signOut" /\ res # Failed
        /\ \/ call[t] = "signIn" /\ res \in Members
           \/ call[t] = "signOut" /\ res # Failed
           \/ call[t] \in {"getCurrentUser", "signInSilently"} /\ res \in Members
           => res = keychain'
        /\ keychain' \in Members \cup {NoUser} /\ current' \in Members \cup {NoUser}
  <2> USE <1>1, MembersAssumption DEF Awaits, Idle, googleVars, CurrentIsSignedIn, TypeOK
  <2>1. CASE \E m \in Members : SignIn(t, m)
    BY <2>1 DEF SignIn
  <2>2. CASE SignInNobody(t)
    BY <2>2 DEF SignInNobody
  <2>3. CASE Configure(t)
    BY <2>3 DEF Configure
  <2>4. CASE IsSignedIn(t)
    BY <2>4 DEF IsSignedIn
  <2>5. CASE GetCurrentUser(t)
    BY <2>5 DEF GetCurrentUser
  <2>6. CASE SignInSilently(t)
    BY <2>6 DEF SignInSilently
  <2>7. CASE SignOut(t)
    BY <2>7 DEF SignOut
  <2>8. CASE Once(t)
    <3>1. (IF member[t] \in View THEN member[t] ELSE NoUser) \in Members \cup {NoUser}
      OBVIOUS
    <3> QED
      BY <2>8, <3>1 DEF Once
  <2>9. CASE Reject(t)
    BY <2>9 DEF Reject
  <2> QED
    BY <2>1, <2>2, <2>3, <2>4, <2>5, <2>6, <2>7, <2>8, <2>9 DEF Native
<1>3. /\ Bridging'
      /\ bridge' \in Seq(Messages)
      /\ UNCHANGED <<running, appVars, databaseVars, kills>>
      /\ \A i \in 1..Len(bridge) : i \in 1..Len(bridge') /\ (News(i)' <=> News(i))
      /\ \E n \in 1..Len(bridge') :
            News(n)' <=> \/ call[t] = "signIn" /\ res \in Members
                         \/ call[t] = "signOut" /\ res # Failed
  BY <1>2, NativeBridging
<1>4. UNCHANGED <<running, welcome, user, route, call, member, directory, outbox, kills>>
  BY <1>3 DEF appVars, databaseVars
<1>5. TypeOK'
  BY <1>1, <1>2, <1>3, <1>4 DEF TypeOK, Messages
<1>6. ReadsAsMember' /\ ProgressHasOwner' /\ DashboardHasMember'
  BY <1>4 DEF IInv, ReadsAsMember, ProgressHasOwner, DashboardHasMember
<1>7. ShownMemberIsSignedIn'
  <2> SUFFICES ASSUME running, route = "Dashboard", \A i \in 1..Len(bridge') : ~News(i)'
               PROVE  user = keychain'
    BY <1>4 DEF ShownMemberIsSignedIn
  <2>1. keychain' = keychain
    BY <1>2, <1>3
  <2>2. \A i \in 1..Len(bridge) : ~News(i)
    BY <1>3
  <2> QED
    BY <1>1, <2>1, <2>2 DEF ShownMemberIsSignedIn
<1> QED
  BY <1>3, <1>5, <1>6, <1>7 DEF IInv

-----------------------------------------------------------------------------
\* The tasks other than t stay where they are.
LEMMA OthersStay ==
    ASSUME TypeOK, NEW t \in Tasks, NEW d \in Calls \cup {"none"}, Goto(t, d)
    PROVE  /\ call' \in [Tasks -> Calls \cup {"none"}]
           /\ call'[t] = d
           /\ \A u \in Tasks : u # t => call'[u] = call[u]
BY DEF TypeOK, Goto

\* login$ after signIn.
LEMMA OnSignInStep == ASSUME IInv, NEW t \in Tasks, OnSignIn(t) PROVE IInv'
<1> USE DEF OnSignIn
<1>1. /\ UNCHANGED <<running, keychain, current, directory, outbox, kills>>
      /\ Resumes(t, "signIn") /\ Goto(t, "once") /\ Res \in Members
      /\ user' = Res /\ route' = "Dashboard" /\ member' = [member EXCEPT ![t] = Res]
      /\ welcome' = WelcomeReducer(welcome, "LOGIN_SUCCESS")
  BY DEF nativeVars, googleVars, databaseVars
<1>2. TypeOK /\ "signIn" \in Calls /\ "once" \in Calls
  BY DEF IInv, Calls, LoginCalls
<1>3. Bridging' /\ bridge' \in Seq(Messages) /\ bridge[1] = Head(bridge) /\ call[bridge[1].task] = "signIn"
  BY <1>1, <1>2, SagaBridging
<1>4. /\ call' \in [Tasks -> Calls \cup {"none"}] /\ call'[t] = "once"
      /\ \A u \in Tasks : u # t => call'[u] = call[u]
  BY <1>1, <1>2, OthersStay
<1>5. TypeOK'
  <2>1. welcome' \in SUBSET WelcomeFlags
    BY <1>1, <1>2, ReducerType DEF TypeOK
  <2> QED
    BY <1>1, <1>2, <1>3, <1>4, <2>1 DEF TypeOK, Messages
<1>6. ReadsAsMember'
  BY <1>1, <1>2, <1>4 DEF IInv, ReadsAsMember, TypeOK
<1>7. ProgressHasOwner'
  <2>1. \A f : f \in welcome' => f \in welcome
    BY <1>1, ReducerFlags
  <2>2. call[t] = "signIn" /\ running
    BY <1>1 DEF Resumes
  <2> QED
    BY <1>4, <2>1, <2>2 DEF IInv, ProgressHasOwner, IsLoggedCalls, LogoutCalls
<1>8. DashboardHasMember'
  BY <1>1 DEF DashboardHasMember
<1>9. ShownMemberIsSignedIn'
  <2>1. Tells(1)
    BY <1>1, <1>3 DEF Tells, News, Res
  <2> QED
    BY <1>1, <1>2, <2>1, SagaTells
<1> QED
  BY <1>3, <1>5, <1>6, <1>7, <1>8, <1>9 DEF IInv

\* The other steps of login$ end its task and leave the screen alone.
LEMMA LoginEndStep ==
    ASSUME IInv, NEW t \in Tasks,
           OnSignInNobody(t) \/ OnSnapshot(t) \/ OnOnceSwallowed(t) \/ OnLoginFail(t)
    PROVE  IInv'
<1>1. TypeOK /\ ReadsAsMember
  BY DEF IInv
<1>2. PICK c \in LoginCalls :
        /\ UNCHANGED <<running, keychain, current, directory, kills, user, route>>
        /\ Resumes(t, c) /\ Goto(t, "none")
        /\ Res \in Members => c = "once"
        /\ welcome' \in {welcome, WelcomeReducer(welcome, "LOGIN_FAIL")}
        /\ member' \in {member, [member EXCEPT ![t] = NoUser]}
        /\ outbox' = outbox \/ (c = "once" /\ outbox' = Append(outbox, member[t]))
  <2> USE MembersAssumption DEF nativeVars, googleVars, databaseVars, LoginCalls
  <2>1. CASE OnSignInNobody(t)
    BY <2>1 DEF OnSignInNobody
  <2>2. CASE OnSnapshot(t)
    BY <2>2 DEF OnSnapshot
  <2>3. CASE OnOnceSwallowed(t)
    BY <2>3 DEF OnOnceSwallowed
  <2>4. CASE OnLoginFail(t)
    BY <2>4 DEF OnLoginFail
  <2> QED
    BY <2>1, <2>2, <2>3, <2>4
<1>3. c \in Calls /\ c \notin IsLoggedCalls \cup LogoutCalls
  BY DEF Calls, LoginCalls, IsLoggedCalls, LogoutCalls
<1>4. Bridging' /\ bridge' \in Seq(Messages) /\ bridge[1] = Head(bridge) /\ call[bridge[1].task] = c
  BY <1>2, <1>3, SagaBridging
<1>5. /\ call' \in [Tasks -> Calls \cup {"none"}] /\ call'[t] = "none"
      /\ \A u \in Tasks : u # t => call'[u] = call[u]
  BY <1>1, <1>2, OthersStay
<1>6. call[t] = c /\ running
  BY <1>2 DEF Resumes
<1>7. TypeOK'
  <2>1. welcome' \in SUBSET WelcomeFlags
    BY <1>1, <1>2, ReducerType DEF TypeOK
  <2>2. outbox' \in Seq(Members)
    BY <1>1, <1>2, <1>6, AppendProperties, SMTT(30) DEF TypeOK, ReadsAsMember
  <2>3. member' \in [Tasks -> Members \cup {NoUser}]
    BY <1>1, <1>2 DEF TypeOK
  <2> QED
    BY <1>1, <1>2, <1>4, <1>5, <2>1, <2>2, <2>3 DEF TypeOK, Messages
<1>8. ReadsAsMember'
  BY <1>1, <1>2, <1>5 DEF ReadsAsMember, TypeOK
<1>9. ProgressHasOwner'
  <2>1. /\ "isLoggedInProgress" \in welcome' => "isLoggedInProgress" \in welcome
        /\ "logoutInProgress" \in welcome' => "logoutInProgress" \in welcome
    BY <1>2, ReducerFlags
  <2> QED
    BY <1>3, <1>5, <1>6, <2>1 DEF IInv, ProgressHasOwner
<1>10. DashboardHasMember'
  BY <1>2 DEF IInv, DashboardHasMember
<1>11. ShownMemberIsSignedIn'
  <2>1. ~News(1)
    BY <1>2, <1>3, <1>4 DEF News, Res, LogoutCalls
  <2> QED
    BY <1>2, <1>3, <2>1, SagaQuiet
<1> QED
  BY <1>4, <1>7, <1>8, <1>9, <1>10, <1>11 DEF IInv

\* isLogged$ goes on with its next call, or ends without a user.
LEMMA IsLoggedQuietStep ==
    ASSUME IInv, NEW t \in Tasks, NEW c \in IsLoggedCalls, NEW d \in IsLoggedCalls \cup {"none"},
           Resumes(t, c), Goto(t, d), UNCHANGED <<nativeVars, user, route, member>>,
           \/ welcome' = welcome /\ d # "none"
           \/ welcome' = WelcomeReducer(welcome, "IS_LOGGED_SUCCESS")
           \/ welcome' = WelcomeReducer(welcome, "IS_LOGGED_FAIL")
    PROVE  IInv'
<1>1. /\ UNCHANGED <<running, keychain, current, directory, outbox, kills, user, route, member>>
      /\ TypeOK
  BY DEF nativeVars, googleVars, databaseVars, IInv
<1>2. /\ c \in Calls /\ d \in Calls \cup {"none"}
      /\ c \notin LogoutCalls \cup {"signIn", "once"} /\ d \notin {"once"}
  BY DEF Calls, LoginCalls, IsLoggedCalls, LogoutCalls
<1>3. Bridging' /\ bridge' \in Seq(Messages) /\ bridge[1] = Head(bridge) /\ call[bridge[1].task] = c
  BY <1>1, <1>2, SagaBridging
<1>4. /\ call' \in [Tasks -> Calls \cup {"none"}] /\ call'[t] = d
      /\ \A u \in Tasks : u # t => call'[u] = call[u]
  BY <1>1, <1>2, OthersStay
<1>5. TypeOK'
  <2>1. welcome' \in SUBSET WelcomeFlags
    BY <1>1, ReducerType DEF TypeOK
  <2> QED
    BY <1>1, <1>3, <1>4, <2>1 DEF TypeOK, Messages
<1>6. ReadsAsMember' /\ DashboardHasMember'
  BY <1>1, <1>2, <1>4 DEF IInv, ReadsAsMember, DashboardHasMember
<1>7. ProgressHasOwner'
  <2>1. /\ "isLoggedInProgress" \in welcome' => "isLoggedInProgress" \in welcome /\ d # "none"
        /\ "logoutInProgress" \in welcome' => "logoutInProgress" \in welcome
    BY ReducerFlags
  <2>2. call[t] = c /\ running
    BY DEF Resumes
  <2> QED
    BY <1>2, <1>4, <2>1, <2>2 DEF IInv, ProgressHasOwner
<1>8. ShownMemberIsSignedIn'
  <2>1. ~News(1)
    BY <1>2, <1>3 DEF News, LogoutCalls
  <2> QED
    BY <1>1, <1>2, <2>1, SagaQuiet
<1> QED
  BY <1>3, <1>5, <1>6, <1>7, <1>8 DEF IInv

\* isLogged$ shows the member it found.
LEMMA ResumedStep ==
    ASSUME IInv, NEW t \in Tasks, NEW c \in {"getCurrentUser", "signInSilently"},
           Resumes(t, c), Resumed(t), Res # Failed, c = "getCurrentUser" => Res # NoUser
    PROVE  IInv'
<1>1. /\ UNCHANGED <<running, keychain, current, directory, outbox, kills, member>>
      /\ TypeOK /\ Goto(t, "none") /\ user' = Res /\ route' = "Dashboard"
      /\ welcome' = WelcomeReducer(WelcomeReducer(welcome, "IS_LOGGED_SUCCESS"), "IS_LOGGED_SUCCESS")
  BY DEF Resumed, nativeVars, googleVars, databaseVars, IInv
<1>2. c \in Calls /\ c \notin LogoutCalls
  BY DEF Calls, IsLoggedCalls, LogoutCalls
<1>3. /\ Bridging' /\ bridge' \in Seq(Messages) /\ bridge[1] = Head(bridge)
      /\ call[bridge[1].task] = c /\ Head(bridge) \in Messages /\ 1 \in 1..Len(bridge)
  BY <1>1, <1>2, SagaBridging
<1>4. Res \in Members
  <2>1. Res # NoUser
    BY <1>3 DEF IInv, Bridging, SilentKnows, Res
  <2> QED
    BY <1>3, <2>1 DEF Res, Messages
<1>5. /\ call' \in [Tasks -> Calls \cup {"none"}] /\ call'[t] = "none"
      /\ \A u \in Tasks : u # t => call'[u] = call[u]
  BY <1>1, OthersStay
<1>6. TypeOK'
  <2>1. welcome' \in SUBSET WelcomeFlags
    BY <1>1, ReducerType DEF TypeOK
  <2> QED
    BY <1>1, <1>3, <1>4, <1>5, <2>1 DEF TypeOK, Messages
<1>7. ReadsAsMember' /\ DashboardHasMember'
  BY <1>1, <1>4, <1>5 DEF IInv, ReadsAsMember, DashboardHasMember
<1>8. ProgressHasOwner'
  <2>1. /\ "isLoggedInProgress" \notin welcome'
        /\ "logoutInProgress" \in welcome' => "logoutInProgress" \in welcome
    BY <1>1, ReducerFlags
  <2>2. call[t] = c /\ running
    BY DEF Resumes
  <2> QED
    BY <1>2, <1>5, <2>1, <2>2 DEF IInv, ProgressHasOwner
<1>9. ShownMemberIsSignedIn'
  <2>1. Tells(1)
    BY <1>3, <1>4 DEF Tells, Res
  <2> QED
    BY <1>1, <1>2, <2>1, SagaTells
<1> QED
  BY <1>3, <1>6, <1>7, <1>8, <1>9 DEF IInv

\* logout$ leaves the Dashboard, and the screen it mounts owns the new check.
LEMMA OnSignOutStep == ASSUME IInv, NEW t \in Tasks, OnSignOut(t) PROVE IInv'
<1>1. /\ UNCHANGED <<running, keychain, current, directory, outbox, kills, user, member>>
      /\ TypeOK /\ Resumes(t, "signOut") /\ route' = "Welcome"
  BY DEF OnSignOut, nativeVars, googleVars, databaseVars, IInv
<1>2. PICK d \in {"none", "configure"} :
        /\ Goto(t, d)
        /\ d = "none" => welcome' = WelcomeReducer(welcome, "LOGOUT_SUCCESS")
        /\ d = "configure" =>
              welcome' = WelcomeReducer(WelcomeReducer(welcome, "LOGOUT_SUCCESS"), "IS_LOGGED")
  BY DEF OnSignOut
<1>3. "signOut" \in Calls /\ d \in Calls \cup {"none"}
  BY DEF Calls, IsLoggedCalls, LogoutCalls
<1>4. Bridging' /\ bridge' \in Seq(Messages)
  BY <1>1, <1>2, <1>3, SagaBridging
<1>5. /\ call' \in [Tasks -> Calls \cup {"none"}] /\ call'[t] = d
      /\ \A u \in Tasks : u # t => call'[u] = call[u]
  BY <1>1, <1>2, <1>3, OthersStay
<1>6. TypeOK'
  <2>1. welcome' \in SUBSET WelcomeFlags
    BY <1>1, <1>2, ReducerType DEF TypeOK
  <2> QED
    BY <1>1, <1>4, <1>5, <2>1 DEF TypeOK, Messages
<1>7. ReadsAsMember'
  BY <1>1, <1>5 DEF IInv, ReadsAsMember
<1>8. ProgressHasOwner'
  <2>1. /\ "isLoggedInProgress" \in welcome' => d = "configure"
        /\ "logoutInProgress" \notin welcome'
    BY <1>2, ReducerFlags
  <2> QED
    BY <1>5, <2>1 DEF ProgressHasOwner, IsLoggedCalls
<1>9. DashboardHasMember' /\ ShownMemberIsSignedIn'
  BY <1>1 DEF DashboardHasMember, ShownMemberIsSignedIn
<1> QED
  BY <1>4, <1>6, <1>7, <1>8, <1>9 DEF IInv

\* The catch of logout$ clears the flag its task owned.
LEMMA OnLogoutFailStep == ASSUME IInv, NEW t \in Tasks, OnLogoutFail(t) PROVE IInv'
<1>1. /\ UNCHANGED <<running, keychain, current, directory, outbox, kills, user, route, member>>
      /\ TypeOK /\ Resumes(t, "signOut") /\ Goto(t, "none") /\ Res = Failed
      /\ welcome' = WelcomeReducer(welcome, "LOGOUT_FAIL")
  BY DEF OnLogoutFail, nativeVars, googleVars, databaseVars, IInv
<1>2. "signOut" \in Calls
  BY DEF Calls, LogoutCalls
<1>3. Bridging' /\ bridge' \in Seq(Messages) /\ bridge[1] = Head(bridge) /\ call[bridge[1].task] = "signOut"
  BY <1>1, <1>2, SagaBridging
<1>4. /\ call' \in [Tasks -> Calls \cup {"none"}] /\ call'[t] = "none"
      /\ \A u \in Tasks : u # t => call'[u] = call[u]
  BY <1>1, OthersStay
<1>5. TypeOK'
  <2>1. welcome' \in SUBSET WelcomeFlags
    BY <1>1, ReducerType DEF TypeOK
  <2> QED
    BY <1>1, <1>3, <1>4, <2>1 DEF TypeOK, Messages
<1>6. ReadsAsMember' /\ DashboardHasMember'
  BY <1>1, <1>4 DEF IInv, ReadsAsMember, DashboardHasMember
<1>7. ProgressHasOwner'
  <2>1. /\ "isLoggedInProgress" \in welcome' => "isLoggedInProgress" \in welcome
        /\ "logoutInProgress" \notin welcome'
    BY <1>1, ReducerFlags
  <2>2. call[t] = "signOut" /\ running
    BY <1>1 DEF Resumes
  <2> QED
    BY <1>4, <2>1, <2>2 DEF IInv, ProgressHasOwner, IsLoggedCalls
<1>8. ShownMemberIsSignedIn'
  <2>1. ~News(1)
    BY <1>1, <1>3 DEF News, Res
  <2> QED
    BY <1>1, <1>2, <2>1, SagaQuiet
<1> QED
  BY <1>3, <1>5, <1>6, <1>7, <1>8 DEF IInv

\* Every step of a saga preserves the invariant.
LEMMA SagaStep == ASSUME IInv, NEW t \in Tasks, Saga(t) PROVE IInv'
<1>1. CASE OnSignIn(t)
  BY <1>1, OnSignInStep
<1>2. CASE OnSignInNobody(t) \/ OnSnapshot(t) \/ OnOnceSwallowed(t) \/ OnLoginFail(t)
  BY <1>2, LoginEndStep
<1>3. CASE OnConfigure(t)
  <2>1. "configure" \in IsLoggedCalls /\ "isSignedIn" \in IsLoggedCalls
    BY DEF IsLoggedCalls
  <2>2. /\ Resumes(t, "configure") /\ Goto(t, "isSignedIn") /\ welcome' = welcome
        /\ UNCHANGED <<nativeVars, user, route, member>>
    BY <1>3 DEF OnConfigure
  <2> QED
    BY <2>1, <2>2, IsLoggedQuietStep
<1>4. CASE OnIsSignedIn(t)
  <2>1. "isSignedIn" \in IsLoggedCalls /\ "getCurrentUser" \in IsLoggedCalls
    BY DEF IsLoggedCalls
  <2>2. Resumes(t, "isSignedIn") /\ UNCHANGED <<nativeVars, user, route, member>>
    BY <1>4 DEF OnIsSignedIn
  <2>3. \/ Goto(t, "none") /\ welcome' = WelcomeReducer(welcome, "IS_LOGGED_SUCCESS")
        \/ Goto(t, "getCurrentUser") /\ welcome' = welcome
    BY <1>4 DEF OnIsSignedIn
  <2> QED
    BY <2>1, <2>2, <2>3, IsLoggedQuietStep
<1>5. CASE OnGetCurrentUser(t)
  <2>1. Resumes(t, "getCurrentUser") /\ Res # Failed
    BY <1>5 DEF OnGetCurrentUser
  <2>2. CASE Res = NoUser
    <3>1. "getCurrentUser" \in IsLoggedCalls /\ "signInSilently" \in IsLoggedCalls
      BY DEF IsLoggedCalls
    <3>2. /\ Goto(t, "signInSilently") /\ welcome' = welcome
          /\ UNCHANGED <<nativeVars, user, route, member>>
      BY <1>5, <2>2 DEF OnGetCurrentUser
    <3> QED
      BY <2>1, <3>1, <3>2, IsLoggedQuietStep
  <2>3. CASE Res # NoUser
    <3>1. Resumed(t)
      BY <1>5, <2>3 DEF OnGetCurrentUser
    <3> QED
      BY <2>1, <2>3, <3>1, ResumedStep
  <2> QED
    BY <2>2, <2>3
<1>6. CASE OnSignInSilently(t)
  <2>1. Resumes(t, "signInSilently") /\ Res # Failed /\ Resumed(t)
    BY <1>6 DEF OnSignInSilently
  <2> QED
    BY <2>1, ResumedStep
<1>7. CASE OnIsLoggedFail(t)
  <2>1. PICK c \in IsLoggedCalls : Resumes(t, c)
    BY <1>7 DEF OnIsLoggedFail
  <2>2. /\ Goto(t, "none") /\ UNCHANGED <<nativeVars, user, route, member>>
        /\ welcome' = WelcomeReducer(welcome, "IS_LOGGED_FAIL")
    BY <1>7 DEF OnIsLoggedFail
  <2> QED
    BY <2>1, <2>2, IsLoggedQuietStep
<1>8. CASE OnSignOut(t)
  BY <1>8, OnSignOutStep
<1>9. CASE OnLogoutFail(t)
  BY <1>9, OnLogoutFailStep
<1> QED
  BY <1>1, <1>2, <1>3, <1>4, <1>5, <1>6, <1>7, <1>8, <1>9 DEF Saga

-----------------------------------------------------------------------------
\* The inductive invariant holds in every reachable state.
THEOREM Invariance == Spec => []IInv
<1>1. Init => IInv
  BY InitIInv
<1>2. IInv /\ [Next]_vars => IInv'
  <2> SUFFICES ASSUME IInv, [Next]_vars
               PROVE  IInv'
    OBVIOUS
  <2>1. ASSUME NEW t \in Tasks, Launch(t) \/ TapLogin(t) \/ TapLogout(t) \/ Native(t) \/ Saga(t)
        PROVE  IInv'
    BY <2>1, LaunchStep, DispatchStep, NativeStep, SagaStep
  <2>2. CASE Kill
    BY <2>2, KillStep
  <2>3. CASE Flush
    BY <2>3, FlushStep
  <2>4. CASE UNCHANGED vars
    BY <2>4, StutterStep
  <2> QED
    BY <2>1, <2>2, <2>3, <2>4 DEF Next
<1> QED
  BY <1>1, <1>2, PTL DEF Spec

\* The state of the app, the sign-in module and the queue of writes stays well formed:
\* in particular only members are ever queued for a record.
THEOREM TypeCorrect == Spec => []TypeOK
<1>1. IInv => TypeOK
  BY DEF IInv
<1> QED
  BY <1>1, Invariance, PTL

\* Neither the spinner nor logoutInProgress outlives the sagas that clear it.
THEOREM ProgressOwned == Spec => []ProgressHasOwner
<1>1. IInv => ProgressHasOwner
  BY DEF IInv
<1> QED
  BY <1>1, Invariance, PTL

\* The Dashboard always has a member.
THEOREM DashboardKnowsMember == Spec => []DashboardHasMember
<1>1. IInv => DashboardHasMember
  BY DEF IInv
<1> QED
  BY <1>1, Invariance, PTL

\* However logins, logouts and checks of the session overlap, and however often the
\* app is killed, the Dashboard shows the signed-in account or news is on its way.
THEOREM ShownMemberSignedIn == Spec => []ShownMemberIsSignedIn
<1>1. IInv => ShownMemberIsSignedIn
  BY DEF IInv
<1> QED
  BY <1>1, Invariance, PTL
=============================================================================
