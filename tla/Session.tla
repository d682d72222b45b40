------------------------------ MODULE Session ------------------------------
(***************************************************************************)
(* Signing in and out: the sagas of state/welcome/saga.js, the welcome     *)
(* slice of the store, the switch navigator, and what they drive: the      *)
(* Google sign-in module, the member directory in Firebase, and the        *)
(* operating system, which may kill the app and keeps what is persistent.  *)
(*                                                                         *)
(* JavaScript runs one task at a time.  A saga runs without interruption   *)
(* from one native call it awaits to the next, so its position is that     *)
(* call; takeEvery forks a task for each action, so several run at once.   *)
(* Native code answers calls in any order and its answers reach JavaScript *)
(* through the bridge, first in, first out.                                *)
(***************************************************************************)
EXTENDS Naturals, Sequences, FiniteSets, Reducers

CONSTANTS
    Members,   \* the Google accounts
    NoUser,    \* no account: the store's initial user, a null answer
    Failed,    \* a rejected promise
    Tasks,     \* the slots for saga tasks, the bound on concurrent ones
    MaxOutbox, \* bound on writes to the directory queued or about to be
    MaxKills   \* bound on kills of the app

ASSUME MembersAssumption == NoUser \notin Members /\ Failed \notin Members \cup {NoUser}

VARIABLES
    running,   \* the app's process exists
    welcome,   \* the welcome slice: its flags
    user,      \* the welcome slice: its user
    route,     \* the active route of the switch navigator
    call,      \* the native call each task awaits
    member,    \* the user local to a login$ task
    bridge,    \* answers on their way to JavaScript
    keychain,  \* the signed-in account on the device
    current,   \* the sign-in module's current user, in memory
    directory, \* the members with a record under /users on the server
    outbox,    \* writes of /users the server has not got, kept on the device
    kills      \* how often the app was killed

appVars == <<welcome, user, route, call, member>>
googleVars == <<keychain, current>>
databaseVars == <<directory, outbox>>
vars == <<running, appVars, bridge, googleVars, databaseVars, kills>>

LoginCalls == {"signIn", "once"}
IsLoggedCalls == {"configure", "isSignedIn", "getCurrentUser", "signInSilently"}
LogoutCalls == {"signOut"}
Calls == LoginCalls \cup IsLoggedCalls \cup LogoutCalls

Idle(t) == call[t] = "none"
Answered(t) == \E i \in 1..Len(bridge) : bridge[i].task = t

\* The tasks of login$, each of which may still write the directory.
LoginTasks == {t \in Tasks : call[t] \in LoginCalls}

\* Before the first launch any account may be signed in and any member recorded.
Init ==
    /\ running = FALSE
    /\ welcome = InitialState
    /\ user = NoUser
    /\ route = "Welcome"
    /\ call = [t \in Tasks |-> "none"]
    /\ member = [t \in Tasks |-> NoUser]
    /\ bridge = <<>>
    /\ keychain \in Members \cup {NoUser}
    /\ current = NoUser
    /\ directory \in SUBSET Members
    /\ outbox = <<>>
    /\ kills = 0

-----------------------------------------------------------------------------
\* The process, the screens and their buttons.

\* A store with its initial state and the Welcome route, whose screen dispatches
\* IS_LOGGED when it mounts.
Launch(t) ==
    /\ ~running
    /\ running' = TRUE
    /\ welcome' = WelcomeReducer(InitialState, "IS_LOGGED")
    /\ user' = NoUser
    /\ route' = "Welcome"
    /\ call' = [call EXCEPT ![t] = "configure"]
    /\ UNCHANGED <<member, bridge, googleVars, databaseVars, kills>>

\* Mutant: the database is not persistent.
KillDropsWrites ==
    /\ running
    /\ kills < MaxKills
    /\ kills' = kills + 1
    /\ running' = FALSE
    /\ call' = [t \in Tasks |-> "none"]
    /\ member' = [t \in Tasks |-> NoUser]
    /\ bridge' = <<>>
    /\ current' = NoUser
    /\ outbox' = <<>>
    /\ UNCHANGED <<welcome, user, route, keychain, directory>>

\* Everything in memory is lost; the account and the queued writes are on the device.
Kill ==
    /\ running
    /\ kills < MaxKills
    /\ kills' = kills + 1
    /\ running' = FALSE
    /\ call' = [t \in Tasks |-> "none"]
    /\ member' = [t \in Tasks |-> NoUser]
    /\ bridge' = <<>>
    /\ current' = NoUser
    /\ UNCHANGED <<welcome, user, route, keychain, databaseVars>>

\* takeEvery: the dispatched action is reduced and forks a task in a free slot.
Dispatch(t, type, firstCall) ==
    /\ running
    /\ Idle(t)
    /\ welcome' = WelcomeReducer(welcome, type)
    /\ call' = [call EXCEPT ![t] = firstCall]
    /\ UNCHANGED <<running, user, route, member, bridge, googleVars, databaseVars, kills>>

\* The Google button, hidden while the spinner shows.  Nothing disables it while
\* another login$ is in progress.
TapLogin(t) ==
    /\ route = "Welcome"
    /\ "isLoggedInProgress" \notin welcome
    /\ Cardinality(LoginTasks) + Len(outbox) < MaxOutbox
    /\ Dispatch(t, "LOGIN", "signIn")

\* Sign out on the Dashboard.
TapLogout(t) ==
    /\ route = "Dashboard"
    /\ Dispatch(t, "LOGOUT", "signOut")

-----------------------------------------------------------------------------
\* Native code: each step takes effect and posts its answer to the bridge.

Awaits(t, c) == running /\ call[t] = c /\ ~Answered(t)

Answer(t, res) ==
    /\ bridge' = Append(bridge, [task |-> t, res |-> res])
    /\ UNCHANGED <<running, appVars, databaseVars, kills>>

\* GoogleSignin.signIn: the member picked an account.
SignIn(t, m) ==
    /\ Awaits(t, "signIn")
    /\ keychain' = m
    /\ current' = m
    /\ Answer(t, m)

\* GoogleSignin.signIn answers without a user.
SignInNobody(t) ==
    /\ Awaits(t, "signIn")
    /\ Answer(t, NoUser)
    /\ UNCHANGED googleVars

Configure(t) ==
    /\ Awaits(t, "configure")
    /\ Answer(t, NoUser)
    /\ UNCHANGED googleVars

\* GoogleSignin.isSignedIn: whether the device has an account, here which one.
IsSignedIn(t) ==
    /\ Awaits(t, "isSignedIn")
    /\ Answer(t, keychain)
    /\ UNCHANGED googleVars

\* GoogleSignin.getCurrentUser: null until something signed in since the launch.
GetCurrentUser(t) ==
    /\ Awaits(t, "getCurrentUser")
    /\ Answer(t, current)
    /\ UNCHANGED googleVars

SignInSilently(t) ==
    /\ Awaits(t, "signInSilently")
    /\ keychain # NoUser
    /\ current' = keychain
    /\ Answer(t, keychain)
    /\ UNCHANGED keychain

SignOut(t) ==
    /\ Awaits(t, "signOut")
    /\ keychain' = NoUser
    /\ current' = NoUser
    /\ Answer(t, NoUser)

\* The directory as this device sees it: the last queued write hides the rest.
View == IF outbox = <<>> THEN directory ELSE {outbox[Len(outbox)]}

\* once('value') at the member's record.
Once(t) ==
    /\ Awaits(t, "once")
    /\ Answer(t, IF member[t] \in View THEN member[t] ELSE NoUser)
    /\ UNCHANGED googleVars

\* Any of the calls fails.
Reject(t) ==
    /\ running
    /\ ~Idle(t)
    /\ ~Answered(t)
    /\ Answer(t, Failed)
    /\ UNCHANGED googleVars

\* The oldest queued set of /users reaches the server, and replaces the directory.
Flush ==
    /\ running
    /\ outbox # <<>>
    /\ directory' = {Head(outbox)}
    /\ outbox' = Tail(outbox)
    /\ UNCHANGED <<running, appVars, bridge, googleVars, kills>>

-----------------------------------------------------------------------------
\* The sagas: the oldest answer on the bridge resumes the task that awaits it.

Resumes(t, c) ==
    /\ running
    /\ bridge # <<>>
    /\ Head(bridge).task = t
    /\ call[t] = c
    /\ bridge' = Tail(bridge)

Res == Head(bridge).res

\* The task awaits its next call, or ends with "none".
Goto(t, c) == call' = [call EXCEPT ![t] = c]

nativeVars == <<running, googleVars, databaseVars, kills>>

\* login$ after signIn: LOGIN_SUCCESS with the user, Dashboard, then the record.
OnSignIn(t) ==
    /\ Resumes(t, "signIn")
    /\ Res \in Members
    /\ welcome' = WelcomeReducer(welcome, "LOGIN_SUCCESS")
    /\ user' = Res
    /\ route' = "Dashboard"
    /\ member' = [member EXCEPT ![t] = Res]
    /\ Goto(t, "once")
    /\ UNCHANGED nativeVars

\* login$ without a user ends, and leaves loginInProgress as it is.
OnSignInNobody(t) ==
    /\ Resumes(t, "signIn")
    /\ Res = NoUser
    /\ Goto(t, "none")
    /\ UNCHANGED <<nativeVars, welcome, user, route, member>>

\* login$ after once: a member without a record gets one, by a set of /users.
OnSnapshot(t) ==
    /\ Resumes(t, "once")
    /\ Res # Failed
    /\ outbox' = IF Res = NoUser THEN Append(outbox, member[t]) ELSE outbox
    /\ member' = [member EXCEPT ![t] = NoUser]
    /\ Goto(t, "none")
    /\ UNCHANGED <<running, welcome, user, route, googleVars, directory, kills>>

\* once failed and its error callback took the error: login$ just ends.
OnOnceSwallowed(t) ==
    /\ Resumes(t, "once")
    /\ Res = Failed
    /\ member' = [member EXCEPT ![t] = NoUser]
    /\ Goto(t, "none")
    /\ UNCHANGED <<nativeVars, welcome, user, route>>

\* The catch of login$, around signIn and around once.
OnLoginFail(t) ==
    /\ \E c \in LoginCalls : Resumes(t, c)
    /\ Res = Failed
    /\ welcome' = WelcomeReducer(welcome, "LOGIN_FAIL")
    /\ member' = [member EXCEPT ![t] = NoUser]
    /\ Goto(t, "none")
    /\ UNCHANGED <<nativeVars, user, route>>

OnConfigure(t) ==
    /\ Resumes(t, "configure")
    /\ Res # Failed
    /\ Goto(t, "isSignedIn")
    /\ UNCHANGED <<nativeVars, welcome, user, route, member>>

\* Mutant: isLogged$ only ends the check when somebody is signed in.
OnIsSignedInForgets(t) ==
    /\ Resumes(t, "isSignedIn")
    /\ Res # Failed
    /\ IF Res = NoUser
         THEN /\ Goto(t, "none")
              /\ UNCHANGED welcome
         ELSE /\ Goto(t, "getCurrentUser")
              /\ UNCHANGED welcome
    /\ UNCHANGED <<nativeVars, user, route, member>>

\* isLogged$ after isSignedIn: nobody is signed in and the check ends, or it goes on.
OnIsSignedIn(t) ==
    /\ Resumes(t, "isSignedIn")
    /\ Res # Failed
    /\ IF Res = NoUser
         THEN /\ welcome' = WelcomeReducer(welcome, "IS_LOGGED_SUCCESS")
              /\ Goto(t, "none")
         ELSE /\ Goto(t, "getCurrentUser")
              /\ UNCHANGED welcome
    /\ UNCHANGED <<nativeVars, user, route, member>>

\* isLogged$ knows the user: IS_LOGGED_SUCCESS, Dashboard, IS_LOGGED_SUCCESS again.
Resumed(t) ==
    /\ welcome' = WelcomeReducer(WelcomeReducer(welcome, "IS_LOGGED_SUCCESS"), "IS_LOGGED_SUCCESS")
    /\ user' = Res
    /\ route' = "Dashboard"
    /\ Goto(t, "none")
    /\ UNCHANGED <<nativeVars, member>>

\* Mutant: a null current user is not told from a member.
OnGetCurrentUserNull(t) ==
    /\ Resumes(t, "getCurrentUser")
    /\ Res # Failed
    /\ Resumed(t)

\* isLogged$ after getCurrentUser: null means the session is restored silently.
OnGetCurrentUser(t) ==
    /\ Resumes(t, "getCurrentUser")
    /\ Res # Failed
    /\ IF Res = NoUser
         THEN /\ Goto(t, "signInSilently")
              /\ UNCHANGED <<nativeVars, welcome, user, route, member>>
         ELSE Resumed(t)

\* Mutant: the restored session is not shown.
OnSignInSilentlyStays(t) ==
    /\ Resumes(t, "signInSilently")
    /\ Res # Failed
    /\ welcome' = WelcomeReducer(welcome, "IS_LOGGED_SUCCESS")
    /\ user' = Res
    /\ Goto(t, "none")
    /\ UNCHANGED <<nativeVars, route, member>>

\* isLogged$ after signInSilently.
OnSignInSilently(t) ==
    /\ Resumes(t, "signInSilently")
    /\ Res # Failed
    /\ Resumed(t)

\* Mutant: isLogged$ gives up without saying so.
OnIsLoggedFailSilent(t) ==
    /\ \E c \in IsLoggedCalls : Resumes(t, c)
    /\ Res = Failed
    /\ Goto(t, "none")
    /\ UNCHANGED <<nativeVars, welcome, user, route, member>>

\* The catch of isLogged$.
OnIsLoggedFail(t) ==
    /\ \E c \in IsLoggedCalls : Resumes(t, c)
    /\ Res = Failed
    /\ welcome' = WelcomeReducer(welcome, "IS_LOGGED_FAIL")
    /\ Goto(t, "none")
    /\ UNCHANGED <<nativeVars, user, route, member>>

\* Mutant: logout$ stays where it is.
OnSignOutStays(t) ==
    /\ Resumes(t, "signOut")
    /\ Res # Failed
    /\ welcome' = WelcomeReducer(welcome, "LOGOUT_SUCCESS")
    /\ Goto(t, "none")
    /\ UNCHANGED <<nativeVars, user, route, member>>

\* logout$ after signOut: LOGOUT_SUCCESS, then Welcome.  Coming from the Dashboard
\* this mounts the Welcome screen, which dispatches IS_LOGGED; its task takes over
\* the slot of the one that ends.
OnSignOut(t) ==
    /\ Resumes(t, "signOut")
    /\ Res # Failed
    /\ LET signedOut == WelcomeReducer(welcome, "LOGOUT_SUCCESS")
       IN  IF route = "Welcome"
             THEN /\ welcome' = signedOut
                  /\ Goto(t, "none")
             ELSE /\ welcome' = WelcomeReducer(signedOut, "IS_LOGGED")
                  /\ Goto(t, "configure")
    /\ route' = "Welcome"
    /\ UNCHANGED <<nativeVars, user, member>>

\* The catch of logout$.
OnLogoutFail(t) ==
    /\ Resumes(t, "signOut")
    /\ Res = Failed
    /\ welcome' = WelcomeReducer(welcome, "LOGOUT_FAIL")
    /\ Goto(t, "none")
    /\ UNCHANGED <<nativeVars, user, route, member>>

-----------------------------------------------------------------------------
Native(t) ==
    \/ \E m \in Members : SignIn(t, m)
    \/ SignInNobody(t)
    \/ Configure(t)
    \/ IsSignedIn(t)
    \/ GetCurrentUser(t)
    \/ SignInSilently(t)
    \/ SignOut(t)
    \/ Once(t)
    \/ Reject(t)

Saga(t) ==
    \/ OnSignIn(t)
    \/ OnSignInNobody(t)
    \/ OnSnapshot(t)
    \/ OnOnceSwallowed(t)
    \/ OnLoginFail(t)
    \/ OnConfigure(t)
    \/ OnIsSignedIn(t)
    \/ OnGetCurrentUser(t)
    \/ OnSignInSilently(t)
    \/ OnIsLoggedFail(t)
    \/ OnSignOut(t)
    \/ OnLogoutFail(t)

Next ==
    \/ \E t \in Tasks : Launch(t) \/ TapLogin(t) \/ TapLogout(t) \/ Native(t) \/ Saga(t)
    \/ Kill
    \/ Flush

\* The event loop takes what the bridge holds; the calls of isLogged$ and logout$ are
\* answered, while a member may look at the account picker forever and once may wait
\* for a connection; the database client keeps sending what it has queued.
Fairness ==
    /\ WF_vars(\E t \in Tasks : Saga(t))
    /\ \A t \in Tasks : WF_vars(call[t] \in IsLoggedCalls \cup LogoutCalls /\ Native(t))
    /\ WF_vars(Flush)

Spec == Init /\ [][Next]_vars /\ Fairness

-----------------------------------------------------------------------------
\* Properties.

\* The values the state can take.
TypeOK ==
    /\ running \in BOOLEAN
    /\ welcome \in SUBSET WelcomeFlags
    /\ user \in Members \cup {NoUser}
    /\ route \in {"Welcome", "Dashboard"}
    /\ call \in [Tasks -> Calls \cup {"none"}]
    /\ member \in [Tasks -> Members \cup {NoUser}]
    /\ bridge \in Seq([task : Tasks, res : Members \cup {NoUser, Failed}])
    /\ keychain \in Members \cup {NoUser}
    /\ current \in Members \cup {NoUser}
    /\ directory \in SUBSET Members
    /\ outbox \in Seq(Members)
    /\ kills \in Nat

\* A progress flag of the store belongs to a saga that will clear it: the spinner
\* shows only while an isLogged$ is in flight, logoutInProgress only while a logout$
\* is, however the tasks of several taps overlap.
ProgressHasOwner ==
    running =>
        /\ "isLoggedInProgress" \in welcome => \E t \in Tasks : call[t] \in IsLoggedCalls
        /\ "logoutInProgress" \in welcome => \E t \in Tasks : call[t] \in LogoutCalls

\* The Dashboard, which reads user.name and hands user to ecdRedirect$, never shows
\* without a member.
DashboardHasMember == route = "Dashboard" => user \in Members

\* The i-th answer on the bridge tells JavaScript of a change of the session.
News(i) ==
    \/ call[bridge[i].task] = "signIn" /\ bridge[i].res \in Members
    \/ call[bridge[i].task] = "signOut" /\ bridge[i].res # Failed

\* The member on the Dashboard is the one the device is signed in as, unless the
\* answer of a later signIn or signOut is still on the bridge: overlapping login$,
\* isLogged$ and logout$ tasks never leave an old account on the screen.
ShownMemberIsSignedIn ==
    running /\ route = "Dashboard" /\ (\A i \in 1..Len(bridge) : ~News(i)) => user = keychain

\* The spinner of the Welcome screen goes away, whatever fails.
SpinnerStops ==
    running /\ "isLoggedInProgress" \in welcome
        ~> ~running \/ "isLoggedInProgress" \notin welcome

\* A member who is signed in when the app checks gets to the Dashboard without
\* signing in again, or the check reports a failure.
ResumeOrReport ==
    running /\ "isLoggedInProgress" \in welcome /\ keychain # NoUser
        ~> ~running \/ route = "Dashboard" \/ "isLoggedFail" \in welcome

\* The record of a first login reaches the server although the app may be killed
\* before it did, as long as the app is started again.
QueuedRecordArrives ==
    \A m \in Members :
        []<>running => (\E i \in 1..Len(outbox) : outbox[i] = m) ~> m \in directory
=============================================================================
