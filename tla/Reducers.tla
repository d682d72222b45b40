------------------------------ MODULE Reducers ------------------------------
(***************************************************************************)
(* The reducers of the store, state/welcome/reducer.js and                 *)
(* state/portal/reducer.js.  A slice is the set of its flags that are      *)
(* true; a flag that is false or was never set is not in the set.  The     *)
(* payload of an action, which the reducers spread into the slice, is kept *)
(* by the modules that dispatch the action.                                *)
(***************************************************************************)

WelcomeFlags ==
    { "loginInProgress", "loginFail", "isLogged", "isLoggedInProgress",
      "isLoggedFail", "logoutInProgress", "logoutFail" }

PortalFlags == { "redirectInProgress", "redirectFail" }

\* Both slices start with every flag false.
InitialState == {}

\* handleActions of the welcome slice.  IS_LOGGED stores its payload, an object, as
\* isLogged; LOGOUT_SUCCESS also ends a check of the session.
WelcomeReducer(w, type) ==
    CASE type = "LOGIN"             -> w \cup {"loginInProgress"}
      [] type = "LOGIN_FAIL"        -> (w \ {"loginInProgress"}) \cup {"loginFail"}
      [] type = "LOGIN_SUCCESS"     -> w \ {"loginInProgress", "loginFail"}
      [] type = "IS_LOGGED"         -> w \cup {"isLogged", "isLoggedInProgress"}
      [] type = "IS_LOGGED_FAIL"    -> (w \ {"isLoggedInProgress"}) \cup {"isLoggedFail"}
      [] type = "IS_LOGGED_SUCCESS" -> w \ {"isLoggedInProgress", "isLoggedFail"}
      [] type = "LOGOUT"            -> w \cup {"logoutInProgress"}
      [] type = "LOGOUT_FAIL"       -> (w \ {"logoutInProgress"}) \cup {"logoutFail"}
      [] type = "LOGOUT_SUCCESS"    -> w \ {"logoutInProgress", "isLoggedInProgress", "logoutFail"}

\* handleActions of the portal slice: the success sets redirectFail, the failure
\* clears it.
PortalReducer(p, type) ==
    CASE type = "ECD_REDIRECT"         -> p \cup {"redirectInProgress"}
      [] type = "ECD_REDIRECT_SUCCESS" -> (p \ {"redirectInProgress"}) \cup {"redirectFail"}
      [] type = "ECD_REDIRECT_FAIL"    -> p \ {"redirectInProgress", "redirectFail"}
=============================================================================
