------------------------------- MODULE Session -------------------------------
(***************************************************************************)
(* The session of one browser tab (ultimotls.js): the login form, the      *)
(* cookies that keep the user logged in, the Authorization header of every *)
(* call, the environment of the queries, and the calls whose answers       *)
(* change them, in whatever order they arrive.                             *)
(*                                                                         *)
(* Credentials are a record: the user name they carry and the user whose   *)
(* password or token they carry.  An environment is its name; the cookie   *)
(* "envid" holds an object, of which the code compares the name only after *)
(* a login by the form.                                                    *)
(***************************************************************************)
EXTENDS Naturals, FiniteSets

CONSTANTS
  User, Admin,    \* the users, and those with the role "admins"
  Env, EnvSetup,  \* the environments, and those that are set up
  Prod,           \* the environment queryEnv starts with
  Slot,           \* bound: calls under way at a time
  None

VARIABLES
  page,        \* the state shown: "login" or "app"
  bar,         \* treemapSaver.showNav: the navigation bar is shown, above any page
  form,        \* $scope.cred of the login page
  auth,        \* the Authorization header
  creds, showNav, name, envid,   \* the cookies
  nameSaver, username, loginEnv, environmentBiPass,  \* in treemapSaver
  env,         \* the environment queryEnv holds
  call,        \* call[s]: a call without an answer, or None
  \* History.
  typed,       \* whether the form was changed while a login was under way
  loggedOut,   \* whether the user logged out with no login under way, and did
               \* not press login since
  crossed,     \* whether, while one was under way, login was pressed or the page left
  askedEnv,    \* the environment the user pressed login with, or Restored
  envLogout    \* that environment, when its check logged the user out

cookies == <<creds, showNav, name, envid>>
saver == <<nameSaver, username, loginEnv, environmentBiPass>>
history == <<typed, loggedOut, crossed, askedEnv, envLogout>>
vars == <<page, bar, form, auth, cookies, saver, env, call, history>>

Credentials(u, v) == [name |-> u, of |-> v]
Restored == "restored"    \* treemapSaver.envid after a restored session: an object
Blank == [user |-> None, env |-> Prod]

Waiting(kind) == {s \in Slot : call[s] # None /\ call[s].kind = kind}

\* The calls after one more was sent, and after the login page was left: the form
\* that its login calls read stays as it was.
Sending(calls, c) ==
  {[calls EXCEPT ![s] = c] : s \in {t \in Slot : calls[t] = None}}
Frozen ==
  [s \in Slot |-> IF s \in Waiting("login") /\ call[s].form = None
                  THEN [call[s] EXCEPT !.form = form]
                  ELSE call[s]]
Remaining == IF page = "login" THEN Frozen ELSE call
Checks == Waiting("login") \cup Waiting("restore")
Crossing(s) == page = "login" /\ Checks \ {s} # {}
Without(calls, s) == [t \in Slot |-> IF t = s THEN None ELSE calls[t]]
Answered(s) == Without(call, s)

-----------------------------------------------------------------------------
\* A new tab without cookies.
Init ==
  /\ page = "login" /\ bar = FALSE /\ form = Blank
  /\ auth = None /\ creds = None /\ showNav = FALSE /\ name = None /\ envid = None
  /\ nameSaver = None /\ username = None /\ loginEnv = None /\ environmentBiPass = FALSE
  /\ env = Prod /\ call = [s \in Slot |-> None]
  /\ typed = FALSE /\ loggedOut = FALSE /\ crossed = FALSE
  /\ askedEnv = None /\ envLogout = None

\* A mutation of ClearCookies: the credentials stay.
ClearButCredentials == creds' = creds /\ showNav' = FALSE /\ name' = None /\ envid' = None

\* logoutService.logout: the cookies and the header go, the login page is shown.
ClearCookies == creds' = None /\ showNav' = FALSE /\ name' = None /\ envid' = None
DoLogout ==
  /\ ClearCookies /\ auth' = None
  /\ page' = "login" /\ bar' = FALSE
  /\ form' = IF page = "login" THEN form ELSE Blank

\* The controller of the login page: a session the cookies tell of is checked.
\* Its calls are those left in "calls" and, then, the one that checks.
LoginController(calls) ==
  call' \in IF showNav THEN Sending(calls, [kind |-> "restore", user |-> name]) ELSE {calls}

\* $stateChangeStart: only with credentials is a state entered; they become the
\* header.  ToLogin and ToApp enter a state, after the calls of the page so far.
LoggedIn == creds # None /\ showNav

\* A mutation of ToApp: the header is left as it is.
ToAppBare ==
  IF LoggedIn
  THEN page' = "app" /\ bar' = TRUE /\ form' = Blank /\ UNCHANGED <<auth, cookies>>
  ELSE DoLogout

ToApp ==
  IF LoggedIn
  THEN page' = "app" /\ bar' = TRUE /\ form' = Blank /\ auth' = creds /\ UNCHANGED cookies
  ELSE DoLogout
ToLogin(calls) ==
  /\ IF LoggedIn THEN auth' = creds /\ UNCHANGED cookies ELSE auth' = None /\ ClearCookies
  /\ page' = "login" /\ bar' = LoggedIn /\ form' = Blank
  /\ IF LoggedIn THEN LoginController(calls) ELSE call' = calls

-----------------------------------------------------------------------------
(* The login page.                                                         *)

Type ==
  /\ page = "login"
  /\ form' \in [user : User, env : Env]
  /\ typed' = (typed \/ Checks # {})
  /\ UNCHANGED <<page, bar, auth, cookies, saver, env, call, loggedOut, crossed,
                 askedEnv, envLogout>>

\* A mutation of Login: the name of who replays is not kept.
LoginUnsaved ==
  /\ page = "login" /\ form.user # None
  /\ auth' = Credentials(form.user, form.user)
  /\ call' \in Sending(call, [kind |-> "login", user |-> form.user, env |-> form.env, form |-> None])
  /\ loggedOut' = FALSE
  /\ crossed' = (crossed \/ Checks # {})
  /\ UNCHANGED <<page, bar, form, cookies, nameSaver, username, loginEnv,
                 environmentBiPass, env, typed, askedEnv, envLogout>>

Login ==
  /\ page = "login" /\ form.user # None
  /\ nameSaver' = form.user
  /\ auth' = Credentials(form.user, form.user)
  /\ call' \in Sending(call, [kind |-> "login", user |-> form.user, env |-> form.env, form |-> None])
  /\ loggedOut' = FALSE
  /\ crossed' = (crossed \/ Checks # {})
  /\ UNCHANGED <<page, bar, form, cookies, username, loginEnv, environmentBiPass, env,
                 typed, askedEnv, envLogout>>

\* performedLogin: the environments are asked for.
PerformedLogin(calls) == call' \in Sending(calls, [kind |-> "options"])

\* What the answer to a login reads: the form as it is by now.
Form(s) == IF call[s].form = None THEN form ELSE call[s].form
\* A mutation of Identity: the name treemapSaver had before this login.
IdentitySaved(s) == Credentials(username, call[s].user)
Identity(s) == Credentials(Form(s).user, call[s].user)

\* The login succeeded.
LoginAnswer(s) ==
  /\ s \in Waiting("login")
  /\ LET f == Form(s) IN name' = f.user /\ username' = f.user /\ loginEnv' = f.env
  /\ showNav' = TRUE /\ creds' = Identity(s) /\ auth' = Identity(s)
  /\ environmentBiPass' = (call[s].user \in Admin)
  /\ crossed' = (crossed \/ Crossing(s))
  /\ page' = "app" /\ bar' = TRUE
  /\ PerformedLogin(Without(Remaining, s))
  /\ form' = Blank
  /\ askedEnv' = call[s].env /\ envLogout' = None
  /\ UNCHANGED <<envid, nameSaver, env, typed, loggedOut>>

\* Refused, failed or timed out.
LoginFails(s) ==
  /\ s \in Waiting("login")
  /\ ClearCookies /\ auth' = None
  /\ call' = Answered(s)
  /\ UNCHANGED <<page, bar, form, saver, env, history>>

RestoreAnswer(s) ==
  /\ s \in Waiting("restore")
  /\ username' = call[s].user /\ loginEnv' = Restored
  /\ environmentBiPass' = (environmentBiPass \/ call[s].user \in Admin)
  /\ PerformedLogin(Without(IF LoggedIn THEN Remaining ELSE call, s))
  /\ ToApp
  /\ askedEnv' = Restored /\ envLogout' = None
  /\ crossed' = (crossed \/ (LoggedIn /\ Crossing(s)))
  /\ UNCHANGED <<nameSaver, env, typed, loggedOut>>

\* Calls without a handler for failures: the check of a session, the environments.
CallFails(s) ==
  /\ s \in Waiting("restore") \cup Waiting("options")
  /\ call' = Answered(s)
  /\ UNCHANGED <<page, bar, form, auth, cookies, saver, env, history>>

-----------------------------------------------------------------------------
(* The environments, and the bar on top of every page.                     *)

\* setEnvironment
SetEnv(e) == envid' = e /\ env' = e

\* A mutation of LoginEnvSetUp: the cookie is looked up instead.
CookieSetUp == envid \in EnvSetup
LoginEnvSetUp == loginEnv \in EnvSetup

\* The handler of "performedLogin" gets the environments that are set up.
OptionsAnswer(s) ==
  /\ s \in Waiting("options")
  /\ call' = Answered(s)
  /\ name' = username
  /\ IF LoginEnvSetUp
     THEN /\ SetEnv(loginEnv)
          /\ UNCHANGED <<page, bar, form, auth, creds, showNav, envLogout>>
     ELSE IF environmentBiPass
     THEN UNCHANGED <<page, bar, form, auth, creds, showNav, envid, env, envLogout>>
     ELSE /\ creds' = None /\ showNav' = FALSE /\ envid' = None /\ auth' = None
          /\ page' = "login" /\ bar' = FALSE
          /\ form' = IF page = "login" THEN form ELSE Blank
          /\ envLogout' = askedEnv
          /\ UNCHANGED env
  /\ UNCHANGED <<saver, typed, loggedOut, crossed, askedEnv>>

SetEnvironment ==
  /\ bar
  /\ \E e \in EnvSetup : SetEnv(e)
  /\ UNCHANGED <<page, bar, form, auth, creds, showNav, name, saver, call, history>>

\* The bar is there on the login page too, of a user who came back to it.
Logout ==
  /\ bar
  /\ DoLogout
  /\ loggedOut' = (Waiting("login") = {})
  /\ UNCHANGED <<saver, env, call, typed, crossed, askedEnv, envLogout>>

\* A call of any page is answered 401, now or after its page was left.
Unauthorized ==
  /\ DoLogout
  /\ UNCHANGED <<saver, env, call, history>>

-----------------------------------------------------------------------------
(* Navigation.                                                             *)

GoToApp ==
  /\ ToApp
  /\ call' = IF LoggedIn THEN Remaining ELSE call
  /\ crossed' = (crossed \/ (LoggedIn /\ page = "login" /\ Checks # {}))
  /\ UNCHANGED <<saver, env, typed, loggedOut, askedEnv, envLogout>>

GoToLogin ==
  /\ page = "app"
  /\ ToLogin(call)
  /\ UNCHANGED <<saver, env, history>>

\* The page is loaded again: of the program only the cookies remain.
Reload ==
  /\ LET none == [s \in Slot |-> None] IN
     IF page = "login" THEN ToLogin(none) ELSE ToApp /\ call' = none
  /\ nameSaver' = name
  /\ env' = IF envid = None THEN Prod ELSE envid
  /\ username' = None /\ loginEnv' = None /\ environmentBiPass' = FALSE
  /\ UNCHANGED history

\* Cookies set together with the expiry of the token; the name and the
\* environment may have been set again without it.
Expire ==
  /\ creds # None
  /\ creds' = None /\ showNav' = FALSE
  /\ name' \in {name, None} /\ envid' \in {envid, None}
  /\ UNCHANGED <<page, bar, form, auth, saver, env, call, history>>

Next ==
  \/ Type \/ Login
  \/ \E s \in Slot : LoginAnswer(s) \/ LoginFails(s) \/ RestoreAnswer(s)
                    \/ OptionsAnswer(s) \/ CallFails(s)
  \/ SetEnvironment \/ Logout \/ Unauthorized
  \/ GoToApp \/ GoToLogin \/ Reload \/ Expire

Spec == Init /\ [][Next]_vars

-----------------------------------------------------------------------------
Calls ==
  [kind : {"login"}, user : User, env : Env, form : {None} \cup [user : User, env : Env]]
    \cup [kind : {"restore"}, user : User \cup {None}] \cup [kind : {"options"}]

TypeOK ==
  /\ page \in {"login", "app"} /\ bar \in BOOLEAN
  /\ form \in [user : User \cup {None}, env : Env]
  /\ {auth, creds} \subseteq [name : User, of : User] \cup {None}
  /\ showNav \in BOOLEAN
  /\ {name, nameSaver, username} \subseteq User \cup {None}
  /\ envid \in Env \cup {None} /\ {askedEnv, envLogout, loginEnv} \subseteq Env \cup {None, Restored}
  /\ env \in Env /\ environmentBiPass \in BOOLEAN
  /\ call \in [Slot -> Calls \cup {None}]
  /\ typed \in BOOLEAN /\ loggedOut \in BOOLEAN /\ crossed \in BOOLEAN

\* Outside the login page every call carries the credentials the cookie keeps, or
\* the cookie has gone.
HeaderIsCookie == page = "app" /\ creds # None => auth = creds

\* The credentials kept carry the name of the user whose token they are, unless
\* the form was changed while a login call was under way: the answer reads the
\* form (ultimotls.js:89).
IdentityPaired == creds # None => creds.name = creds.of \/ typed

\* Who logged out while no login was under way stays so until login is pressed
\* again, whatever checks of a session, environments or refusals are still to be
\* answered.  A login under way logs in again: its answer (ultimotls.js:86-111)
\* sees nothing of the logout.
LoggedOutStays == loggedOut => creds = None

\* The check of the environment logs out nobody who pressed login with one that
\* is set up, unless the form changed; who only came back is logged out.
EnvLogoutJustified ==
  envLogout # None => envLogout = Restored \/ envLogout \notin EnvSetup \/ typed

\* Replays are recorded for the user who sends them (batchValues takes
\* treemapSaver.nameSaver, which login sets before the call), with the same
\* exceptions.
ReplaysNamed == page = "app" /\ creds # None => nameSaver = creds.name \/ typed \/ crossed
-----------------------------------------------------------------------------
(* The inductive invariant.                                                *)

\* A login under way reads what its call sent, in the form or in the copy it keeps
\* once its page was left, unless the form was changed.
FormsKept ==
  \A s \in Waiting("login") :
    /\ call[s].form = None => page = "login" /\ form.user # None
    /\ typed \/ (Form(s).user = call[s].user /\ Form(s).env = call[s].env)

\* Checks that outlived their page, or each other, have crossed.
ChecksCross ==
  /\ page = "app" /\ Checks # {} => crossed
  /\ Waiting("login") # {} /\ Waiting("restore") # {} => crossed
  /\ loggedOut => Waiting("login") = {}

\* The name the credentials carry is in every place it is, or will be, taken from.
NamesPaired ==
  \/ typed \/ crossed
  \/ /\ \A s \in Waiting("login") : nameSaver = call[s].user
     /\ creds # None =>
          /\ name = creds.name
          /\ Waiting("login") = {} => nameSaver = creds.name
          /\ Waiting("options") # {} => username = creds.name
          /\ \A s \in Waiting("restore") : call[s].user = creds.name

\* The environment that will be checked is the one asked for.
EnvAsked == Waiting("options") # {} => loginEnv = askedEnv \/ typed

SessionInv ==
  /\ TypeOK
  /\ HeaderIsCookie /\ IdentityPaired /\ LoggedOutStays /\ EnvLogoutJustified
  /\ FormsKept /\ ChecksCross /\ NamesPaired /\ EnvAsked
=============================================================================
