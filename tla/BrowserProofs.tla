---------------------------- MODULE BrowserProofs ----------------------------
(***************************************************************************)
(* Proofs about the parts of the browser application but the dashboard:    *)
(* the session, the audit page, the settings page with its service, the    *)
(* reports.  A part's invariant is proved of the behaviours that are its   *)
(* own.                                                                    *)
(***************************************************************************)
EXTENDS DashboardProofs, FiniteSetTheorems

-----------------------------------------------------------------------------
(* Session: the types.                                                     *)

SessionForm == [user : User \cup {None}, env : Env]
SessionCreds == [name : User, of : User] \cup {None}
Asked == Env \cup {None, S!Restored}
SessionCalls == [Slot -> S!Calls \cup {None}]

\* The types, one by one, of this state.
LEMMA SessionTypeParts ==
  S!TypeOK <=>
    /\ page \in {"login", "app"} /\ bar \in BOOLEAN /\ form \in SessionForm
    /\ auth \in SessionCreds /\ creds \in SessionCreds /\ showNav \in BOOLEAN /\ name \in User \cup {None}
    /\ nameSaver \in User \cup {None} /\ username \in User \cup {None}
    /\ envid \in Env \cup {None} /\ askedEnv \in Asked /\ envLogout \in Asked /\ loginEnv \in Asked
    /\ env \in Env /\ environmentBiPass \in BOOLEAN /\ call \in SessionCalls
    /\ typed \in BOOLEAN /\ loggedOut \in BOOLEAN /\ crossed \in BOOLEAN
  BY DEF S!TypeOK, SessionForm, SessionCreds, Asked, SessionCalls

\* The same, of the next state.
LEMMA SessionTypeNext ==
  ASSUME page' \in {"login", "app"}, bar' \in BOOLEAN, form' \in SessionForm, auth' \in SessionCreds,
         creds' \in SessionCreds, showNav' \in BOOLEAN, name' \in User \cup {None},
         nameSaver' \in User \cup {None}, username' \in User \cup {None},
         envid' \in Env \cup {None}, askedEnv' \in Asked, envLogout' \in Asked, loginEnv' \in Asked,
         env' \in Env, environmentBiPass' \in BOOLEAN, call' \in SessionCalls,
         typed' \in BOOLEAN, loggedOut' \in BOOLEAN, crossed' \in BOOLEAN
  PROVE  S!TypeOK'
  BY DEF S!TypeOK, SessionForm, SessionCreds, Asked, SessionCalls, S!Calls, S!Restored

\* The fields of a call.
LEMMA CallKinds ==
  ASSUME NEW c \in S!Calls
  PROVE  /\ c.kind \in {"login", "restore", "options"}
         /\ c.kind = "login" =>
              /\ c.user \in User /\ c.env \in Env /\ c.form \in {None} \cup [user : User, env : Env]
              /\ c \in [kind : {"login"}, user : User, env : Env,
                        form : {None} \cup [user : User, env : Env]]
         /\ c.kind = "restore" => c.user \in User \cup {None}
  BY DEF S!Calls

\* What a call under way reads of the form f of its page.
FormOf(c, f) == IF c.form = None THEN f ELSE c.form

\* The form a call reads, in both states.
LEMMA FormViews ==
  ASSUME NEW s
  PROVE  S!Form(s) = FormOf(call[s], form) /\ S!Form(s)' = FormOf(call'[s], form')
  BY DEF S!Form, FormOf

\* When the login page is left its login calls keep the form they read.
LEMMA FrozenCall ==
  ASSUME SessionAssumption, S!TypeOK, S!FormsKept, NEW u \in Slot, NEW r, r = S!Remaining[u]
  PROVE  /\ r \in S!Calls \cup {None}
         /\ r # None => call[u] # None /\ r.kind = call[u].kind
         /\ r # None /\ r.kind = "login" =>
              r.user = call[u].user /\ r.env = call[u].env /\ r.form = S!Form(u) /\ r.form # None
         /\ r # None /\ r.kind # "login" => r = call[u]
  <1>1. call[u] \in S!Calls \cup {None} /\ form \in SessionForm /\ None \notin SessionForm
    BY SessionTypeParts DEF SessionCalls, SessionAssumption, SessionForm
  <1>2. CASE u \in S!Waiting("login") /\ call[u].form = None
    <2>1. page = "login" /\ form.user # None BY <1>2 DEF S!FormsKept
    <2>2. r = [call[u] EXCEPT !.form = form] BY <1>2, <2>1 DEF S!Remaining, S!Frozen
    <2>3. call[u] \in [kind : {"login"}, user : User, env : Env,
                       form : {None} \cup [user : User, env : Env]]
      BY <1>1, <1>2, CallKinds DEF S!Waiting
    <2>4. form \in [user : User, env : Env] BY <1>1, <2>1 DEF SessionForm
    <2>5. /\ r \in [kind : {"login"}, user : User, env : Env,
                    form : {None} \cup [user : User, env : Env]]
          /\ r.form = form /\ r.user = call[u].user /\ r.env = call[u].env /\ r.kind = call[u].kind
      BY <2>2, <2>3, <2>4
    <2>6. S!Form(u) = form BY <1>2 DEF S!Form
    <2> QED BY <1>1, <1>2, <2>3, <2>5, <2>6 DEF S!Calls, S!Waiting
  <1>3. CASE ~(u \in S!Waiting("login") /\ call[u].form = None)
    <2>1. r = call[u] BY <1>3 DEF S!Remaining, S!Frozen
    <2> QED BY <1>1, <1>3, <2>1 DEF S!Waiting, S!Form
  <1> QED BY <1>2, <1>3

-----------------------------------------------------------------------------
(* Session: the calls after a step.                                        *)

\* A call after a step is one from before, which reads the form it read.
SameCall(u) ==
  call'[u] # None =>
    /\ call[u] # None /\ call'[u].kind = call[u].kind
    /\ call[u].kind = "login" =>
         /\ call'[u].user = call[u].user /\ call'[u].env = call[u].env
         /\ FormOf(call'[u], form') = S!Form(u)
         /\ call'[u].form = None => call[u].form = None /\ page' = page /\ form' = form
    /\ call[u].kind = "restore" => call'[u].user = call[u].user

NewCall(u, kind) == call'[u] # None => call'[u].kind = kind

\* Calls that stay, and those that are new and no logins, keep the forms.
LEMMA SameCalls ==
  ASSUME S!TypeOK, S!FormsKept, typed => typed',
         \A u \in Slot : SameCall(u) \/ NewCall(u, "options") \/ NewCall(u, "restore")
  PROVE  /\ S!FormsKept' /\ S!Waiting("login")' \subseteq S!Waiting("login")
         /\ \A u \in S!Waiting("login")' : call'[u].user = call[u].user
  <1>1. ASSUME NEW u \in Slot, call'[u] # None, call'[u].kind = "login"
        PROVE  /\ u \in S!Waiting("login") /\ call'[u].user = call[u].user
               /\ call'[u].form = None => page' = "login" /\ form'.user # None
               /\ typed' \/ (FormOf(call'[u], form').user = call'[u].user /\ FormOf(call'[u], form').env = call'[u].env)
    <2>1. SameCall(u) BY <1>1 DEF NewCall
    <2>2. u \in S!Waiting("login") BY <1>1, <2>1 DEF SameCall, S!Waiting
    <2> QED BY <1>1, <2>1, <2>2 DEF SameCall, S!FormsKept, S!Waiting
  <1>2. \A u : u \in S!Waiting("login")' <=> u \in Slot /\ call'[u] # None /\ call'[u].kind = "login"
    BY DEF S!Waiting
  <1>3. S!FormsKept'
    <2>1. \A u \in S!Waiting("login")' :
            /\ call'[u].form = None => page' = "login" /\ form'.user # None
            /\ typed' \/ (S!Form(u)'.user = call'[u].user /\ S!Form(u)'.env = call'[u].env)
      BY <1>1, <1>2, FormViews
    <2> QED BY <2>1 DEF S!FormsKept
  <1> QED BY <1>1, <1>2, <1>3

\* Which slots wait after the calls of a step.
LEMMA WithoutCall ==
  ASSUME S!TypeOK, NEW s \in Slot
  PROVE  /\ S!Answered(s) \in SessionCalls /\ S!Answered(s)[s] = None
         /\ \A u \in Slot \ {s} : S!Answered(s)[u] = call[u]
  BY SessionTypeParts DEF S!Answered, S!Without, SessionCalls

\* A call that is sent takes a free slot, and the others stay.
LEMMA SentCall ==
  ASSUME NEW list \in SessionCalls, NEW c, call' \in S!Sending(list, c)
  PROVE  /\ \A u \in Slot : call'[u] = list[u] \/ (list[u] = None /\ call'[u] = c)
         /\ \E u \in Slot : list[u] = None /\ call'[u] = c
         /\ c \in S!Calls => call' \in SessionCalls
  BY DEF S!Sending, SessionCalls

\* Calls left by a step that leaves the login page, or stays: without that of s.
LEMMA RemainingCalls ==
  ASSUME SessionAssumption, S!TypeOK, S!FormsKept
  PROVE  /\ S!Remaining \in SessionCalls
         /\ \A s : S!Without(S!Remaining, s) \in SessionCalls
         /\ \A s : S!Without(call, s) \in SessionCalls
  <1>1. \A u \in Slot : S!Remaining[u] \in S!Calls \cup {None} BY FrozenCall
  <1>2. DOMAIN S!Remaining = Slot /\ S!Remaining = [u \in Slot |-> S!Remaining[u]]
    BY SessionTypeParts DEF S!Remaining, S!Frozen, SessionCalls
  <1>3. S!Remaining \in SessionCalls BY <1>1, <1>2 DEF SessionCalls
  <1> QED BY <1>3, SessionTypeParts DEF S!Without, SessionCalls

-----------------------------------------------------------------------------
(* Session: what holds besides the types.                                  *)

SessionFacts ==
  /\ S!HeaderIsCookie /\ S!IdentityPaired /\ S!LoggedOutStays /\ S!EnvLogoutJustified
  /\ S!FormsKept /\ S!ChecksCross /\ S!NamesPaired /\ S!EnvAsked

\* A step that neither sends a login nor takes its answer, and keeps the memory of
\* the page.
LEMMA SessionKeeps ==
  ASSUME SessionFacts, typed => typed', crossed => crossed', nameSaver' = nameSaver,
         creds' \in {creds, None}, page' = "app" /\ creds' # None => auth' = creds',
         S!FormsKept', S!Waiting("login")' \subseteq S!Waiting("login"),
         \A u \in S!Waiting("login")' : call'[u].user = call[u].user,
         \A u \in S!Waiting("restore")' :
           \/ u \in S!Waiting("restore") /\ call'[u].user = call[u].user
           \/ page = "app" /\ page' = "login" /\ call'[u].user = name,
         page' = "app" => page = "app" \/ crossed' \/ S!Checks' = {},
         creds' # None => S!Waiting("login") \subseteq S!Waiting("login")' \/ crossed',
         loggedOut' => loggedOut \/ (creds' = None /\ S!Waiting("login") = {}),
         \/ envLogout' \in {envLogout, None}
         \/ envLogout' = askedEnv /\ S!Waiting("options") # {} /\ loginEnv \notin EnvSetup,
         creds' # None => name' = name \/ (name' = username /\ S!Waiting("options") # {}),
         S!Waiting("options")' # {} =>
           \/ /\ S!Waiting("options") # {}
              /\ username' = username /\ loginEnv' = loginEnv /\ askedEnv' = askedEnv
           \/ /\ loginEnv' = askedEnv'
              /\ \E u \in S!Waiting("restore") : username' = call[u].user
  PROVE  SessionFacts'
  <1> USE DEF SessionFacts
  <1>1. S!HeaderIsCookie' BY DEF S!HeaderIsCookie
  <1>2. S!IdentityPaired' BY DEF S!IdentityPaired
  <1>3. S!LoggedOutStays' BY DEF S!LoggedOutStays
  <1>4. S!EnvLogoutJustified' BY DEF S!EnvLogoutJustified, S!EnvAsked
  <1>5. S!ChecksCross'
    <2>1. page' = "app" /\ S!Checks' # {} => crossed'
      <3>1. CASE page = "app"
        <4>1. S!Checks' # {} /\ page' = "app" => S!Checks # {} \/ crossed'
          BY DEF S!Checks
        <4> QED BY <3>1, <4>1 DEF S!ChecksCross
      <3>2. CASE page # "app" BY <3>2
      <3> QED BY <3>1, <3>2
    <2>2. S!Waiting("login")' # {} /\ S!Waiting("restore")' # {} => crossed'
      BY DEF S!ChecksCross, S!Checks
    <2>3. loggedOut' => S!Waiting("login")' = {} BY DEF S!ChecksCross
    <2> QED BY <2>1, <2>2, <2>3 DEF S!ChecksCross
  <1>6. S!NamesPaired' BY DEF S!NamesPaired
  <1>7. S!EnvAsked' BY DEF S!EnvAsked
  <1> QED BY <1>1, <1>2, <1>3, <1>4, <1>5, <1>6, <1>7

\* The calls that wait, of the next state.
LEMMA WaitingNext ==
  ASSUME NEW u
  PROVE  /\ u \in S!Waiting("login")' <=> u \in Slot /\ call'[u] # None /\ call'[u].kind = "login"
         /\ u \in S!Waiting("restore")' <=> u \in Slot /\ call'[u] # None /\ call'[u].kind = "restore"
         /\ u \in S!Waiting("options")' <=> u \in Slot /\ call'[u] # None /\ call'[u].kind = "options"
  BY DEF S!Waiting

\* A call that is left alone, or was answered, by a step that keeps the page or leaves
\* another one than the login page.
LEMMA SameWhere ==
  ASSUME SessionAssumption, S!TypeOK, S!FormsKept, NEW u \in Slot,
         \/ call'[u] = None
         \/ call'[u] = S!Remaining[u]
         \/ call'[u] = call[u] /\ (page = "app" \/ (page' = page /\ form' = form))
  PROVE  SameCall(u)
  <1>1. CASE call'[u] = None BY <1>1 DEF SameCall
  <1>2. CASE call'[u] = S!Remaining[u]
    BY <1>2, FrozenCall DEF SameCall, FormOf
  <1>3. CASE call'[u] = call[u] /\ page = "app"
    <2>1. S!Remaining[u] = call[u] BY <1>3 DEF S!Remaining
    <2> QED BY <1>2, <1>3, <2>1
  <1>4. CASE call'[u] = call[u] /\ page' = page /\ form' = form
    BY <1>4 DEF SameCall, FormOf, S!Form
  <1> QED BY <1>1, <1>2, <1>3, <1>4

\* The steps that keep the calls and the page.
LEMMA SessionQuiet ==
  ASSUME SessionAssumption, S!TypeOK, SessionFacts, S!Type \/ S!SetEnvironment \/ S!Expire
  PROVE  SessionFacts'
  <1>1. call' = call /\ page' = page /\ UNCHANGED <<nameSaver, username, loginEnv, askedEnv>>
    BY DEF S!Type, S!SetEnvironment, S!Expire, S!saver, S!history
  <1>2. /\ S!Waiting("login")' = S!Waiting("login") /\ S!Waiting("restore")' = S!Waiting("restore")
        /\ S!Waiting("options")' = S!Waiting("options")
    BY <1>1 DEF S!Waiting
  <1>3. S!FormsKept'
    <2>1. CASE S!Type
      <3>1. /\ form' \in [user : User, env : Env]
            /\ \A u \in S!Waiting("login") : typed'
        BY <2>1 DEF S!Type, S!Checks
      <3>2. form'.user # None BY <3>1 DEF SessionAssumption
      <3> QED BY <1>1, <1>2, <3>1, <3>2 DEF S!FormsKept, SessionFacts
    <2>2. CASE S!SetEnvironment \/ S!Expire
      <3>1. form' = form /\ typed' = typed
        BY <2>2 DEF S!SetEnvironment, S!Expire, S!history
      <3>2. \A u \in Slot : SameCall(u) BY <1>1, <3>1, SameWhere DEF SessionFacts
      <3> QED BY <3>1, <3>2, SameCalls DEF SessionFacts
    <2> QED BY <2>1, <2>2
  <1>4. /\ typed => typed'
        /\ crossed' = crossed /\ loggedOut' = loggedOut /\ envLogout' = envLogout
        /\ creds' \in {creds, None} /\ (creds' # None => auth' = auth /\ name' = name)
    <2>1. CASE S!Type BY <2>1 DEF S!Type, S!cookies
    <2>2. CASE S!SetEnvironment BY <2>2 DEF S!SetEnvironment, S!history, S!SetEnv
    <2>3. CASE S!Expire BY <2>3 DEF S!Expire, S!history
    <2> QED BY <2>1, <2>2, <2>3
  <1>5. page' = "app" /\ creds' # None => auth' = creds'
    BY <1>1, <1>4 DEF SessionFacts, S!HeaderIsCookie
  <1>6. page' = "app" => page = "app" BY <1>1
  <1>7. /\ S!Waiting("login")' \subseteq S!Waiting("login")
        /\ S!Waiting("login") \subseteq S!Waiting("login")'
        /\ \A u \in S!Waiting("login")' : call'[u].user = call[u].user
        /\ \A u \in S!Waiting("restore")' :
             \/ u \in S!Waiting("restore") /\ call'[u].user = call[u].user
             \/ page = "app" /\ page' = "login" /\ call'[u].user = name
    BY <1>1, <1>2
  <1>8. /\ nameSaver' = nameSaver
        /\ S!Waiting("options")' # {} =>
             /\ S!Waiting("options") # {}
             /\ username' = username /\ loginEnv' = loginEnv /\ askedEnv' = askedEnv
    BY <1>1, <1>2
  <1> QED BY <1>3, <1>4, <1>5, <1>6, <1>7, <1>8, SessionKeeps

\* Calls that stay, or end, keep the forms, and none is new.
LEMMA SameWaits ==
  ASSUME S!TypeOK, S!FormsKept, typed => typed', \A u \in Slot : SameCall(u)
  PROVE  /\ S!FormsKept'
         /\ S!Waiting("login")' \subseteq S!Waiting("login")
         /\ S!Waiting("restore")' \subseteq S!Waiting("restore")
         /\ S!Waiting("options")' \subseteq S!Waiting("options")
         /\ \A u \in S!Waiting("login")' : call'[u].user = call[u].user
         /\ \A u \in S!Waiting("restore")' : call'[u].user = call[u].user
  <1>1. S!Waiting("restore")' \subseteq S!Waiting("restore") BY WaitingNext DEF SameCall, S!Waiting
  <1>2. S!Waiting("options")' \subseteq S!Waiting("options") BY WaitingNext DEF SameCall, S!Waiting
  <1>3. \A u \in S!Waiting("restore")' : call'[u].user = call[u].user
    BY WaitingNext DEF SameCall
  <1> QED BY <1>1, <1>2, <1>3, SameCalls

\* A call fails, or is refused.
LEMMA SessionFails ==
  ASSUME SessionAssumption, S!TypeOK, SessionFacts, NEW s \in Slot, S!LoginFails(s) \/ S!CallFails(s)
  PROVE  SessionFacts'
  <1>1. /\ call' = S!Answered(s) /\ page' = page /\ form' = form
        /\ UNCHANGED <<nameSaver, username, loginEnv, askedEnv, typed, crossed, loggedOut, envLogout>>
    BY DEF S!LoginFails, S!CallFails, S!saver, S!history
  <1>2. \A u \in Slot : SameCall(u) BY <1>1, WithoutCall, SameWhere DEF SessionFacts
  <1>3. /\ S!FormsKept'
        /\ S!Waiting("login")' \subseteq S!Waiting("login")
        /\ \A u \in S!Waiting("login")' : call'[u].user = call[u].user
    BY <1>1, <1>2, SameWaits DEF SessionFacts
  <1>4. \A u \in S!Waiting("restore")' :
             \/ u \in S!Waiting("restore") /\ call'[u].user = call[u].user
             \/ page = "app" /\ page' = "login" /\ call'[u].user = name
    BY <1>1, <1>2, SameWaits DEF SessionFacts
  <1>5. /\ creds' \in {creds, None}
        /\ creds' # None => S!CallFails(s) /\ auth' = auth /\ name' = name
    BY DEF S!LoginFails, S!CallFails, S!ClearCookies, S!cookies
  <1>6. page' = "app" /\ creds' # None => auth' = creds'
    BY <1>1, <1>5 DEF SessionFacts, S!HeaderIsCookie
  <1>7. creds' # None => S!Waiting("login") \subseteq S!Waiting("login")'
    <2> SUFFICES ASSUME S!CallFails(s), NEW u \in S!Waiting("login") PROVE u \in S!Waiting("login")'
      BY <1>5
    <2>1. u # s BY DEF S!CallFails, S!Waiting
    <2> QED BY <1>1, <2>1, WithoutCall, WaitingNext DEF S!Waiting
  <1>8. S!Waiting("options")' # {} =>
             /\ S!Waiting("options") # {}
             /\ username' = username /\ loginEnv' = loginEnv /\ askedEnv' = askedEnv
    BY <1>1, <1>2, SameWaits DEF SessionFacts
  <1>9. page' = "app" => page = "app" BY <1>1
  <1> QED BY <1>1, <1>3, <1>4, <1>5, <1>6, <1>7, <1>8, <1>9, SessionKeeps

\* The answer with the environments.
LEMMA SessionOptions ==
  ASSUME SessionAssumption, S!TypeOK, SessionFacts, NEW s \in Slot, S!OptionsAnswer(s)
  PROVE  SessionFacts'
  <1>1. /\ call' = S!Answered(s) /\ s \in S!Waiting("options") /\ name' = username
        /\ UNCHANGED <<nameSaver, username, loginEnv, askedEnv, typed, crossed, loggedOut>>
    BY DEF S!OptionsAnswer, S!saver
  <1>2. \/ page' = page /\ form' = form /\ auth' = auth /\ creds' = creds /\ envLogout' = envLogout
        \/ /\ creds' = None /\ page' = "login" /\ (page = "login" => form' = form)
           /\ envLogout' = askedEnv /\ loginEnv \notin EnvSetup
    BY DEF S!OptionsAnswer, S!LoginEnvSetUp, S!SetEnv
  <1>3. page \in {"login", "app"} BY SessionTypeParts
  <1>4. \A u \in Slot : SameCall(u) BY <1>1, <1>2, <1>3, WithoutCall, SameWhere DEF SessionFacts
  <1>5. /\ S!FormsKept'
        /\ S!Waiting("login")' \subseteq S!Waiting("login")
        /\ \A u \in S!Waiting("login")' : call'[u].user = call[u].user
        /\ \A u \in S!Waiting("restore")' :
             \/ u \in S!Waiting("restore") /\ call'[u].user = call[u].user
             \/ page = "app" /\ page' = "login" /\ call'[u].user = name
    BY <1>1, <1>4, SameWaits DEF SessionFacts
  <1>6. page' = "app" /\ creds' # None => auth' = creds'
    BY <1>2 DEF SessionFacts, S!HeaderIsCookie
  <1>7. S!Waiting("login") \subseteq S!Waiting("login")'
    BY <1>1, WithoutCall, WaitingNext DEF S!Waiting
  <1>8. S!Waiting("options")' # {} =>
             /\ S!Waiting("options") # {}
             /\ username' = username /\ loginEnv' = loginEnv /\ askedEnv' = askedEnv
    BY <1>1
  <1>9. /\ page' = "app" => page = "app"
        /\ creds' \in {creds, None}
    BY <1>2
  <1>10. S!Waiting("options") # {} BY <1>1
  <1> QED BY <1>1, <1>2, <1>5, <1>6, <1>7, <1>8, <1>9, <1>10, SessionKeeps

\* The user logs out, or a call is answered 401.
LEMMA SessionLogout ==
  ASSUME SessionAssumption, S!TypeOK, SessionFacts, S!Logout \/ S!Unauthorized
  PROVE  SessionFacts'
  <1>1. /\ call' = call /\ creds' = None /\ page' = "login" /\ (page = "login" => form' = form)
        /\ UNCHANGED <<nameSaver, username, loginEnv, askedEnv, typed, crossed, envLogout>>
    BY DEF S!Logout, S!Unauthorized, S!DoLogout, S!ClearCookies, S!saver, S!history
  <1>0. loggedOut' => loggedOut \/ S!Waiting("login") = {}
    <2>1. CASE S!Logout BY <2>1 DEF S!Logout
    <2>2. CASE S!Unauthorized BY <2>2 DEF S!Unauthorized, S!history
    <2> QED BY <2>1, <2>2
  <1>2. page \in {"login", "app"} BY SessionTypeParts
  <1>3. \A u \in Slot : SameCall(u) BY <1>1, <1>2, SameWhere DEF SessionFacts
  <1>4. /\ S!FormsKept'
        /\ S!Waiting("login")' \subseteq S!Waiting("login")
        /\ \A u \in S!Waiting("login")' : call'[u].user = call[u].user
        /\ \A u \in S!Waiting("restore")' :
             \/ u \in S!Waiting("restore") /\ call'[u].user = call[u].user
             \/ page = "app" /\ page' = "login" /\ call'[u].user = name
    BY <1>1, <1>3, SameWaits DEF SessionFacts
  <1>5. S!Waiting("options")' # {} =>
             /\ S!Waiting("options") # {}
             /\ username' = username /\ loginEnv' = loginEnv /\ askedEnv' = askedEnv
    BY <1>1, <1>3, SameWaits DEF SessionFacts
  <1> QED BY <1>0, <1>1, <1>4, <1>5, SessionKeeps

\* The user goes to a page of the application.
LEMMA SessionGoToApp ==
  ASSUME SessionAssumption, S!TypeOK, SessionFacts, S!GoToApp
  PROVE  SessionFacts'
  <1>1. UNCHANGED <<nameSaver, username, loginEnv, askedEnv, typed, loggedOut, envLogout>>
    BY DEF S!GoToApp, S!saver
  <1>2. \/ /\ S!LoggedIn /\ page' = "app" /\ auth' = creds /\ creds' = creds /\ name' = name
           /\ call' = S!Remaining
           /\ crossed' = (crossed \/ (page = "login" /\ S!Checks # {}))
        \/ /\ creds' = None /\ page' = "login" /\ (page = "login" => form' = form)
           /\ call' = call /\ crossed' = crossed
    <2>1. CASE S!LoggedIn
      <3>1. page' = "app" /\ auth' = creds /\ creds' = creds /\ name' = name /\ call' = S!Remaining
        BY <2>1 DEF S!GoToApp, S!ToApp, S!cookies
      <3>2. crossed' = (crossed \/ (page = "login" /\ S!Checks # {})) BY <2>1 DEF S!GoToApp
      <3> QED BY <2>1, <3>1, <3>2
    <2>2. CASE ~S!LoggedIn
      <3>1. creds' = None /\ page' = "login" /\ (page = "login" => form' = form) /\ call' = call
        BY <2>2 DEF S!GoToApp, S!ToApp, S!DoLogout, S!ClearCookies
      <3>2. crossed \in BOOLEAN BY SessionTypeParts
      <3>3. crossed' = crossed BY <2>2, <3>2 DEF S!GoToApp
      <3> QED BY <2>2, <3>1, <3>3
    <2> QED BY <2>1, <2>2
  <1>3. page \in {"login", "app"} BY SessionTypeParts
  <1>4. \A u \in Slot : SameCall(u) BY <1>2, <1>3, SameWhere DEF SessionFacts
  <1>5. /\ S!FormsKept'
        /\ S!Waiting("login")' \subseteq S!Waiting("login")
        /\ S!Waiting("restore")' \subseteq S!Waiting("restore")
        /\ \A u \in S!Waiting("login")' : call'[u].user = call[u].user
        /\ \A u \in S!Waiting("restore")' :
             \/ u \in S!Waiting("restore") /\ call'[u].user = call[u].user
             \/ page = "app" /\ page' = "login" /\ call'[u].user = name
    BY <1>1, <1>4, SameWaits DEF SessionFacts
  <1>6. S!Waiting("options")' # {} =>
             /\ S!Waiting("options") # {}
             /\ username' = username /\ loginEnv' = loginEnv /\ askedEnv' = askedEnv
    BY <1>1, <1>4, SameWaits DEF SessionFacts
  <1>7. S!Checks' \subseteq S!Checks BY <1>5 DEF S!Checks
  <1>8. page' = "app" => page = "app" \/ crossed' \/ S!Checks' = {} BY <1>2, <1>3, <1>7
  <1>9. creds' # None => S!Waiting("login") \subseteq S!Waiting("login")' \/ crossed'
    <2> SUFFICES ASSUME creds' # None, ~crossed', NEW u \in S!Waiting("login") PROVE u \in S!Waiting("login")'
      OBVIOUS
    <2>1. call' = call BY <1>2, <1>3 DEF S!Remaining, S!Checks
    <2> QED BY <2>1, WaitingNext DEF S!Waiting
  <1>10. crossed => crossed' BY <1>2
  <1>11. page' = "app" /\ creds' # None => auth' = creds' BY <1>2
  <1>12. creds' # None => name' = name \/ (name' = username /\ S!Waiting("options") # {}) BY <1>2
  <1>13. creds' \in {creds, None} BY <1>2
  <1> QED BY <1>1, <1>5, <1>6, <1>8, <1>9, <1>10, <1>11, <1>12, <1>13, SessionKeeps

\* The user goes to the login page, whose controller checks the session again.
LEMMA SessionGoToLogin ==
  ASSUME SessionAssumption, S!TypeOK, SessionFacts, S!GoToLogin
  PROVE  SessionFacts'
  <1> DEFINE c == [kind |-> "restore", user |-> name]
  <1>1. /\ UNCHANGED <<nameSaver, username, loginEnv, askedEnv, typed, crossed, loggedOut, envLogout>>
        /\ page = "app" /\ page' = "login"
        /\ \/ creds' = creds /\ name' = name /\ call' \in S!Sending(call, c)
           \/ creds' = None /\ call' = call
    BY DEF S!GoToLogin, S!ToLogin, S!LoginController, S!LoggedIn, S!ClearCookies, S!cookies,
           S!saver, S!history
  <1>2. call \in SessionCalls BY SessionTypeParts
  <1>3. \A u \in Slot : call'[u] = call[u] \/ (call[u] = None /\ call'[u] = c) BY <1>1, <1>2, SentCall
  <1>4. \A u \in Slot : SameCall(u) \/ (call[u] = None /\ call'[u] = c)
    BY <1>1, <1>3, SameWhere DEF SessionFacts
  <1>5. /\ S!FormsKept' /\ S!Waiting("login")' \subseteq S!Waiting("login")
        /\ \A u \in S!Waiting("login")' : call'[u].user = call[u].user
    <2>1. \A u \in Slot : SameCall(u) \/ NewCall(u, "options") \/ NewCall(u, "restore")
      BY <1>4 DEF NewCall
    <2> QED BY <1>1, <2>1, SameCalls DEF SessionFacts
  <1>6. \A u \in S!Waiting("restore")' :
             \/ u \in S!Waiting("restore") /\ call'[u].user = call[u].user
             \/ page = "app" /\ page' = "login" /\ call'[u].user = name
    BY <1>1, <1>3, WaitingNext DEF S!Waiting
  <1>7. S!Waiting("options")' # {} =>
             /\ S!Waiting("options") # {}
             /\ username' = username /\ loginEnv' = loginEnv /\ askedEnv' = askedEnv
    <2>1. S!Waiting("options")' \subseteq S!Waiting("options") BY <1>3, WaitingNext DEF S!Waiting
    <2> QED BY <1>1, <2>1
  <1>8. S!Waiting("login") \subseteq S!Waiting("login")' BY <1>3, WaitingNext DEF S!Waiting
  <1> HIDE DEF c
  <1> QED BY <1>1, <1>5, <1>6, <1>7, <1>8, SessionKeeps

\* The answer to the check of a session.
LEMMA SessionRestore ==
  ASSUME SessionAssumption, S!TypeOK, SessionFacts, NEW s \in Slot, S!RestoreAnswer(s)
  PROVE  SessionFacts'
  <1> DEFINE c == [kind |-> "options"]
             left == S!Without(IF S!LoggedIn THEN S!Remaining ELSE call, s)
  <1>1. /\ s \in S!Waiting("restore") /\ call' \in S!Sending(left, c)
        /\ username' = call[s].user /\ loginEnv' = askedEnv'
        /\ envLogout' = None
        /\ UNCHANGED <<nameSaver, typed, loggedOut>>
        /\ crossed' = (crossed \/ (S!LoggedIn /\ S!Crossing(s)))
    BY DEF S!RestoreAnswer, S!PerformedLogin
  <1>2. \/ /\ S!LoggedIn /\ page' = "app" /\ auth' = creds /\ creds' = creds /\ name' = name
        \/ /\ ~S!LoggedIn /\ creds' = None /\ page' = "login" /\ (page = "login" => form' = form)
    BY DEF S!RestoreAnswer, S!ToApp, S!DoLogout, S!ClearCookies, S!cookies
  <1>3. page \in {"login", "app"} BY SessionTypeParts
  <1>4. left \in SessionCalls BY RemainingCalls DEF SessionFacts
  <1>5. \A u \in Slot : call'[u] = left[u] \/ (left[u] = None /\ call'[u] = c) BY <1>1, <1>4, SentCall
  <1>6. left[s] = None /\ \A u \in Slot \ {s} : left[u] = IF S!LoggedIn THEN S!Remaining[u] ELSE call[u]
    BY DEF S!Without
  <1> HIDE DEF left
  <1>7. \A u \in Slot : \/ SameCall(u) /\ (call'[u] = None \/ u # s)
                        \/ call'[u] = c /\ left[u] = None
    BY <1>2, <1>3, <1>5, <1>6, SameWhere DEF SessionFacts
  <1>8. /\ S!FormsKept' /\ S!Waiting("login")' \subseteq S!Waiting("login")
        /\ \A u \in S!Waiting("login")' : call'[u].user = call[u].user
    <2>1. \A u \in Slot : SameCall(u) \/ NewCall(u, "options") \/ NewCall(u, "restore")
      BY <1>7 DEF NewCall
    <2> QED BY <1>1, <2>1, SameCalls DEF SessionFacts
  <1>9. \A u \in S!Waiting("restore")' :
             u \in S!Waiting("restore") /\ u # s /\ call'[u].user = call[u].user
    BY <1>7, WaitingNext DEF S!Waiting, SameCall
  <1>10. page' = "app" => page = "app" \/ crossed' \/ S!Checks' = {}
    <2>1. S!Checks' \subseteq S!Checks \ {s} BY <1>1, <1>8, <1>9 DEF S!Checks, S!Waiting
    <2> QED BY <1>1, <1>2, <1>3, <2>1 DEF S!Crossing
  <1>11. creds' # None => S!Waiting("login") \subseteq S!Waiting("login")' \/ crossed'
    <2> SUFFICES ASSUME creds' # None, ~crossed', NEW u \in S!Waiting("login") PROVE u \in S!Waiting("login")'
      OBVIOUS
    <2>1. S!LoggedIn /\ u # s /\ u \in Slot /\ call[u] # None /\ call[u].kind = "login"
      BY <1>1, <1>2 DEF S!Waiting
    <2>2. page = "app" BY <1>1, <1>3, <2>1 DEF S!Crossing, S!Checks
    <2>3. S!Remaining[u] = call[u] BY <2>2 DEF S!Remaining
    <2>4. call'[u] = call[u] BY <1>5, <1>6, <2>1, <2>3
    <2> QED BY <2>1, <2>4, WaitingNext
  <1>12. page' = "app" /\ creds' # None => auth' = creds' BY <1>2
  <1>13. creds' # None => name' = name BY <1>2
  <1>14. creds' \in {creds, None} BY <1>2
  <1>15. loginEnv' = askedEnv' /\ \E u \in S!Waiting("restore") : username' = call[u].user BY <1>1
  <1> HIDE DEF c
  <1> QED BY <1>1, <1>8, <1>9, <1>10, <1>11, <1>12, <1>13, <1>14, <1>15, SessionKeeps

\* The user presses login.
LEMMA SessionLogin ==
  ASSUME SessionAssumption, S!TypeOK, SessionFacts, S!Login
  PROVE  SessionFacts'
  <1> DEFINE c == [kind |-> "login", user |-> form.user, env |-> form.env, form |-> None]
  <1>1. /\ page = "login" /\ form.user # None /\ nameSaver' = form.user /\ loggedOut' = FALSE
        /\ call' \in S!Sending(call, c)
        /\ UNCHANGED <<page, bar, form, creds, name, username, loginEnv, typed, askedEnv, envLogout>>
    BY DEF S!Login, S!cookies
  <1>2. crossed' = (crossed \/ S!Checks # {}) BY DEF S!Login
  <1>3. call \in SessionCalls BY SessionTypeParts
  <1>4. \A u \in Slot : call'[u] = call[u] \/ (call[u] = None /\ call'[u] = c) BY <1>1, <1>3, SentCall
  <1>5. \E u \in Slot : call'[u] = c BY <1>1, <1>3, SentCall
  <1>6. /\ c.kind = "login" /\ c.user = form.user /\ c.env = form.env /\ c.form = None OBVIOUS
  <1>7. c # None
    <2>1. /\ form.user \in User /\ form.env \in Env
      BY <1>1, SessionTypeParts DEF SessionForm
    <2>2. c \in S!Calls BY <2>1 DEF S!Calls
    <2> QED BY <2>2 DEF SessionAssumption
  <1> HIDE DEF c
  <1>8. /\ S!Waiting("restore")' = S!Waiting("restore") /\ S!Waiting("options")' = S!Waiting("options")
        /\ \A u \in S!Waiting("login")' : call'[u] = c \/ (u \in S!Waiting("login") /\ call'[u] = call[u])
    BY <1>4, <1>6, WaitingNext DEF S!Waiting
  <1> USE DEF SessionFacts
  <1>9. S!FormsKept'
    <2>1. \A u \in S!Waiting("login")' :
            /\ call'[u].form = None => page' = "login" /\ form'.user # None
            /\ typed' \/ (S!Form(u)'.user = call'[u].user /\ S!Form(u)'.env = call'[u].env)
      BY <1>1, <1>6, <1>8, FormViews DEF S!FormsKept, FormOf
    <2> QED BY <2>1 DEF S!FormsKept
  <1>10. S!ChecksCross'
    <2>1. S!Waiting("restore")' # {} => crossed' BY <1>2, <1>8 DEF S!Checks
    <2> QED BY <1>1, <2>1 DEF S!ChecksCross
  <1>11. S!NamesPaired'
    <2> SUFFICES ASSUME ~typed, ~crossed' PROVE S!NamesPaired' BY <1>1 DEF S!NamesPaired
    <2>1. ~crossed /\ S!Waiting("login") = {} /\ S!Waiting("restore") = {} BY <1>2 DEF S!Checks
    <2>2. \A u \in S!Waiting("login")' : nameSaver' = call'[u].user BY <1>1, <1>6, <1>8, <2>1
    <2>3. S!Waiting("login")' # {} BY <1>5, <1>6, <1>7, WaitingNext
    <2>4. creds # None => /\ name = creds.name
                          /\ S!Waiting("options") # {} => username = creds.name
      BY <2>1 DEF S!NamesPaired
    <2> QED BY <1>1, <1>8, <2>1, <2>2, <2>3, <2>4 DEF S!NamesPaired
  <1>12. S!HeaderIsCookie' BY <1>1 DEF S!HeaderIsCookie
  <1>13. S!IdentityPaired' BY <1>1 DEF S!IdentityPaired
  <1>14. S!LoggedOutStays' BY <1>1 DEF S!LoggedOutStays
  <1>15. S!EnvLogoutJustified' BY <1>1 DEF S!EnvLogoutJustified
  <1>16. S!EnvAsked' BY <1>1, <1>8 DEF S!EnvAsked
  <1> QED BY <1>9, <1>10, <1>11, <1>12, <1>13, <1>14, <1>15, <1>16

\* The answer to a login.
LEMMA SessionLoginAnswer ==
  ASSUME SessionAssumption, S!TypeOK, SessionFacts, NEW s \in Slot, S!LoginAnswer(s)
  PROVE  SessionFacts'
  <1> DEFINE c == [kind |-> "options"]
             left == S!Without(S!Remaining, s)
             f == S!Form(s)
  <1>1. /\ s \in S!Waiting("login") /\ name' = f.user /\ username' = f.user /\ loginEnv' = f.env
        /\ creds' = S!Identity(s) /\ auth' = S!Identity(s)
        /\ page' = "app" /\ call' \in S!Sending(left, c)
        /\ askedEnv' = call[s].env /\ envLogout' = None
        /\ UNCHANGED <<nameSaver, typed, loggedOut>>
    BY DEF S!LoginAnswer, S!PerformedLogin
  <1>2. crossed' = (crossed \/ S!Crossing(s)) BY DEF S!LoginAnswer
  <1>3. page \in {"login", "app"} BY SessionTypeParts
  <1>4. left \in SessionCalls BY RemainingCalls DEF SessionFacts
  <1>5. \A u \in Slot : call'[u] = left[u] \/ (left[u] = None /\ call'[u] = c) BY <1>1, <1>4, SentCall
  <1>6. left[s] = None /\ \A u \in Slot \ {s} : left[u] = S!Remaining[u] BY DEF S!Without
  <1> HIDE DEF left
  <1>7. \A u \in Slot : \/ SameCall(u) /\ (call'[u] = None \/ u # s)
                        \/ call'[u] = c
    BY <1>5, <1>6, SameWhere DEF SessionFacts
  <1> USE DEF SessionFacts
  <1>8. S!FormsKept' /\ S!Waiting("login")' \subseteq S!Waiting("login")
    <2>1. \A u \in Slot : SameCall(u) \/ NewCall(u, "options") \/ NewCall(u, "restore")
      BY <1>7 DEF NewCall
    <2> QED BY <1>1, <2>1, SameCalls
  <1>9. S!Checks' \subseteq S!Checks \ {s}
    BY <1>7, WaitingNext DEF S!Waiting, S!Checks, SameCall
  <1>10. S!Checks' # {} => crossed' BY <1>2, <1>3, <1>9 DEF S!Crossing, S!ChecksCross
  <1>11. creds'.name = f.user /\ creds'.of = call[s].user BY <1>1 DEF S!Identity, S!Credentials
  <1>12. typed \/ (f.user = call[s].user /\ f.env = call[s].env) BY <1>1 DEF S!FormsKept
  <1> HIDE DEF f, c
  <1>13. S!ChecksCross'
    <2>1. loggedOut' => S!Waiting("login")' = {} BY <1>1, <1>8 DEF S!ChecksCross
    <2> QED BY <1>10, <2>1 DEF S!ChecksCross, S!Checks
  <1>14. S!NamesPaired'
    <2> SUFFICES ASSUME ~typed, ~crossed' PROVE S!NamesPaired' BY <1>1 DEF S!NamesPaired
    <2>1. ~crossed /\ S!Waiting("login")' = {} /\ S!Waiting("restore")' = {} BY <1>2, <1>10 DEF S!Checks
    <2>2. nameSaver = call[s].user BY <1>1, <2>1 DEF S!NamesPaired
    <2> QED BY <1>1, <1>11, <1>12, <2>1, <2>2 DEF S!NamesPaired
  <1>15. S!HeaderIsCookie' BY <1>1 DEF S!HeaderIsCookie
  <1>16. S!IdentityPaired' BY <1>1, <1>11, <1>12 DEF S!IdentityPaired
  <1>17. S!LoggedOutStays'
    <2>1. ~loggedOut BY <1>1 DEF S!ChecksCross
    <2>2. loggedOut' = loggedOut BY <1>1
    <2>3. ~loggedOut' BY <2>1, <2>2
    <2> QED BY <2>3 DEF S!LoggedOutStays
  <1>18. S!EnvLogoutJustified' BY <1>1 DEF S!EnvLogoutJustified
  <1>19. S!EnvAsked' BY <1>1, <1>12 DEF S!EnvAsked
  <1> QED BY <1>8, <1>13, <1>14, <1>15, <1>16, <1>17, <1>18, <1>19

\* The page is loaded again.
LEMMA SessionReload ==
  ASSUME SessionAssumption, S!TypeOK, SessionFacts, S!Reload
  PROVE  SessionFacts'
  <1> DEFINE none == [u \in Slot |-> None]
             c == [kind |-> "restore", user |-> name]
  <1>1. nameSaver' = name /\ UNCHANGED <<typed, crossed, loggedOut, askedEnv, envLogout>>
    BY DEF S!Reload, S!history
  <1>2. \/ /\ creds' = creds /\ name' = name /\ auth' = creds /\ page' = "app" /\ call' = none
        \/ /\ creds' = creds /\ name' = name /\ page' = "login" /\ call' \in S!Sending(none, c)
        \/ creds' = None /\ page' = "login" /\ call' = none
    <2>1. CASE page = "login"
      BY <2>1 DEF S!Reload, S!ToLogin, S!LoginController, S!LoggedIn, S!ClearCookies, S!cookies
    <2>2. CASE page # "login"
      BY <2>2 DEF S!Reload, S!ToApp, S!DoLogout, S!ClearCookies, S!cookies
    <2> QED BY <2>1, <2>2
  <1>3. none \in SessionCalls BY DEF SessionCalls
  <1>4. \A u \in Slot : call'[u] = None \/ (page' = "login" /\ creds' = creds /\ name' = name /\ call'[u] = c)
    BY <1>2, <1>3, SentCall
  <1>5. c.kind = "restore" /\ c.user = name OBVIOUS
  <1> HIDE DEF none, c
  <1>6. /\ S!Waiting("login")' = {} /\ S!Waiting("options")' = {}
        /\ \A u \in S!Waiting("restore")' : page' = "login" /\ name' = name /\ call'[u].user = name
    BY <1>4, <1>5, WaitingNext
  <1>7. page' = "app" => S!Checks' = {} BY <1>6 DEF S!Checks
  <1>8. creds' \in {creds, None} /\ (creds' # None => name' = name) BY <1>2
  <1>9. page' = "app" /\ creds' # None => auth' = creds' BY <1>2
  <1> USE DEF SessionFacts
  <1>10. S!HeaderIsCookie' BY <1>9 DEF S!HeaderIsCookie
  <1>11. S!IdentityPaired' BY <1>1, <1>8 DEF S!IdentityPaired
  <1>12. S!LoggedOutStays' BY <1>1, <1>8 DEF S!LoggedOutStays
  <1>13. S!EnvLogoutJustified' BY <1>1 DEF S!EnvLogoutJustified
  <1>14. S!FormsKept' BY <1>6 DEF S!FormsKept
  <1>15. S!ChecksCross' BY <1>6, <1>7 DEF S!ChecksCross
  <1>16. S!NamesPaired' BY <1>1, <1>6, <1>8 DEF S!NamesPaired
  <1>17. S!EnvAsked' BY <1>6 DEF S!EnvAsked
  <1> QED BY <1>10, <1>11, <1>12, <1>13, <1>14, <1>15, <1>16, <1>17

\* The blank form and the session that is over are of their types.
LEMMA SessionValues ==
  ASSUME SessionAssumption
  PROVE  /\ S!Blank \in SessionForm /\ None \in SessionCreds /\ None \in Asked
         /\ S!Restored \in Asked /\ None \in User \cup {None} /\ None \in Env \cup {None}
         /\ [u \in Slot |-> None] \in SessionCalls /\ [kind |-> "options"] \in S!Calls
         /\ \A u \in User \cup {None} : [kind |-> "restore", user |-> u] \in S!Calls
         /\ \A u \in User, e \in Env : [kind |-> "login", user |-> u, env |-> e, form |-> None] \in S!Calls
  BY DEF SessionAssumption, S!Blank, SessionForm, SessionCreds, Asked, SessionCalls, S!Calls

\* Entering a state keeps the types.
LEMMA SessionToApp ==
  ASSUME SessionAssumption, S!TypeOK, S!ToApp
  PROVE  /\ page' \in {"login", "app"} /\ bar' \in BOOLEAN /\ form' \in SessionForm
         /\ auth' \in SessionCreds
         /\ creds' \in SessionCreds /\ showNav' \in BOOLEAN /\ name' \in User \cup {None}
         /\ envid' \in Env \cup {None}
  <1>1. CASE S!LoggedIn
    BY <1>1, SessionTypeParts, SessionValues DEF S!ToApp, S!cookies
  <1>2. CASE ~S!LoggedIn
    BY <1>2, SessionTypeParts, SessionValues DEF S!ToApp, S!DoLogout, S!ClearCookies
  <1> QED BY <1>1, <1>2

\* Going to the login page keeps the types.
LEMMA SessionToLogin ==
  ASSUME SessionAssumption, S!TypeOK, NEW list \in SessionCalls, S!ToLogin(list)
  PROVE  /\ page' \in {"login", "app"} /\ bar' \in BOOLEAN /\ form' \in SessionForm
         /\ auth' \in SessionCreds
         /\ creds' \in SessionCreds /\ showNav' \in BOOLEAN /\ name' \in User \cup {None}
         /\ envid' \in Env \cup {None} /\ call' \in SessionCalls
  <1> USE SessionTypeParts, SessionValues
  <1>0. bar' \in BOOLEAN BY DEF S!ToLogin, S!LoggedIn
  <1>1. /\ page' = "login" /\ form' = S!Blank
        /\ \/ auth' = creds /\ UNCHANGED <<creds, showNav, name, envid>>
           \/ auth' = None /\ creds' = None /\ showNav' = FALSE /\ name' = None /\ envid' = None
    BY DEF S!ToLogin, S!cookies, S!ClearCookies
  <1>2. call' = list \/ call' \in S!Sending(list, [kind |-> "restore", user |-> name])
    BY DEF S!ToLogin, S!LoginController
  <1>3. call' \in SessionCalls
    <2>1. [kind |-> "restore", user |-> name] \in S!Calls OBVIOUS
    <2> QED BY <1>2, <2>1, SentCall
  <1> QED BY <1>0, <1>1, <1>3

\* The types after the answers, and the steps of the login page.
LEMMA SessionTypeAnswers ==
  ASSUME SessionAssumption, S!TypeOK, SessionFacts, NEW s \in Slot,
         \/ S!LoginAnswer(s) \/ S!LoginFails(s) \/ S!RestoreAnswer(s)
         \/ S!OptionsAnswer(s) \/ S!CallFails(s)
  PROVE  S!TypeOK'
  <1> USE SessionTypeParts, SessionValues DEF SessionFacts
  <1>1. S!Answered(s) \in SessionCalls BY WithoutCall
  <1>2. CASE S!LoginAnswer(s)
    <2>1. /\ s \in Slot /\ call[s] \in S!Calls /\ call[s].kind = "login" /\ s \in S!Waiting("login")
      BY <1>2 DEF S!LoginAnswer, S!Waiting, SessionCalls
    <2>2. /\ call[s].user \in User /\ call[s].env \in Env
          /\ call[s].form \in {None} \cup [user : User, env : Env]
      BY <2>1, CallKinds
    <2>3. S!Form(s).user \in User /\ S!Form(s).env \in Env
      BY <2>1, <2>2 DEF S!Form, S!FormsKept, SessionForm
    <2>4. S!Identity(s) \in SessionCreds BY <2>2, <2>3 DEF S!Identity, S!Credentials, SessionCreds
    <2>5. call' \in SessionCalls
      BY <1>2, RemainingCalls, SentCall DEF S!LoginAnswer, S!PerformedLogin
    <2>6. /\ page' = "app" /\ bar' = TRUE /\ form' = S!Blank /\ auth' = S!Identity(s) /\ creds' = S!Identity(s)
          /\ showNav' = TRUE /\ name' = S!Form(s).user /\ username' = S!Form(s).user
          /\ loginEnv' = S!Form(s).env /\ askedEnv' = call[s].env /\ envLogout' = None
          /\ UNCHANGED <<envid, nameSaver, env, typed, loggedOut>>
      BY <1>2 DEF S!LoginAnswer
    <2>7. environmentBiPass' \in BOOLEAN /\ crossed' \in BOOLEAN BY <1>2 DEF S!LoginAnswer
    <2>8. loginEnv' \in Asked /\ askedEnv' \in Asked /\ envLogout' \in Asked BY <2>2, <2>3, <2>6 DEF Asked
    <2> QED BY <2>3, <2>4, <2>5, <2>6, <2>7, <2>8, SessionTypeNext
  <1>3. CASE S!LoginFails(s)
    <2>1. /\ call' = S!Answered(s) /\ creds' = None /\ showNav' = FALSE /\ name' = None /\ envid' = None
          /\ auth' = None
          /\ UNCHANGED <<page, bar, form, nameSaver, username, loginEnv, environmentBiPass, env, typed,
                         loggedOut, crossed, askedEnv, envLogout>>
      BY <1>3 DEF S!LoginFails, S!ClearCookies, S!saver, S!history
    <2> QED BY <1>1, <2>1, SessionTypeNext
  <1>4. CASE S!RestoreAnswer(s)
    <2>1. call[s] \in S!Calls /\ call[s].kind = "restore"
      BY <1>4 DEF S!RestoreAnswer, S!Waiting, SessionCalls
    <2>2. call[s].user \in User \cup {None} BY <2>1, CallKinds
    <2>3. call' \in SessionCalls
      <3>1. S!Without(IF S!LoggedIn THEN S!Remaining ELSE call, s) \in SessionCalls BY RemainingCalls
      <3> QED BY <1>4, <3>1, SentCall DEF S!RestoreAnswer, S!PerformedLogin
    <2>4. /\ username' = call[s].user /\ loginEnv' = S!Restored /\ askedEnv' = S!Restored
          /\ envLogout' = None /\ UNCHANGED <<nameSaver, env, typed, loggedOut>>
      BY <1>4 DEF S!RestoreAnswer
    <2>5. crossed' \in BOOLEAN /\ environmentBiPass' \in BOOLEAN BY <1>4 DEF S!RestoreAnswer
    <2>6. /\ page' \in {"login", "app"} /\ bar' \in BOOLEAN /\ form' \in SessionForm /\ auth' \in SessionCreds
          /\ creds' \in SessionCreds /\ showNav' \in BOOLEAN /\ name' \in User \cup {None}
          /\ envid' \in Env \cup {None}
      BY <1>4, SessionToApp DEF S!RestoreAnswer
    <2> QED BY <2>2, <2>3, <2>4, <2>5, <2>6, SessionTypeNext
  <1>5. CASE S!OptionsAnswer(s)
    <2>1. /\ call' = S!Answered(s) /\ name' = username
          /\ UNCHANGED <<nameSaver, username, loginEnv, environmentBiPass, typed, loggedOut, crossed, askedEnv>>
      BY <1>5 DEF S!OptionsAnswer, S!saver
    <2>2. \/ /\ UNCHANGED <<page, bar, form, auth, creds, showNav, envLogout>>
             /\ \/ UNCHANGED <<envid, env>>
                \/ loginEnv \in EnvSetup /\ envid' = loginEnv /\ env' = loginEnv
          \/ /\ creds' = None /\ showNav' = FALSE /\ envid' = None /\ auth' = None
             /\ page' = "login" /\ bar' = FALSE /\ form' \in {form, S!Blank} /\ envLogout' = askedEnv /\ env' = env
      BY <1>5 DEF S!OptionsAnswer, S!LoginEnvSetUp, S!SetEnv
    <2>3. /\ page' \in {"login", "app"} /\ bar' \in BOOLEAN /\ form' \in SessionForm /\ auth' \in SessionCreds
          /\ creds' \in SessionCreds /\ showNav' \in BOOLEAN /\ envLogout' \in Asked
      BY <2>2
    <2>4. envid' \in Env \cup {None} /\ env' \in Env BY <2>2 DEF SessionAssumption
    <2> QED BY <1>1, <2>1, <2>3, <2>4, SessionTypeNext
  <1>6. CASE S!CallFails(s)
    <2>1. /\ call' = S!Answered(s)
          /\ UNCHANGED <<page, bar, form, auth, creds, showNav, name, envid, nameSaver, username, loginEnv,
                         environmentBiPass, env, typed, loggedOut, crossed, askedEnv, envLogout>>
      BY <1>6 DEF S!CallFails, S!cookies, S!saver, S!history
    <2> QED BY <1>1, <2>1, SessionTypeNext
  <1> QED BY <1>2, <1>3, <1>4, <1>5, <1>6

\* The types after the other steps.
LEMMA SessionTypeSteps ==
  ASSUME SessionAssumption, S!TypeOK, SessionFacts,
         \/ S!Type \/ S!Login \/ S!SetEnvironment \/ S!Logout \/ S!Unauthorized
         \/ S!GoToApp \/ S!GoToLogin \/ S!Reload \/ S!Expire
  PROVE  S!TypeOK'
  <1> USE SessionTypeParts, SessionValues DEF SessionFacts
  <1>1. CASE S!Type
    <2>1. /\ form' \in SessionForm /\ typed' \in BOOLEAN
          /\ UNCHANGED <<page, bar, auth, creds, showNav, name, envid, nameSaver, username, loginEnv,
                         environmentBiPass, env, call, loggedOut, crossed, askedEnv, envLogout>>
      BY <1>1 DEF S!Type, S!cookies, S!saver, SessionForm
    <2> QED BY <2>1, SessionTypeNext
  <1>2. CASE S!Login
    <2>1. /\ form.user \in User /\ form.env \in Env BY <1>2 DEF S!Login, SessionForm
    <2>2. /\ nameSaver' = form.user /\ auth' = S!Credentials(form.user, form.user)
          /\ loggedOut' = FALSE
          /\ UNCHANGED <<page, bar, form, creds, showNav, name, envid, username, loginEnv, environmentBiPass,
                         env, typed, askedEnv, envLogout>>
      BY <1>2 DEF S!Login, S!cookies
    <2>3. call' \in SessionCalls BY <1>2, <2>1, SentCall DEF S!Login
    <2>4. auth' \in SessionCreds BY <2>1, <2>2 DEF SessionCreds, S!Credentials
    <2>5. crossed' \in BOOLEAN BY <1>2 DEF S!Login
    <2> QED BY <2>1, <2>2, <2>3, <2>4, <2>5, SessionTypeNext
  <1>3. CASE S!SetEnvironment
    <2>1. /\ envid' \in Env /\ env' \in Env
          /\ UNCHANGED <<page, bar, form, auth, creds, showNav, name, nameSaver, username, loginEnv,
                         environmentBiPass, call, typed, loggedOut, crossed, askedEnv, envLogout>>
      BY <1>3 DEF S!SetEnvironment, S!SetEnv, S!saver, S!history, SessionAssumption
    <2> QED BY <2>1, SessionTypeNext
  <1>4. CASE S!Logout \/ S!Unauthorized
    <2>1. /\ creds' = None /\ showNav' = FALSE /\ name' = None /\ envid' = None /\ auth' = None
          /\ page' = "login" /\ bar' = FALSE /\ form' \in {form, S!Blank}
          /\ loggedOut' \in BOOLEAN
          /\ UNCHANGED <<nameSaver, username, loginEnv, environmentBiPass, env, call, typed, crossed,
                         askedEnv, envLogout>>
      BY <1>4 DEF S!Logout, S!Unauthorized, S!DoLogout, S!ClearCookies, S!saver, S!history
    <2> QED BY <2>1, SessionTypeNext
  <1>5. CASE S!GoToApp
    <2>1. /\ UNCHANGED <<nameSaver, username, loginEnv, environmentBiPass, env, typed, loggedOut, askedEnv,
                         envLogout>>
          /\ crossed' \in BOOLEAN
      BY <1>5 DEF S!GoToApp, S!saver
    <2>2. call' \in SessionCalls BY <1>5, RemainingCalls DEF S!GoToApp
    <2>3. /\ page' \in {"login", "app"} /\ bar' \in BOOLEAN /\ form' \in SessionForm /\ auth' \in SessionCreds
          /\ creds' \in SessionCreds /\ showNav' \in BOOLEAN /\ name' \in User \cup {None}
          /\ envid' \in Env \cup {None}
      BY <1>5, SessionToApp DEF S!GoToApp
    <2> QED BY <2>1, <2>2, <2>3, SessionTypeNext
  <1>6. CASE S!GoToLogin
    <2>1. UNCHANGED <<nameSaver, username, loginEnv, environmentBiPass, env, typed, loggedOut, crossed,
                      askedEnv, envLogout>>
      BY <1>6 DEF S!GoToLogin, S!saver, S!history
    <2>2. /\ page' \in {"login", "app"} /\ bar' \in BOOLEAN /\ form' \in SessionForm /\ auth' \in SessionCreds
          /\ creds' \in SessionCreds /\ showNav' \in BOOLEAN /\ name' \in User \cup {None}
          /\ envid' \in Env \cup {None} /\ call' \in SessionCalls
      BY <1>6, SessionToLogin DEF S!GoToLogin
    <2> QED BY <2>1, <2>2, SessionTypeNext
  <1>7. CASE S!Reload
    <2>1. /\ nameSaver' = name /\ env' \in {Prod, envid} /\ (envid = None => env' = Prod)
          /\ username' = None /\ loginEnv' = None /\ environmentBiPass' = FALSE
          /\ UNCHANGED <<typed, loggedOut, crossed, askedEnv, envLogout>>
      BY <1>7 DEF S!Reload, S!history
    <2>2. /\ page' \in {"login", "app"} /\ bar' \in BOOLEAN /\ form' \in SessionForm /\ auth' \in SessionCreds
          /\ creds' \in SessionCreds /\ showNav' \in BOOLEAN /\ name' \in User \cup {None}
          /\ envid' \in Env \cup {None} /\ call' \in SessionCalls
      <3>1. CASE page = "login" BY <1>7, <3>1, SessionToLogin DEF S!Reload
      <3>2. CASE page # "login" BY <1>7, <3>2, SessionToApp DEF S!Reload
      <3> QED BY <3>1, <3>2
    <2>3. env' \in Env BY <2>1 DEF SessionAssumption
    <2> QED BY <2>1, <2>2, <2>3, SessionTypeNext
  <1>8. CASE S!Expire
    <2>1. /\ creds' = None /\ showNav' = FALSE /\ name' \in {name, None} /\ envid' \in {envid, None}
          /\ UNCHANGED <<page, bar, form, auth, nameSaver, username, loginEnv, environmentBiPass, env, call,
                         typed, loggedOut, crossed, askedEnv, envLogout>>
      BY <1>8 DEF S!Expire, S!saver, S!history
    <2> QED BY <2>1, SessionTypeNext
  <1> QED BY <1>1, <1>2, <1>3, <1>4, <1>5, <1>6, <1>7, <1>8

\* The invariant holds at first.
LEMMA SessionInit ==
  ASSUME SessionAssumption, S!Init
  PROVE  S!TypeOK /\ SessionFacts
  <1>1. S!TypeOK
    <2>1. /\ page = "login" /\ bar = FALSE /\ form = S!Blank /\ auth = None /\ creds = None /\ showNav = FALSE
          /\ name = None /\ envid = None /\ nameSaver = None /\ username = None /\ loginEnv = None
          /\ environmentBiPass = FALSE /\ env = Prod /\ call = [u \in Slot |-> None]
          /\ typed = FALSE /\ loggedOut = FALSE /\ crossed = FALSE /\ askedEnv = None /\ envLogout = None
      BY DEF S!Init
    <2>2. Prod \in Env BY DEF SessionAssumption
    <2> QED BY <2>1, <2>2, SessionValues, SessionTypeParts
  <1>2. \A kind : S!Waiting(kind) = {} BY DEF S!Init, S!Waiting
  <1>3. page = "login" /\ creds = None /\ loggedOut = FALSE /\ envLogout = None BY DEF S!Init
  <1>4. S!HeaderIsCookie /\ S!IdentityPaired /\ S!LoggedOutStays /\ S!EnvLogoutJustified
    BY <1>3 DEF S!HeaderIsCookie, S!IdentityPaired, S!LoggedOutStays, S!EnvLogoutJustified
  <1>5. S!FormsKept BY <1>2 DEF S!FormsKept
  <1>6. S!ChecksCross BY <1>2, <1>3 DEF S!ChecksCross
  <1>7. S!NamesPaired BY <1>2, <1>3 DEF S!NamesPaired
  <1>8. S!EnvAsked BY <1>2 DEF S!EnvAsked
  <1> QED BY <1>1, <1>4, <1>5, <1>6, <1>7, <1>8 DEF SessionFacts

\* Every step keeps the types and the invariant.
LEMMA SessionStep ==
  ASSUME SessionAssumption, S!TypeOK, SessionFacts, [S!Next]_(S!vars)
  PROVE  S!TypeOK' /\ SessionFacts'
  <1>1. ASSUME NEW s \in Slot,
               \/ S!LoginAnswer(s) \/ S!LoginFails(s) \/ S!RestoreAnswer(s)
               \/ S!OptionsAnswer(s) \/ S!CallFails(s)
        PROVE  S!TypeOK' /\ SessionFacts'
    <2>1. S!TypeOK' BY <1>1, SessionTypeAnswers
    <2>2. SessionFacts' BY <1>1, SessionLoginAnswer, SessionFails, SessionRestore, SessionOptions
    <2> QED BY <2>1, <2>2
  <1>2. ASSUME \/ S!Type \/ S!Login \/ S!SetEnvironment \/ S!Logout \/ S!Unauthorized
               \/ S!GoToApp \/ S!GoToLogin \/ S!Reload \/ S!Expire
        PROVE  S!TypeOK' /\ SessionFacts'
    <2>1. S!TypeOK' BY <1>2, SessionTypeSteps
    <2>2. SessionFacts'
      BY <1>2, SessionQuiet, SessionLogin, SessionLogout, SessionGoToApp, SessionGoToLogin, SessionReload
    <2> QED BY <2>1, <2>2
  <1>3. CASE UNCHANGED S!vars
    <2>1. UNCHANGED <<page, bar, form, auth, creds, showNav, name, envid, nameSaver, username, loginEnv,
                      environmentBiPass, env, call, typed, loggedOut, crossed, askedEnv, envLogout>>
      BY <1>3 DEF S!vars, S!cookies, S!saver, S!history
    <2>2. S!TypeOK' BY <2>1 DEF S!TypeOK
    <2>3. \A u \in Slot : SameCall(u) BY <2>1, SameWhere DEF SessionFacts
    <2>4. /\ S!FormsKept'
          /\ S!Waiting("login")' \subseteq S!Waiting("login")
          /\ \A u \in S!Waiting("login")' : call'[u].user = call[u].user
          /\ \A u \in S!Waiting("restore")' :
               \/ u \in S!Waiting("restore") /\ call'[u].user = call[u].user
               \/ page = "app" /\ page' = "login" /\ call'[u].user = name
      BY <2>1, <2>3, SameWaits DEF SessionFacts
    <2>5. S!Waiting("login") \subseteq S!Waiting("login")' BY <2>1 DEF S!Waiting
    <2>6. S!Waiting("options")' # {} =>
               /\ S!Waiting("options") # {}
               /\ username' = username /\ loginEnv' = loginEnv /\ askedEnv' = askedEnv
      BY <2>1, <2>3, SameWaits DEF SessionFacts
    <2>7. page' = "app" /\ creds' # None => auth' = creds' BY <2>1 DEF SessionFacts, S!HeaderIsCookie
    <2>8. SessionFacts' BY <2>1, <2>4, <2>5, <2>6, <2>7, SessionKeeps
    <2> QED BY <2>2, <2>8
  <1> QED BY <1>1, <1>2, <1>3 DEF S!Next

-----------------------------------------------------------------------------
(* The behaviours of the browser that are the session's.                   *)

SessionHolds == part = "session" => S!TypeOK /\ SessionFacts

\* They hold in the session's behaviours.
LEMMA SessionAlways == Spec => []SessionHolds
  <1>1. Init => SessionHolds BY SessionInit, SessionAssumption DEF Init, SessionHolds
  <1>2. SessionHolds /\ [Next]_vars => SessionHolds'
    <2> SUFFICES ASSUME SessionHolds, [Next]_vars, part' = "session"
                 PROVE  S!TypeOK' /\ SessionFacts'
      BY DEF SessionHolds
    <2>1. part = "session" /\ [S!Next]_(S!vars)
      BY DEF Next, vars, sessionVars, S!vars, S!cookies, S!saver, S!history
    <2>2. S!TypeOK /\ SessionFacts BY <2>1 DEF SessionHolds
    <2> QED BY <2>1, <2>2, SessionStep, SessionAssumption
  <1> QED BY <1>1, <1>2, PTL DEF Spec

\* Outside the login page every call carries the credentials the cookie keeps,
\* whatever answers of logins, restored sessions and 401s come, in any order.
THEOREM HeadersAreCookies == Spec => []HeaderIsCookie
  <1>1. SessionHolds => HeaderIsCookie BY DEF SessionHolds, SessionFacts, HeaderIsCookie
  <1> QED BY <1>1, SessionAlways, PTL

\* For any users and any number of calls under way, the credentials kept name the
\* user whose token they carry, unless the form was changed under a login.
THEOREM IdentitiesArePaired == Spec => []IdentityPaired
  <1>1. SessionHolds => IdentityPaired BY DEF SessionHolds, SessionFacts, IdentityPaired
  <1> QED BY <1>1, SessionAlways, PTL

\* No answer logs in again a user who logged out while no login was under way.
THEOREM LogoutsLast == Spec => []LoggedOutStays
  <1>1. SessionHolds => LoggedOutStays BY DEF SessionHolds, SessionFacts, LoggedOutStays
  <1> QED BY <1>1, SessionAlways, PTL

\* The check of the environments logs out nobody who asked for one that is set up,
\* unless the form was changed under the login.
THEOREM EnvLogoutsAreJustified == Spec => []EnvLogoutJustified
  <1>1. SessionHolds => EnvLogoutJustified BY DEF SessionHolds, SessionFacts, EnvLogoutJustified
  <1> QED BY <1>1, SessionAlways, PTL

\* Replays are recorded for the user whose credentials are kept, unless logins
\* crossed or the form was changed under one.
THEOREM ReplaysAreNamed == Spec => []ReplaysNamed
  <1>1. SessionHolds => ReplaysNamed
    <2> SUFFICES ASSUME S!ChecksCross, S!NamesPaired PROVE S!ReplaysNamed
      BY DEF SessionHolds, SessionFacts, ReplaysNamed
    <2>1. page = "app" /\ S!Waiting("login") # {} => crossed BY DEF S!ChecksCross, S!Checks
    <2> QED BY <2>1 DEF S!NamesPaired, S!ReplaysNamed
  <1> QED BY <1>1, SessionAlways, PTL

-----------------------------------------------------------------------------
(* Settings: the types.                                                    *)

SettingsHeld == T!Held \cup {NoSettings}
SettingsPage == [open : BOOLEAN, waiting : SUBSET {"then", "catch", "finally"},
                 read : SettingsHeld, settings : SettingsHeld]
SettingsPost == [at : {"idle", "count", "find", "remove", "insert"}, settings : SettingsHeld,
                 found : T!Doc \cup {NoSettings}]

\* The types, one by one, of this state.
LEMMA SettingsTypeParts ==
  T!TypeOK <=>
    /\ docs \subseteq T!Doc /\ fresh \in 1..MaxSaves + 1 /\ saves \in 0..MaxSaves /\ faults \in 0..MaxFaults
    /\ page \in [Page -> SettingsPage] /\ post \in [Page -> SettingsPost]
    /\ known \subseteq T!Entry /\ causes \subseteq {"default", "stale", "overlap", "fault"}
  BY DEF T!TypeOK, SettingsPage, SettingsPost, SettingsHeld

\* The same, of the next state.
LEMMA SettingsTypeNext ==
  ASSUME docs' \subseteq T!Doc, fresh' \in 1..MaxSaves + 1, saves' \in 0..MaxSaves,
         faults' \in 0..MaxFaults, page' \in [Page -> SettingsPage], post' \in [Page -> SettingsPost],
         known' \subseteq T!Entry, causes' \subseteq {"default", "stale", "overlap", "fault"}
  PROVE  T!TypeOK'
  BY DEF T!TypeOK, SettingsPage, SettingsPost, SettingsHeld, T!Doc, T!Entry, T!Held

\* The settings a page holds have all that was stored, or say why not.
Has(x, stored) == x = NoSettings \/ x.default \/ x.stale \/ stored \subseteq x.entries

SettingsFacts ==
  /\ T!Posted /\ T!Counted /\ T!OneAtATime /\ T!AllHeld /\ T!EntriesKept

\* Nothing known is missing from a POST, nor from a page.
LEMMA AllHeldParts ==
  T!AllHeld <=>
    (causes = {} => /\ \A p \in T!Busy : known \subseteq post[p].settings.entries
                    /\ \A p \in Page : Has(page[p].read, known) /\ Has(page[p].settings, known))
  BY DEF T!AllHeld, Has

\* A step of a page leaves the documents and the service alone.
LEMMA PageStep ==
  ASSUME SettingsAssumption, T!TypeOK, SettingsFacts, NEW p \in Page, NEW x \in SettingsPage,
         page' = [page EXCEPT ![p] = x],
         causes = {} => Has(x.read, known) /\ Has(x.settings, known),
         UNCHANGED <<docs, fresh, post, saves, faults, known, causes>>
  PROVE  T!TypeOK' /\ SettingsFacts'
  <1>1. page' \in [Page -> SettingsPage] BY SettingsTypeParts
  <1>2. T!TypeOK' BY <1>1, SettingsTypeParts, SettingsTypeNext
  <1>3. T!Busy' = T!Busy BY DEF T!Busy
  <1> USE DEF SettingsFacts
  <1>4. T!Posted' BY <1>3 DEF T!Posted
  <1>5. T!Counted' BY <1>3 DEF T!Counted
  <1>6. T!OneAtATime' BY DEF T!OneAtATime
  <1>7. T!EntriesKept' BY DEF T!EntriesKept
  <1>8. T!AllHeld'
    <2>1. causes = {} => \A q \in Page : Has(page'[q].read, known) /\ Has(page'[q].settings, known)
      <3> SUFFICES ASSUME causes = {}, NEW q \in Page
                   PROVE  Has(page'[q].read, known) /\ Has(page'[q].settings, known)
        OBVIOUS
      <3>1. page'[q] = IF q = p THEN x ELSE page[q] BY SettingsTypeParts
      <3> QED BY <3>1, AllHeldParts
    <2>2. causes' = {} =>
            /\ \A q \in T!Busy' : known' \subseteq post'[q].settings.entries
            /\ \A q \in Page : Has(page'[q].read, known') /\ Has(page'[q].settings, known')
      BY <1>3, <2>1, AllHeldParts
    <2> QED BY <2>2 DEF T!AllHeld, Has
  <1> QED BY <1>2, <1>4, <1>5, <1>6, <1>7, <1>8

\* The steps of the page.
LEMMA SettingsPageSteps ==
  ASSUME SettingsAssumption, T!TypeOK, SettingsFacts, NEW p \in Page,
         \/ T!Open(p) \/ T!Leave(p) \/ T!AddNew(p)
         \/ T!GetRead(p) \/ T!Then(p) \/ T!Catch(p) \/ T!Finally(p)
  PROVE  T!TypeOK' /\ SettingsFacts'
  <1>1. /\ page \in [Page -> SettingsPage] /\ page[p] \in SettingsPage /\ docs \subseteq T!Doc
        /\ known \subseteq T!Entry
    BY SettingsTypeParts
  <1>2. CASE T!Open(p)
    <2> DEFINE x == [open |-> TRUE, waiting |-> {"then", "catch", "finally"}, read |-> NoSettings,
                     settings |-> NoSettings]
    <2>1. x \in SettingsPage /\ x.read = NoSettings /\ x.settings = NoSettings
      BY DEF SettingsPage, SettingsHeld
    <2>2. page' = [page EXCEPT ![p] = x] /\ UNCHANGED <<docs, fresh, post, saves, faults, known, causes>>
      BY <1>2 DEF T!Open
    <2> HIDE DEF x
    <2> QED BY <2>1, <2>2, PageStep DEF Has
  <1>3. CASE T!Leave(p)
    <2>1. T!Closed \in SettingsPage /\ T!Closed.read = NoSettings /\ T!Closed.settings = NoSettings
      BY DEF SettingsPage, SettingsHeld, T!Closed
    <2>2. page' = [page EXCEPT ![p] = T!Closed] /\ UNCHANGED <<docs, fresh, post, saves, faults, known, causes>>
      BY <1>3 DEF T!Leave
    <2> QED BY <2>1, <2>2, PageStep DEF Has
  <1>4. CASE T!AddNew(p)
    <2> DEFINE s == page[p].settings
               y == [n |-> s.n, entries |-> s.entries \cup {p}, default |-> s.default, stale |-> s.stale]
               x == [open |-> page[p].open, waiting |-> page[p].waiting, read |-> page[p].read,
                     settings |-> y]
    <2>1. s \in T!Held BY <1>1, <1>4 DEF T!AddNew, T!Usable, SettingsPage, SettingsHeld
    <2>2. y \in T!Held BY <2>1 DEF T!Held, T!Entry
    <2>3. x \in SettingsPage BY <1>1, <2>2 DEF SettingsPage, SettingsHeld
    <2>4. page' = [page EXCEPT ![p] = x] /\ UNCHANGED <<docs, fresh, post, saves, faults, known, causes>>
      <3>1. page' = [page EXCEPT ![p].settings.entries = @ \cup {p}] BY <1>4 DEF T!AddNew
      <3>2. y = [s EXCEPT !.entries = @ \cup {p}] BY <2>1 DEF T!Held
      <3>3. x = [page[p] EXCEPT !.settings = [s EXCEPT !.entries = @ \cup {p}]]
        <4>1. y \in SettingsHeld BY <2>2 DEF SettingsHeld
        <4> HIDE DEF y
        <4>2. x = [page[p] EXCEPT !.settings = y] BY <1>1, <4>1 DEF SettingsPage
        <4> QED BY <3>2, <4>2
      <3>4. page' = [page EXCEPT ![p] = [page[p] EXCEPT !.settings = [s EXCEPT !.entries = @ \cup {p}]]]
        BY <3>1
      <3> QED BY <3>3, <3>4, <1>4 DEF T!AddNew
    <2>5. causes = {} => Has(x.read, known) /\ Has(x.settings, known)
      <3>1. causes = {} => Has(s, known) /\ Has(page[p].read, known) BY AllHeldParts DEF SettingsFacts
      <3>2. Has(s, known) => Has(y, known) BY <1>4 DEF Has, T!AddNew, T!Usable
      <3> QED BY <3>1, <3>2
    <2> HIDE DEF x
    <2> QED BY <2>3, <2>4, <2>5, PageStep
  <1>5. /\ causes = {} => Has(page[p].read, known) /\ Has(page[p].settings, known)
        /\ page[p].read \in SettingsHeld /\ page[p].settings \in SettingsHeld
    BY <1>1, AllHeldParts DEF SettingsFacts, SettingsPage
  <1>6. CASE T!GetRead(p)
    <2>1. PICK d \in docs : docs = {d} /\ page' = [page EXCEPT ![p].read = T!Loaded(d)]
      BY <1>6 DEF T!GetRead
    <2> DEFINE y == T!Loaded(d)
               x == [open |-> page[p].open, waiting |-> page[p].waiting, read |-> y,
                     settings |-> page[p].settings]
    <2>2. y \in SettingsHeld BY <1>1, <2>1 DEF SettingsHeld, T!Held, T!Doc, T!Loaded
    <2>3. causes = {} => Has(y, known)
      <3>1. causes = {} => \A q \in Page : post[q].at # "insert"
        BY <2>1 DEF SettingsFacts, T!OneAtATime
      <3>2. causes = {} => known \subseteq UNION ({e.entries : e \in docs} \cup {})
        <4> SUFFICES ASSUME causes = {} PROVE known \subseteq UNION ({e.entries : e \in docs} \cup {})
          OBVIOUS
        <4>1. {post[q].settings.entries : q \in {r \in Page : post[r].at = "insert"}} = {} BY <3>1
        <4> QED BY <4>1 DEF SettingsFacts, T!EntriesKept
      <3>3. causes = {} => known \subseteq d.entries BY <2>1, <3>2
      <3> QED BY <3>3 DEF Has, T!Loaded
    <2> HIDE DEF y
    <2>4. x \in SettingsPage /\ x = [page[p] EXCEPT !.read = y] BY <1>1, <2>2 DEF SettingsPage
    <2>5. page' = [page EXCEPT ![p] = x] BY <2>1, <2>4 DEF y
    <2>6. x.read = y /\ x.settings = page[p].settings OBVIOUS
    <2>7. UNCHANGED <<docs, fresh, post, saves, faults, known, causes>> BY <1>6 DEF T!GetRead
    <2> HIDE DEF x
    <2> QED BY <1>5, <2>3, <2>4, <2>5, <2>6, <2>7, PageStep
  <1>7. ASSUME NEW get, NEW y \in SettingsHeld, T!Got(p, get, y), causes = {} => Has(y, known)
        PROVE  T!TypeOK' /\ SettingsFacts'
    <2> DEFINE z == IF get = "then" THEN NoSettings ELSE page[p].read
               x == [open |-> page[p].open, waiting |-> page[p].waiting \ {get}, read |-> z,
                     settings |-> y]
    <2>1. z \in SettingsHeld /\ (causes = {} => Has(z, known)) BY <1>5 DEF SettingsHeld, Has
    <2>2. page' = [page EXCEPT ![p].waiting = @ \ {get}, ![p].settings = y,
                               ![p].read = IF get = "then" THEN NoSettings ELSE @]
      BY <1>7 DEF T!Got
    <2>3. page[p] \in SettingsPage BY <1>1
    <2>4. x \in SettingsPage BY <1>7, <2>1, <2>3 DEF SettingsPage
    <2>5. page' = [page EXCEPT ![p] = x]
      <3> DEFINE w == [page EXCEPT ![p].waiting = @ \ {get}]
                 v == w[p]
                 w2 == [w EXCEPT ![p].settings = y]
                 v2 == w2[p]
      <3>1. /\ v \in SettingsPage /\ v.open = page[p].open /\ v.waiting = page[p].waiting \ {get}
            /\ v.read = page[p].read
        <4>1. v = [page[p] EXCEPT !.waiting = @ \ {get}] BY <1>1
        <4> QED BY <2>3, <4>1 DEF SettingsPage
      <3>2. v2 = [v EXCEPT !.settings = y] BY <1>1
      <3>3. page' = [w2 EXCEPT ![p].read = IF get = "then" THEN NoSettings ELSE @] BY <2>2
      <3>4. page' = [w2 EXCEPT ![p] = [v2 EXCEPT !.read = IF get = "then" THEN NoSettings ELSE @]]
        BY <3>3
      <3>5. [w2 EXCEPT ![p] = x] = [page EXCEPT ![p] = x] BY <1>1
      <3> HIDE DEF v, v2, w, w2
      <3>6. /\ v2 \in SettingsPage /\ v2.open = page[p].open /\ v2.settings = y
            /\ v2.waiting = page[p].waiting \ {get} /\ v2.read = page[p].read
        BY <1>7, <3>1, <3>2 DEF SettingsPage
      <3>7. [v2 EXCEPT !.read = IF get = "then" THEN NoSettings ELSE @] = x
        BY <3>6 DEF SettingsPage
      <3> HIDE DEF x
      <3> QED BY <3>4, <3>5, <3>7
    <2>6. x.read = z /\ x.settings = y OBVIOUS
    <2>7. UNCHANGED <<docs, fresh, post, saves, faults, known, causes>> BY <1>7 DEF T!Got
    <2> HIDE DEF x, z
    <2> QED BY <1>7, <2>1, <2>4, <2>5, <2>6, <2>7, PageStep
  <1>8. CASE T!Then(p) BY <1>5, <1>7, <1>8 DEF T!Then
  <1>9. CASE T!Catch(p)
    <2>1. T!Default \in SettingsHeld /\ Has(T!Default, known)
      BY DEF SettingsHeld, T!Held, T!Default, Has
    <2> QED BY <1>7, <1>9, <2>1 DEF T!Catch
  <1>10. CASE T!Finally(p) BY <1>5, <1>7, <1>10 DEF T!Finally
  <1> QED BY <1>2, <1>3, <1>4, <1>6, <1>8, <1>9, <1>10

\* The module's cardinality is that of the library.
LEMMA SettingsCardinality == \A A1 : T!Cardinality(A1) = Cardinality(A1)
  BY DEF T!Cardinality, Cardinality

\* The POSTs under way after a step of one.
LEMMA BusyNext ==
  ASSUME SettingsAssumption, T!TypeOK, NEW p \in Page, NEW x \in SettingsPost,
         post' = [post EXCEPT ![p] = x]
  PROVE  /\ T!Busy' = IF x.at = "idle" THEN T!Busy \ {p} ELSE T!Busy \cup {p}
         /\ post[p].at # "idle" <=> p \in T!Busy
         /\ IsFiniteSet(T!Busy) /\ Cardinality(T!Busy) \in Nat /\ Cardinality(T!Busy') \in Nat
         /\ p \in T!Busy /\ x.at = "idle" => Cardinality(T!Busy') = Cardinality(T!Busy) - 1
         /\ p \in T!Busy /\ x.at # "idle" => Cardinality(T!Busy') = Cardinality(T!Busy)
         /\ p \notin T!Busy /\ x.at = "idle" => Cardinality(T!Busy') = Cardinality(T!Busy)
         /\ p \notin T!Busy /\ x.at # "idle" => Cardinality(T!Busy') = Cardinality(T!Busy) + 1
  <1>1. \A q \in Page : post'[q] = IF q = p THEN x ELSE post[q] BY SettingsTypeParts
  <1>2. T!Busy' = {q \in Page : post'[q].at # "idle"} /\ T!Busy = {q \in Page : post[q].at # "idle"}
    BY DEF T!Busy
  <1>3. T!Busy' = IF x.at = "idle" THEN T!Busy \ {p} ELSE T!Busy \cup {p}
    BY <1>1, <1>2
  <1>4. IsFiniteSet(T!Busy)
    <2>1. T!Busy \subseteq Page BY DEF T!Busy
    <2> QED BY <2>1, FS_Subset DEF SettingsAssumption
  <1> DEFINE B == T!Busy
             C == T!Busy'
  <1>5. IsFiniteSet(B) /\ Cardinality(B) \in Nat BY <1>4, FS_CardinalityType
  <1>6. C = IF x.at = "idle" THEN B \ {p} ELSE B \cup {p} BY <1>3
  <1>7. p \in B <=> post[p].at # "idle" BY <1>2
  <1> HIDE DEF B, C
  <1>8. CASE x.at = "idle"
    <2>1. C = B \ {p} BY <1>6, <1>8
    <2>2. IsFiniteSet(C) /\ Cardinality(C) = IF p \in B THEN Cardinality(B) - 1 ELSE Cardinality(B)
      BY <1>5, <2>1, FS_RemoveElement
    <2>3. Cardinality(C) \in Nat BY <2>2, FS_CardinalityType
    <2> QED BY <1>3, <1>5, <1>7, <1>8, <2>2, <2>3 DEF B, C
  <1>9. CASE x.at # "idle"
    <2>1. C = B \cup {p} BY <1>6, <1>9
    <2>2. IsFiniteSet(C) /\ Cardinality(C) = IF p \in B THEN Cardinality(B) ELSE Cardinality(B) + 1
      BY <1>5, <2>1, FS_AddElement
    <2>3. Cardinality(C) \in Nat BY <2>2, FS_CardinalityType
    <2> QED BY <1>3, <1>5, <1>7, <1>9, <2>2, <2>3 DEF B, C
  <1> QED BY <1>8, <1>9

\* A step of a POST, up to its insert.
LEMMA PostStep ==
  ASSUME SettingsAssumption, T!TypeOK, SettingsFacts, NEW p \in Page, NEW x \in SettingsPost,
         post' = [post EXCEPT ![p] = x], UNCHANGED <<page, fresh, known>>,
         causes \subseteq causes', causes' \subseteq {"default", "stale", "overlap", "fault"},
         saves' \in 0..MaxSaves, saves' >= saves, faults' \in 0..MaxFaults,
         x.at # "idle" => x.settings \in T!Held,
         x.at # "idle" => post[p].at # "idle" \/ saves' = saves + 1,
         x.at # "idle" /\ causes' = {} => known \subseteq x.settings.entries,
         docs' = docs \/ (docs' \subseteq docs /\ x.at = "insert"),
         x.at = "insert" => "overlap" \in causes \/ docs' = {},
         x.at = "remove" => "overlap" \in causes \/ docs' \subseteq {x.found},
         post[p].at = "insert" => causes' # {}
  PROVE  T!TypeOK' /\ SettingsFacts'
  <1>1. /\ \A q \in Page : post'[q] = IF q = p THEN x ELSE post[q]
        /\ post' \in [Page -> SettingsPost]
    BY SettingsTypeParts
  <1>2. docs' \subseteq docs OBVIOUS
  <1>3. T!TypeOK' BY <1>1, <1>2, SettingsTypeParts, SettingsTypeNext
  <1> USE DEF SettingsFacts
  <1>4. \A q \in T!Busy' : q = p \/ q \in T!Busy BY <1>1 DEF T!Busy
  <1>5. p \in T!Busy' => x.at # "idle" BY <1>1 DEF T!Busy
  <1>6. T!Posted' BY <1>1, <1>4, <1>5 DEF T!Posted, T!Busy, T!Held
  <1>7. T!Counted'
    <2>1. fresh \in Nat /\ saves \in Nat /\ saves' \in Nat
      BY SettingsTypeParts DEF SettingsAssumption
    <2>2. \/ Cardinality(T!Busy') <= Cardinality(T!Busy)
          \/ Cardinality(T!Busy') = Cardinality(T!Busy) + 1 /\ saves' = saves + 1
      <3>1. /\ post[p].at # "idle" <=> p \in T!Busy
            /\ p \in T!Busy /\ x.at = "idle" => Cardinality(T!Busy') = Cardinality(T!Busy) - 1
            /\ p \in T!Busy /\ x.at # "idle" => Cardinality(T!Busy') = Cardinality(T!Busy)
            /\ p \notin T!Busy /\ x.at = "idle" => Cardinality(T!Busy') = Cardinality(T!Busy)
            /\ p \notin T!Busy /\ x.at # "idle" => Cardinality(T!Busy') = Cardinality(T!Busy) + 1
        BY BusyNext
      <3>2. Cardinality(T!Busy) \in Nat BY BusyNext
      <3> QED BY <3>1, <3>2
    <2>3. Cardinality(T!Busy) \in Nat /\ Cardinality(T!Busy') \in Nat BY BusyNext
    <2>4. fresh + Cardinality(T!Busy) <= saves + 1 BY SettingsCardinality DEF T!Counted
    <2>5. fresh' + Cardinality(T!Busy') <= saves' + 1 BY <2>1, <2>2, <2>3, <2>4
    <2>6. T!Cardinality(T!Busy') = Cardinality(T!Busy') BY SettingsCardinality
    <2> QED BY <2>5, <2>6 DEF T!Counted
  <1>8. T!OneAtATime'
    <2> SUFFICES ASSUME "overlap" \notin causes
                 PROVE  /\ \A d, e \in docs' : d = e
                        /\ \A q \in Page : post'[q].at = "insert" => docs' = {}
                        /\ \A q \in Page : post'[q].at = "remove" => docs' \subseteq {post'[q].found}
      BY DEF T!OneAtATime
    <2> QED BY <1>1, <1>2 DEF T!OneAtATime
  <1>9. T!AllHeld'
    <2> SUFFICES ASSUME causes' = {}
                 PROVE  /\ \A q \in T!Busy' : known' \subseteq post'[q].settings.entries
                        /\ \A q \in Page :
                             Has(page'[q].read, known') /\ Has(page'[q].settings, known')
      BY DEF T!AllHeld, Has
    <2>1. causes = {} OBVIOUS
    <2> QED BY <1>1, <1>4, <1>5, <2>1, AllHeldParts DEF T!Busy
  <1>10. T!EntriesKept'
    <2> SUFFICES ASSUME causes' = {}, NEW e \in known
                 PROVE  \/ \E d \in docs' : e \in d.entries
                        \/ \E q \in Page : post'[q].at = "insert" /\ e \in post'[q].settings.entries
      BY DEF T!EntriesKept
    <2>1. \/ \E d \in docs : e \in d.entries
          \/ \E q \in Page : post[q].at = "insert" /\ e \in post[q].settings.entries
      BY DEF T!EntriesKept
    <2>2. CASE docs' = docs BY <1>1, <2>1, <2>2
    <2>3. CASE x.at = "insert" BY <1>1, <2>3
    <2> QED BY <2>2, <2>3
  <1> QED BY <1>3, <1>6, <1>7, <1>8, <1>9, <1>10

\* A POST under way, for the steps of the service.
LEMMA PostParts ==
  ASSUME T!TypeOK, NEW p \in Page
  PROVE  /\ post[p] \in SettingsPost /\ T!Idle \in SettingsPost /\ T!Idle.at = "idle"
         /\ post[p].settings \in SettingsHeld /\ post[p].found \in T!Doc \cup {NoSettings}
         /\ NoSettings \in SettingsHeld /\ NoSettings \in T!Doc \cup {NoSettings}
         /\ \A a \in {"count", "find", "remove", "insert"}, s \in SettingsHeld, f \in T!Doc \cup {NoSettings} :
              [at |-> a, settings |-> s, found |-> f] \in SettingsPost
  BY SettingsTypeParts DEF SettingsPost, T!Idle, SettingsHeld

\* A POST that looks for documents, or removes one.
LEMMA PostMove ==
  ASSUME SettingsAssumption, T!TypeOK, SettingsFacts, NEW p \in Page, NEW x \in SettingsPost,
         post' = [post EXCEPT ![p] = x], UNCHANGED <<fresh, page, saves, faults, known, causes>>,
         post[p].at \notin {"idle", "insert"}, x.at # "idle" => x.settings = post[p].settings,
         docs' = docs \/ (docs' \subseteq docs /\ x.at = "insert"),
         x.at = "insert" => "overlap" \in causes \/ docs' = {},
         x.at = "remove" => "overlap" \in causes \/ docs' \subseteq {x.found}
  PROVE  T!TypeOK' /\ SettingsFacts'
  <1> USE DEF SettingsFacts
  <1>1. /\ post[p].settings \in T!Held
        /\ causes = {} => known \subseteq post[p].settings.entries
    BY AllHeldParts DEF T!Posted, T!Busy
  <1>2. /\ UNCHANGED <<page, fresh, known>>
        /\ causes \subseteq causes' /\ causes' \subseteq {"default", "stale", "overlap", "fault"}
        /\ saves' \in 0..MaxSaves /\ saves' >= saves /\ faults' \in 0..MaxFaults
    BY SettingsTypeParts DEF SettingsAssumption
  <1>3. /\ x.at # "idle" => x.settings \in T!Held
        /\ x.at # "idle" => post[p].at # "idle" \/ saves' = saves + 1
        /\ x.at # "idle" /\ causes' = {} => known \subseteq x.settings.entries
        /\ post[p].at = "insert" => causes' # {}
    BY <1>1
  <1> QED BY <1>2, <1>3, PostStep

\* The steps of a POST that keep what is stored, or remove it.
LEMMA SettingsPostSteps ==
  ASSUME SettingsAssumption, T!TypeOK, SettingsFacts, NEW p \in Page,
         T!SaveSetting(p) \/ T!Count(p) \/ T!Find(p) \/ T!Remove(p) \/ T!Fault(p)
  PROVE  T!TypeOK' /\ SettingsFacts'
  <1> USE DEF SettingsFacts
  <1>1. /\ post \in [Page -> SettingsPost] /\ page \in [Page -> SettingsPage] /\ post[p] \in SettingsPost
        /\ saves \in 0..MaxSaves /\ faults \in 0..MaxFaults /\ docs \subseteq T!Doc
        /\ causes \subseteq {"default", "stale", "overlap", "fault"} /\ saves \in Nat /\ faults \in Nat
        /\ MaxSaves \in Nat /\ MaxFaults \in Nat
    BY SettingsTypeParts DEF SettingsAssumption
  <1>2. post[p].at # "idle" => /\ post[p].settings \in T!Held
                               /\ causes = {} => known \subseteq post[p].settings.entries
    BY AllHeldParts DEF T!Posted, T!Busy
  <1>3. CASE T!SaveSetting(p)
    <2> DEFINE s == page[p].settings
               x == [at |-> "count", settings |-> s, found |-> NoSettings]
    <2>1. s \in T!Held BY <1>1, <1>3 DEF T!SaveSetting, T!Usable, SettingsPage, SettingsHeld
    <2>2. x \in SettingsPost BY <2>1, PostParts DEF SettingsHeld
    <2>3. /\ post' = [post EXCEPT ![p] = x] /\ UNCHANGED <<docs, fresh, page, faults, known>>
          /\ saves < MaxSaves /\ saves' = saves + 1 /\ s # NoSettings
          /\ causes' = causes \cup (IF s.default THEN {"default"} ELSE {})
                              \cup (IF s.stale THEN {"stale"} ELSE {})
      BY <1>3 DEF T!SaveSetting, T!Usable
    <2>4. causes' = {} => known \subseteq s.entries
      <3>1. causes' = {} => causes = {} /\ ~s.default /\ ~s.stale BY <2>3
      <3>2. causes = {} => Has(s, known) BY AllHeldParts
      <3> QED BY <2>3, <3>1, <3>2 DEF Has
    <2>5. post[p].at = "idle" BY <1>3 DEF T!SaveSetting
    <2>6. /\ causes \subseteq causes' /\ causes' \subseteq {"default", "stale", "overlap", "fault"}
      BY <1>1, <2>3
    <2>7. saves' \in 0..MaxSaves /\ saves' >= saves /\ faults' \in 0..MaxFaults BY <1>1, <2>3
    <2>8. x.at = "count" /\ x.settings = s OBVIOUS
    <2> HIDE DEF s, x
    <2> QED BY <2>1, <2>2, <2>3, <2>4, <2>5, <2>6, <2>7, <2>8, PostStep
  <1>4. CASE T!Count(p)
    <2> DEFINE a == IF docs = {} THEN "insert" ELSE "find"
               x == [at |-> a, settings |-> post[p].settings, found |-> post[p].found]
    <2>1. x \in SettingsPost BY PostParts
    <2>2. post' = [post EXCEPT ![p] = x]
      <3>1. x = [post[p] EXCEPT !.at = a] BY <1>1 DEF SettingsPost
      <3>2. post' = [post EXCEPT ![p].at = a] BY <1>4 DEF T!Count
      <3> QED BY <3>1, <3>2
    <2>3. UNCHANGED <<docs, fresh, page, saves, faults, known, causes>> /\ post[p].at = "count"
      BY <1>4 DEF T!Count
    <2>4. x.at \in {"insert", "find"} /\ (x.at = "insert" => docs = {}) /\ x.settings = post[p].settings OBVIOUS
    <2> HIDE DEF x
    <2> QED BY <2>1, <2>2, <2>3, <2>4, PostMove
  <1>5. CASE T!Find(p)
    <2>1. UNCHANGED <<docs, fresh, page, saves, faults, known, causes>> /\ post[p].at = "find"
      BY <1>5 DEF T!Find
    <2>2. CASE docs = {} /\ post' = [post EXCEPT ![p] = T!Idle]
      BY <2>1, <2>2, PostParts, PostMove
    <2>3. ASSUME NEW d \in docs, post' = [post EXCEPT ![p].at = "remove", ![p].found = d]
          PROVE  T!TypeOK' /\ SettingsFacts'
      <3> DEFINE x == [at |-> "remove", settings |-> post[p].settings, found |-> d]
      <3>1. x \in SettingsPost
        <4>1. d \in T!Doc \cup {NoSettings} BY <1>1
        <4> QED BY <4>1, PostParts
      <3>2. post' = [post EXCEPT ![p] = x]
        <4> DEFINE w == [post EXCEPT ![p].at = "remove"]
                   v == w[p]
        <4>1. v = [post[p] EXCEPT !.at = "remove"] /\ DOMAIN w = Page BY <1>1
        <4>2. v \in SettingsPost /\ v.at = "remove" /\ v.settings = post[p].settings
          BY <1>1, <4>1 DEF SettingsPost
        <4>3. post' = [w EXCEPT ![p] = [v EXCEPT !.found = d]] BY <2>3
        <4>4. [w EXCEPT ![p] = x] = [post EXCEPT ![p] = x] BY <1>1
        <4> HIDE DEF v, w
        <4>5. [v EXCEPT !.found = d] = x BY <4>2 DEF SettingsPost
        <4> QED BY <4>3, <4>4, <4>5
      <3>3. "overlap" \in causes \/ docs \subseteq {d} BY DEF T!OneAtATime
      <3>4. x.at = "remove" /\ x.found = d /\ x.settings = post[p].settings OBVIOUS
      <3> HIDE DEF x
      <3> QED BY <2>1, <3>1, <3>2, <3>3, <3>4, PostMove
    <2> QED BY <1>5, <2>2, <2>3 DEF T!Find
  <1>6. CASE T!Remove(p)
    <2> DEFINE x == [at |-> "insert", settings |-> post[p].settings, found |-> NoSettings]
    <2>1. x \in SettingsPost BY PostParts
    <2>2. post' = [post EXCEPT ![p] = x]
      <3> DEFINE w == [post EXCEPT ![p].at = "insert"]
                 v == w[p]
      <3>0. post' = [post EXCEPT ![p].at = "insert", ![p].found = NoSettings] BY <1>6 DEF T!Remove
      <3>1. v = [post[p] EXCEPT !.at = "insert"] /\ DOMAIN w = Page BY <1>1
      <3>2. v \in SettingsPost /\ v.at = "insert" /\ v.settings = post[p].settings
        BY <1>1, <3>1 DEF SettingsPost
      <3>3. post' = [w EXCEPT ![p] = [v EXCEPT !.found = NoSettings]] BY <3>0
      <3>4. [w EXCEPT ![p] = x] = [post EXCEPT ![p] = x] BY <1>1
      <3> HIDE DEF v, w
      <3>5. [v EXCEPT !.found = NoSettings] = x BY <3>2 DEF SettingsPost
      <3> QED BY <3>3, <3>4, <3>5
    <2>3. /\ docs' = docs \ {post[p].found} /\ post[p].at = "remove"
          /\ UNCHANGED <<fresh, page, saves, faults, known, causes>>
      BY <1>6 DEF T!Remove
    <2>4. "overlap" \in causes \/ docs' = {} BY <2>3 DEF T!OneAtATime
    <2>5. x.at = "insert" /\ x.settings = post[p].settings /\ docs' \subseteq docs BY <2>3
    <2> HIDE DEF x
    <2> QED BY <2>1, <2>2, <2>3, <2>4, <2>5, PostMove
  <1>7. CASE T!Fault(p)
    <2>1. /\ post' = [post EXCEPT ![p] = T!Idle] /\ faults < MaxFaults /\ faults' = faults + 1
          /\ causes' = causes \cup {"fault"}
          /\ UNCHANGED <<docs, fresh, page, saves, known>>
      BY <1>7 DEF T!Fault
    <2>2. faults' \in 0..MaxFaults /\ causes \subseteq causes' /\ causes' # {}
          /\ causes' \subseteq {"default", "stale", "overlap", "fault"} /\ saves' >= saves
      BY <1>1, <2>1
    <2> QED BY <1>1, <2>1, <2>2, PostParts, PostStep
  <1> QED BY <1>3, <1>4, <1>5, <1>6, <1>7

\* A page's settings that have become stale.
LEMMA HeldStale ==
  ASSUME NEW s \in T!Held
  PROVE  LET y == [n |-> s.n, entries |-> s.entries, default |-> s.default, stale |-> TRUE] IN
         y \in T!Held /\ y = [s EXCEPT !.stale = TRUE] /\ y.stale
  <1> DEFINE y == [n |-> s.n, entries |-> s.entries, default |-> s.default, stale |-> TRUE]
  <1>1. y \in T!Held BY DEF T!Held
  <1>2. y = [s EXCEPT !.stale = TRUE]
    <2>1. ASSUME NEW v PROVE [n |-> s.n, entries |-> s.entries, default |-> s.default, stale |-> v] =
                             [s EXCEPT !.stale = v]
      BY DEF T!Held
    <2> QED BY <2>1
  <1> QED BY <1>1, <1>2

\* Settings that age are stale, or have what was stored.
LEMMA AgedParts ==
  ASSUME NEW s \in SettingsHeld, NEW d \in T!Doc
  PROVE  /\ T!Aged(s, d) \in SettingsHeld
         /\ Has(T!Aged(s, d), d.entries)
  <1>1. CASE s = NoSettings \/ d.entries \subseteq s.entries BY <1>1 DEF T!Aged, Has
  <1>2. CASE ~(s = NoSettings \/ d.entries \subseteq s.entries)
    <2>1. s \in T!Held BY <1>2 DEF SettingsHeld
    <2>2. T!Aged(s, d) = [s EXCEPT !.stale = TRUE] BY <1>2 DEF T!Aged
    <2> QED BY <2>1, <2>2, HeldStale DEF SettingsHeld, Has
  <1> QED BY <1>1, <1>2

\* A POST stores its settings.
LEMMA StoreStep ==
  ASSUME SettingsAssumption, T!TypeOK, SettingsFacts, NEW p \in Page, NEW d \in T!Doc,
         post[p].at = "insert", d.entries = post[p].settings.entries, T!Store(p, d),
         fresh' \in {fresh, fresh + 1}, UNCHANGED <<saves, faults>>
  PROVE  T!TypeOK' /\ SettingsFacts'
  <1> USE DEF SettingsFacts
  <1>1. /\ docs' = docs \cup {d} /\ known' = known \cup d.entries
        /\ causes' = causes \cup (IF \E q \in Page \ {p} : post[q].at # "idle" THEN {"overlap"} ELSE {})
        /\ post' = [post EXCEPT ![p] = T!Idle]
        /\ page' = [q \in Page |-> [page[q] EXCEPT !.settings = T!Aged(@, d), !.read = T!Aged(@, d)]]
    BY DEF T!Store
  <1>2. /\ page \in [Page -> SettingsPage] /\ post \in [Page -> SettingsPost] /\ docs \subseteq T!Doc
        /\ known \subseteq T!Entry /\ causes \subseteq {"default", "stale", "overlap", "fault"}
        /\ fresh \in Nat /\ saves \in 0..MaxSaves /\ saves \in Nat /\ faults \in 0..MaxFaults
        /\ fresh \in 1..MaxSaves + 1 /\ MaxSaves \in Nat
    BY SettingsTypeParts DEF SettingsAssumption
  <1>3. /\ \A q \in Page : post'[q] = IF q = p THEN T!Idle ELSE post[q]
        /\ post' \in [Page -> SettingsPost] /\ T!Idle.at = "idle"
    BY <1>1, <1>2, PostParts
  <1>4. ASSUME NEW q \in Page
        PROVE  /\ page'[q] \in SettingsPage
               /\ Has(page'[q].read, d.entries) /\ Has(page'[q].settings, d.entries)
    <2>1. page[q] \in SettingsPage /\ page[q].read \in SettingsHeld /\ page[q].settings \in SettingsHeld
      BY <1>2 DEF SettingsPage
    <2> DEFINE y == T!Aged(page[q].settings, d)
               z == T!Aged(page[q].read, d)
    <2>2. page'[q] = [page[q] EXCEPT !.settings = y, !.read = z] BY <1>1, <2>1 DEF SettingsPage
    <2>3. /\ y \in SettingsHeld /\ Has(y, d.entries)
          /\ z \in SettingsHeld /\ Has(z, d.entries)
      BY <2>1, AgedParts
    <2> HIDE DEF y, z
    <2>4. page'[q] \in SettingsPage /\ page'[q].settings = y /\ page'[q].read = z
      BY <2>1, <2>2, <2>3 DEF SettingsPage
    <2> QED BY <2>3, <2>4
  <1>5. page' \in [Page -> SettingsPage]
    <2>1. page' = [q \in Page |-> page'[q]] BY <1>1
    <2> QED BY <1>4, <2>1
  <1>6. /\ Cardinality(T!Busy') = Cardinality(T!Busy) - 1
        /\ Cardinality(T!Busy) \in Nat /\ Cardinality(T!Busy') \in Nat
    <2>1. p \in T!Busy BY DEF T!Busy
    <2> QED BY <1>1, <1>3, <2>1, PostParts, BusyNext
  <1>7. fresh + Cardinality(T!Busy) <= saves + 1 BY SettingsCardinality DEF T!Counted
  <1>8. fresh' + Cardinality(T!Busy') <= saves' + 1 BY <1>2, <1>6, <1>7
  <1>9. T!Counted'
    <2>1. T!Cardinality(T!Busy') = Cardinality(T!Busy') BY SettingsCardinality
    <2> QED BY <1>8, <2>1 DEF T!Counted
  <1>10. fresh' \in 1..MaxSaves + 1 BY <1>2, <1>6, <1>8
  <1>11. T!TypeOK'
    <2>1. docs' \subseteq T!Doc /\ d.entries \subseteq T!Entry BY <1>1, <1>2 DEF T!Doc
    <2>2. known' \subseteq T!Entry BY <1>1, <1>2, <2>1
    <2>3. causes' \subseteq {"default", "stale", "overlap", "fault"} BY <1>1, <1>2
    <2> QED BY <1>2, <1>3, <1>5, <1>10, <2>1, <2>2, <2>3, SettingsTypeNext
  <1>12. T!Posted' BY <1>3 DEF T!Posted, T!Busy, T!Held
  <1>13. ASSUME "overlap" \notin causes'
         PROVE  docs = {} /\ \A q \in Page : post'[q].at = "idle"
    BY <1>1, <1>3, <1>13 DEF T!OneAtATime
  <1>14. T!OneAtATime'
    <2> SUFFICES ASSUME "overlap" \notin causes'
                 PROVE  /\ \A a, b \in docs' : a = b
                        /\ \A q \in Page : post'[q].at = "insert" => docs' = {}
                        /\ \A q \in Page : post'[q].at = "remove" => docs' \subseteq {post'[q].found}
      BY DEF T!OneAtATime
    <2> QED BY <1>1, <1>13
  <1>15. causes' = {} => causes = {} /\ known' = d.entries
    <2> SUFFICES ASSUME causes' = {} PROVE causes = {} /\ known' = d.entries OBVIOUS
    <2>1. causes = {} BY <1>1
    <2>2. known \subseteq d.entries BY <2>1, AllHeldParts DEF T!Busy
    <2> QED BY <1>1, <2>1, <2>2
  <1>16. T!AllHeld'
    <2> SUFFICES ASSUME causes' = {}
                 PROVE  /\ \A q \in T!Busy' : known' \subseteq post'[q].settings.entries
                        /\ \A q \in Page :
                             Has(page'[q].read, known') /\ Has(page'[q].settings, known')
      BY DEF T!AllHeld, Has
    <2>1. T!Busy' = {} BY <1>13 DEF T!Busy
    <2>2. \A q \in Page : Has(page'[q].read, known') /\ Has(page'[q].settings, known')
      BY <1>4, <1>15
    <2> QED BY <2>1, <2>2
  <1>17. T!EntriesKept'
    <2> SUFFICES ASSUME causes' = {}, NEW e \in known' PROVE \E b \in docs' : e \in b.entries
      BY DEF T!EntriesKept
    <2> QED BY <1>1, <1>15
  <1> QED BY <1>9, <1>11, <1>12, <1>14, <1>16, <1>17

\* The insert of a POST.
LEMMA SettingsInsert ==
  ASSUME SettingsAssumption, T!TypeOK, SettingsFacts, NEW p \in Page, T!Insert(p)
  PROVE  T!TypeOK' /\ SettingsFacts'
  <1> DEFINE s == post[p].settings
  <1>1. /\ post[p].at = "insert" /\ UNCHANGED <<saves, faults>> /\ s \in T!Held
    BY DEF T!Insert, SettingsFacts, T!Posted, T!Busy
  <1>2. fresh \in 0..MaxSaves
    <2>1. /\ fresh \in Nat /\ fresh >= 1 /\ saves \in 0..MaxSaves /\ saves \in Nat /\ MaxSaves \in Nat
      BY SettingsTypeParts DEF SettingsAssumption
    <2>2. /\ Cardinality(T!Busy) \in Nat /\ Cardinality(T!Busy) # 0
      <3>1. T!Busy \subseteq Page /\ p \in T!Busy BY <1>1 DEF T!Busy
      <3>2. IsFiniteSet(T!Busy) BY <3>1, FS_Subset DEF SettingsAssumption
      <3> QED BY <3>1, <3>2, FS_CardinalityType, FS_EmptySet
    <2>3. fresh + Cardinality(T!Busy) <= saves + 1 BY SettingsCardinality DEF SettingsFacts, T!Counted
    <2> QED BY <2>1, <2>2, <2>3
  <1>3. CASE s.n = NoId /\ fresh' = fresh + 1 /\ T!Store(p, [n |-> fresh, string |-> FALSE, entries |-> s.entries])
    <2> DEFINE d == [n |-> fresh, string |-> FALSE, entries |-> s.entries]
    <2>1. d \in T!Doc /\ d.entries = s.entries BY <1>1, <1>2 DEF T!Doc, T!Held
    <2>2. T!Store(p, d) BY <1>3
    <2> HIDE DEF d
    <2> QED BY <1>1, <1>3, <2>1, <2>2, StoreStep
  <1>4. CASE s.n # NoId /\ fresh' = fresh /\ T!Store(p, [n |-> s.n, string |-> TRUE, entries |-> s.entries])
    <2> DEFINE d == [n |-> s.n, string |-> TRUE, entries |-> s.entries]
    <2>1. d \in T!Doc /\ d.entries = s.entries BY <1>1, <1>4 DEF T!Doc, T!Held
    <2>2. T!Store(p, d) BY <1>4
    <2> HIDE DEF d
    <2> QED BY <1>1, <1>4, <2>1, <2>2, StoreStep
  <1>5. CASE /\ fresh' = fresh /\ \E d \in docs : d.string /\ d.n = s.n
             /\ post' = [post EXCEPT ![p] = T!Idle] /\ UNCHANGED <<docs, page, known, causes>>
    <2>1. causes # {} BY <1>1, <1>5 DEF SettingsFacts, T!OneAtATime
    <2>2. /\ UNCHANGED <<page, fresh, known>>
          /\ causes \subseteq causes' /\ causes' \subseteq {"default", "stale", "overlap", "fault"}
          /\ saves' \in 0..MaxSaves /\ saves' >= saves /\ faults' \in 0..MaxFaults
      BY <1>1, <1>5, SettingsTypeParts DEF SettingsAssumption
    <2>3. T!Idle \in SettingsPost /\ T!Idle.at = "idle" BY PostParts
    <2>4. post' = [post EXCEPT ![p] = T!Idle] /\ docs' = docs /\ causes' # {} BY <1>5, <2>1
    <2> QED BY <2>2, <2>3, <2>4, PostStep
  <1> QED BY <1>3, <1>4, <1>5 DEF T!Insert

\* The invariant holds at first.
LEMMA SettingsInit ==
  ASSUME SettingsAssumption, T!Init
  PROVE  T!TypeOK /\ SettingsFacts
  <1>1. /\ \/ docs = {} /\ known = {}
           \/ docs = {[n |-> 0, string |-> FALSE, entries |-> {First}]} /\ known = {First}
        /\ fresh = 1 /\ page = [p \in Page |-> T!Closed] /\ post = [p \in Page |-> T!Idle]
        /\ saves = 0 /\ faults = 0 /\ causes = {} /\ MaxSaves \in Nat /\ MaxFaults \in Nat
    BY DEF T!Init, SettingsAssumption
  <1>2. T!Idle \in SettingsPost /\ T!Idle.at = "idle" BY DEF SettingsPost, T!Idle, SettingsHeld
  <1>3. T!Closed \in SettingsPage /\ T!Closed.read = NoSettings /\ T!Closed.settings = NoSettings
    BY DEF SettingsPage, SettingsHeld, T!Closed
  <1>4. T!TypeOK
    <2>1. page \in [Page -> SettingsPage] /\ post \in [Page -> SettingsPost] BY <1>1, <1>2, <1>3
    <2>2. docs \subseteq T!Doc /\ known \subseteq T!Entry
      <3>1. {First} \subseteq T!Entry BY DEF T!Entry
      <3>2. 0 \in 0..MaxSaves BY <1>1
      <3>3. [n |-> 0, string |-> FALSE, entries |-> {First}] \in T!Doc BY <3>1, <3>2 DEF T!Doc
      <3> QED BY <1>1, <3>1, <3>3
    <2> QED BY <1>1, <2>1, <2>2, SettingsTypeParts
  <1>5. T!Busy = {} /\ \A p \in Page : post[p].at = "idle" BY <1>1, <1>2 DEF T!Busy
  <1>6. T!Posted BY <1>5 DEF T!Posted
  <1>7. T!Counted
    <2>1. T!Cardinality(T!Busy) = 0 BY <1>5, SettingsCardinality, FS_EmptySet
    <2> QED BY <1>1, <2>1 DEF T!Counted
  <1>8. T!OneAtATime BY <1>1, <1>5 DEF T!OneAtATime
  <1>9. T!AllHeld
    <2>1. \A p \in Page : Has(page[p].read, known) /\ Has(page[p].settings, known)
      BY <1>1, <1>3 DEF Has
    <2> QED BY <1>5, <2>1, AllHeldParts
  <1>10. T!EntriesKept
    <2> SUFFICES ASSUME NEW e \in known PROVE \E d \in docs : e \in d.entries BY DEF T!EntriesKept
    <2> QED BY <1>1
  <1> QED BY <1>4, <1>6, <1>7, <1>8, <1>9, <1>10 DEF SettingsFacts

\* Every step keeps the types and the invariant.
LEMMA SettingsStep ==
  ASSUME SettingsAssumption, T!TypeOK, SettingsFacts, [T!Next]_(T!vars)
  PROVE  T!TypeOK' /\ SettingsFacts'
  <1>1. ASSUME NEW p \in Page,
               \/ T!Open(p) \/ T!Leave(p) \/ T!AddNew(p)
               \/ T!GetRead(p) \/ T!Then(p) \/ T!Catch(p) \/ T!Finally(p)
        PROVE  T!TypeOK' /\ SettingsFacts'
    BY <1>1, SettingsPageSteps
  <1>2. ASSUME NEW p \in Page, T!SaveSetting(p) \/ T!Count(p) \/ T!Find(p) \/ T!Remove(p) \/ T!Fault(p)
        PROVE  T!TypeOK' /\ SettingsFacts'
    BY <1>2, SettingsPostSteps
  <1>3. ASSUME NEW p \in Page, T!Insert(p) PROVE T!TypeOK' /\ SettingsFacts'
    BY <1>3, SettingsInsert
  <1>4. CASE UNCHANGED T!vars
    <2>1. UNCHANGED <<docs, fresh, page, post, saves, faults, known, causes>> BY <1>4 DEF T!vars
    <2>2. T!TypeOK' BY <2>1 DEF T!TypeOK
    <2>3. T!Busy' = T!Busy BY <2>1 DEF T!Busy
    <2>4. T!Posted' /\ T!Counted' BY <2>1, <2>3 DEF SettingsFacts, T!Posted, T!Counted
    <2>5. T!OneAtATime' BY <2>1 DEF SettingsFacts, T!OneAtATime
    <2>6. T!AllHeld' BY <2>1, <2>3 DEF SettingsFacts, T!AllHeld
    <2>7. T!EntriesKept' BY <2>1 DEF SettingsFacts, T!EntriesKept
    <2> QED BY <2>2, <2>4, <2>5, <2>6, <2>7 DEF SettingsFacts
  <1> QED BY <1>1, <1>2, <1>3, <1>4 DEF T!Next

-----------------------------------------------------------------------------
(* The behaviours of the browser that are the settings'.                   *)

SettingsHold == part = "settings" => T!TypeOK /\ SettingsFacts

\* They hold in the behaviours of the settings.
LEMMA SettingsAlways == Spec => []SettingsHold
  <1>1. Init => SettingsHold BY SettingsInit, SettingsAssumption DEF Init, SettingsHold
  <1>2. SettingsHold /\ [Next]_vars => SettingsHold'
    <2> SUFFICES ASSUME SettingsHold, [Next]_vars, part' = "settings"
                 PROVE  T!TypeOK' /\ SettingsFacts'
      BY DEF SettingsHold
    <2>1. part = "settings" /\ [T!Next]_(T!vars)
      BY DEF Next, vars, settingsVars, T!vars
    <2>2. T!TypeOK /\ SettingsFacts BY <2>1 DEF SettingsHold
    <2> QED BY <2>1, <2>2, SettingsStep, SettingsAssumption
  <1> QED BY <1>1, <1>2, PTL DEF Spec

\* For any number of pages and POSTs, nothing stored in the settings is lost to the
\* removal and the insert of a POST but for the named causes.
THEOREM EntriesAreKept == Spec => []EntriesKept
  <1>1. SettingsHold => EntriesKept BY DEF SettingsHold, SettingsFacts, EntriesKept
  <1> QED BY <1>1, SettingsAlways, PTL

\* There are two settings documents only after POSTs that overlapped.
THEOREM DocumentIsOne == Spec => []OneDocument
  <1>1. SettingsHold => OneDocument
    <2> SUFFICES ASSUME T!OneAtATime, "overlap" \notin causes PROVE ~(T!Cardinality(docs) > 1)
      BY DEF SettingsHold, SettingsFacts, OneDocument, T!OneDocument
    <2>1. \A d, e \in docs : d = e BY DEF T!OneAtATime
    <2>2. CASE docs = {} BY <2>2, SettingsCardinality, FS_EmptySet
    <2>3. CASE docs # {}
      <3>1. PICK d : docs = {d} BY <2>1, <2>3
      <3>2. Cardinality(docs) = 1 BY <3>1, FS_Singleton
      <3> QED BY <3>2, SettingsCardinality
    <2> QED BY <2>2, <2>3
  <1> QED BY <1>1, SettingsAlways, PTL

-----------------------------------------------------------------------------
(* Reports: rows without one of them, and what claims an id.               *)

\* A sequence without its element number n.
LEMMA RemoveAtParts ==
  ASSUME NEW A1, NEW s1 \in Seq(A1), NEW n \in DOMAIN s1
  PROVE  /\ R!RemoveAt(s1, n) \in Seq(A1) /\ DOMAIN R!RemoveAt(s1, n) = 1..(Len(s1) - 1)
         /\ \A i \in 1..(Len(s1) - 1) : R!RemoveAt(s1, n)[i] = IF i < n THEN s1[i] ELSE s1[i + 1]
  <1> DEFINE h == SubSeq(s1, 1, n - 1)
             t == SubSeq(s1, n + 1, Len(s1))
  <1>1. Len(s1) \in Nat /\ n \in 1..Len(s1) OBVIOUS
  <1>2. h \in Seq(A1) /\ Len(h) = n - 1 /\ \A i \in 1..(n - 1) : h[i] = s1[i]
    BY <1>1
  <1>3. t \in Seq(A1) /\ Len(t) = Len(s1) - n /\ \A i \in 1..(Len(s1) - n) : t[i] = s1[n + i]
    BY <1>1
  <1>4. R!RemoveAt(s1, n) = h \o t BY DEF R!RemoveAt
  <1> HIDE DEF h, t
  <1>5. h \o t \in Seq(A1) /\ Len(h \o t) = Len(s1) - 1 BY <1>1, <1>2, <1>3
  <1>6. \A i \in 1..(Len(s1) - 1) : (h \o t)[i] = IF i < n THEN s1[i] ELSE s1[i + 1]
    <2> TAKE i \in 1..(Len(s1) - 1)
    <2>1. i \in Nat /\ n \in Nat /\ i \in 1..Len(h \o t) BY <1>1, <1>5
    <2>2. (h \o t)[i] = IF i <= Len(h) THEN h[i] ELSE t[i - Len(h)]
      BY <1>2, <1>3, <1>5, <2>1
    <2>3. CASE i < n
      <3>1. i \in 1..(n - 1) /\ i <= Len(h) BY <1>2, <2>1, <2>3
      <3> QED BY <1>2, <2>2, <2>3, <3>1
    <2>4. CASE i >= n
      <3>1. /\ i - Len(h) \in 1..(Len(s1) - n) /\ ~(i <= Len(h)) /\ n + (i - Len(h)) = i + 1
        BY <1>1, <1>2, <2>1, <2>4
      <3>2. t[i - Len(h)] = s1[n + (i - Len(h))] BY <1>3, <3>1
      <3> QED BY <2>1, <2>2, <2>4, <3>1, <3>2
    <2> QED BY <2>1, <2>3, <2>4
  <1>7. DOMAIN (h \o t) = 1..(Len(s1) - 1)
    <2>1. DOMAIN (h \o t) = 1..Len(h \o t) BY <1>5
    <2> QED BY <1>5, <2>1
  <1> DEFINE rest == h \o t
  <1>8. rest \in Seq(A1) /\ DOMAIN rest = 1..(Len(s1) - 1) BY <1>5, <1>7
  <1>9. \A i \in 1..(Len(s1) - 1) : rest[i] = IF i < n THEN s1[i] ELSE s1[i + 1] BY <1>6
  <1>10. R!RemoveAt(s1, n) = rest BY <1>4
  <1> HIDE DEF rest
  <1> QED BY <1>8, <1>9, <1>10, Zenon

ReportId == R!Id \cup {NoId}
ReportRow == [report : Report, id : ReportId]

\* The types, one by one, of this state.
LEMMA ReportsTypeParts ==
  R!TypeOK <=>
    /\ DOMAIN docs \subseteq R!Id /\ \A i \in DOMAIN docs : docs[i] \in Report
    /\ gets \subseteq R!Handler /\ ready \in BOOLEAN
    /\ reports \in Seq(ReportRow) /\ listing \in Seq(ReportRow)
    /\ temprep \in ReportId /\ calls \subseteq R!Call /\ sends \in 0..MaxSends
    /\ added \subseteq Report /\ issued \in 0..MaxIds /\ sent \subseteq Report
    /\ shifted \in BOOLEAN /\ again \in BOOLEAN /\ kept \in BOOLEAN /\ replaced \subseteq Report
  BY DEF R!TypeOK, ReportId, ReportRow

\* The same, of the next state.
LEMMA ReportsTypeNext ==
  ASSUME DOMAIN docs' \subseteq R!Id, \A i \in DOMAIN docs' : docs'[i] \in Report,
         gets' \subseteq R!Handler, ready' \in BOOLEAN, listing' \in Seq(ReportRow),
         reports' \in Seq(ReportRow), temprep' \in ReportId, calls' \subseteq R!Call, sends' \in 0..MaxSends,
         added' \subseteq Report, issued' \in 0..MaxIds, sent' \subseteq Report,
         shifted' \in BOOLEAN, again' \in BOOLEAN, kept' \in BOOLEAN, replaced' \subseteq Report
  PROVE  R!TypeOK'
  BY DEF R!TypeOK, ReportId, ReportRow, R!Call, R!Id

\* The fields of a row.
LEMMA RowParts ==
  ASSUME ReportsAssumption, R!TypeOK, NEW n \in DOMAIN reports
  PROVE  /\ reports[n] \in ReportRow /\ reports[n].report \in Report
         /\ reports[n].id \in ReportId /\ n \in Nat /\ n \in 1..Len(reports)
  <1>1. reports \in Seq(ReportRow) BY ReportsTypeParts
  <1>2. reports[n] \in ReportRow /\ n \in 1..Len(reports) /\ n \in Nat BY <1>1
  <1> QED BY <1>1, <1>2 DEF ReportRow

\* The fields of a call.
LEMMA CallParts ==
  ASSUME R!TypeOK, NEW c \in calls
  PROVE  /\ c \in R!Call /\ c.kind \in {"save", "delete"} /\ c.report \in Report /\ c.id \in ReportId
         /\ c.index \in Nat /\ c.done \in BOOLEAN
  BY ReportsTypeParts DEF R!Call, ReportId

\* Who claims an id, before and after a step.
LEMMA ClaimOf ==
  ASSUME NEW a
  PROVE  /\ a \in R!Claims <=>
              \/ \E n \in DOMAIN reports : a = R!Claim(reports[n].id, reports[n].report)
              \/ \E n \in DOMAIN listing : a = R!Claim(listing[n].id, listing[n].report)
              \/ \E c \in calls : a = R!Claim(c.id, c.report)
              \/ \E i \in DOMAIN docs : a = R!Claim(i, docs[i])
         /\ a \in R!Claims' <=>
              \/ \E n \in DOMAIN reports' : a = R!Claim(reports'[n].id, reports'[n].report)
              \/ \E n \in DOMAIN listing' : a = R!Claim(listing'[n].id, listing'[n].report)
              \/ \E c \in calls' : a = R!Claim(c.id, c.report)
              \/ \E i \in DOMAIN docs' : a = R!Claim(i, docs'[i])
  BY DEF R!Claims

\* The fields of a claim.
LEMMA ClaimFields ==
  ASSUME NEW i, NEW r
  PROVE  R!Claim(i, r).id = i /\ R!Claim(i, r).report = r
  BY DEF R!Claim

\* The claims there are of rows, calls and documents, and of rows read.
LEMMA Claimed ==
  /\ \A n \in DOMAIN reports : R!Claim(reports[n].id, reports[n].report) \in R!Claims
  /\ \A n \in DOMAIN listing : R!Claim(listing[n].id, listing[n].report) \in R!Claims
  /\ \A c \in calls : R!Claim(c.id, c.report) \in R!Claims
  /\ \A i \in DOMAIN docs : R!Claim(i, docs[i]) \in R!Claims
  BY ClaimOf

ReportsFacts == R!Given /\ R!IdsDiffer /\ R!SavedOnce

\* The ids that were given, in both states.
LEMMA GivenView ==
  /\ R!Given <=> /\ \A a \in R!Claims : a.id # NoId => a.id \in 1..issued
                 /\ temprep # NoId => temprep \in 1..issued
  /\ R!Given' <=> /\ \A a \in R!Claims' : a.id # NoId => a.id \in 1..issued'
                  /\ temprep' # NoId => temprep' \in 1..issued'
  BY DEF R!Given

\* A step that gives no id, and claims none anew.
LEMMA ReportsKeep ==
  ASSUME ReportsFacts, issued' = issued, shifted => shifted', kept => kept', again => again',
         sent \subseteq sent',
         \A a \in R!Claims' : a.id = NoId \/ a.id = temprep \/ \E b \in R!Claims : b.id = a.id,
         temprep' = temprep \/ \E b \in R!Claims : b.id = temprep',
         ~shifted' /\ ~kept' => \A a \in R!Claims' : a \in R!Claims \/ a.id = NoId,
         ~shifted' /\ ~kept' =>
           \A c \in calls' : c.index \in DOMAIN reports' /\ reports'[c.index].report = c.report,
         ~shifted' /\ ~kept' /\ ~again' =>
           \A c \in calls' :
             \/ c.report \in sent'
             \/ \E a \in R!Claims : a.id # NoId /\ a.report = c.report
             \/ \E e \in calls : e.report = c.report,
         ~shifted' /\ ~kept' /\ ~again' =>
           \A c \in calls' : c.id = NoId =>
             \/ /\ c \in calls
                /\ \A e \in calls' :
                     \/ e \in calls \/ e.report \notin sent
                     \/ \E a \in R!Claims : a.id # NoId /\ a.report = e.report
             \/ c.report \notin sent /\ \A e \in calls' : e \in calls \/ e = c
  PROVE  ReportsFacts'
  <1> USE DEF ReportsFacts
  <1>1. R!Given' BY GivenView
  <1>2. R!IdsDiffer'
    <2> SUFFICES ASSUME ~shifted', ~kept'
                 PROVE  /\ \A a, b \in R!Claims' : a.id = b.id /\ a.id # NoId => a.report = b.report
                        /\ \A c \in calls' : c.index \in DOMAIN reports' /\ reports'[c.index].report = c.report
      BY DEF R!IdsDiffer, R!Moved
    <2>1. \A a, b \in R!Claims : a.id = b.id /\ a.id # NoId => a.report = b.report BY DEF R!IdsDiffer, R!Moved
    <2> QED BY <2>1
  <1>3. R!SavedOnce'
    <2> SUFFICES ASSUME ~shifted', ~kept', ~again'
                 PROVE  /\ \A a, b \in R!Claims' :
                             a.report = b.report /\ a.id # NoId /\ b.id # NoId => a.id = b.id
                        /\ \A a \in R!Claims' : a.id # NoId => a.report \in sent'
                        /\ \A c \in calls' : c.report \in sent'
                        /\ \A c \in calls' : c.id = NoId =>
                             /\ \A a \in R!Claims' : a.report = c.report => a.id = NoId
                             /\ \A e \in calls' : e.report = c.report => e = c
      BY DEF R!SavedOnce
    <2>1. /\ \A a, b \in R!Claims : a.report = b.report /\ a.id # NoId /\ b.id # NoId => a.id = b.id
          /\ \A a \in R!Claims : a.id # NoId => a.report \in sent
          /\ \A c \in calls : c.report \in sent
          /\ \A c \in calls : c.id = NoId =>
               /\ \A a \in R!Claims : a.report = c.report => a.id = NoId
               /\ \A e \in calls : e.report = c.report => e = c
      BY DEF R!SavedOnce
    <2>2. \A a \in R!Claims' : a \in R!Claims \/ a.id = NoId OBVIOUS
    <2>3. \A a, b \in R!Claims' : a.report = b.report /\ a.id # NoId /\ b.id # NoId => a.id = b.id
      BY <2>1, <2>2
    <2>4. \A a \in R!Claims' : a.id # NoId => a.report \in sent' BY <2>1, <2>2
    <2>5. \A c \in calls' : c.report \in sent' BY <2>1
    <2>6. ASSUME NEW c \in calls', c.id = NoId
          PROVE  /\ \A a \in R!Claims' : a.report = c.report => a.id = NoId
                 /\ \A e \in calls' : e.report = c.report => e = c
      <3>1. CASE c \in calls /\ \A e \in calls' :
                     \/ e \in calls \/ e.report \notin sent
                     \/ \E a \in R!Claims : a.id # NoId /\ a.report = e.report
        BY <2>1, <2>2, <2>6, <3>1
      <3>2. CASE c.report \notin sent /\ \A e \in calls' : e \in calls \/ e = c
        BY <2>1, <2>2, <2>6, <3>2
      <3> QED BY <2>6, <3>1, <3>2
    <2> QED BY <2>3, <2>4, <2>5, <2>6
  <1> QED BY <1>1, <1>2, <1>3

\* The rows below move up.
LEMMA SpliceParts ==
  ASSUME ReportsAssumption, R!TypeOK, NEW n \in DOMAIN reports, R!Splice(n)
  PROVE  /\ reports' \in Seq(ReportRow)
         /\ \A m \in DOMAIN reports' : \E k \in DOMAIN reports : reports'[m] = reports[k]
         /\ R!Misplaced
  <1>1. reports' = R!RemoveAt(reports, n) /\ R!Misplaced BY DEF R!Splice
  <1>2. reports \in Seq(ReportRow) BY ReportsTypeParts
  <1>3. /\ reports' \in Seq(ReportRow) /\ DOMAIN reports' = 1..(Len(reports) - 1)
        /\ \A i \in 1..(Len(reports) - 1) : reports'[i] = IF i < n THEN reports[i] ELSE reports[i + 1]
    BY <1>1, <1>2, RemoveAtParts
  <1>4. DOMAIN reports = 1..Len(reports) /\ Len(reports) \in Nat /\ n \in Nat BY <1>2
  <1>5. \A m \in DOMAIN reports' : \E k \in DOMAIN reports : reports'[m] = reports[k]
    <2> TAKE m \in DOMAIN reports'
    <2>1. m \in 1..(Len(reports) - 1) BY <1>3
    <2>2. m \in DOMAIN reports /\ m + 1 \in DOMAIN reports BY <1>4, <2>1
    <2> QED BY <1>3, <2>1, <2>2
  <1> QED BY <1>1, <1>3, <1>5

\* Whether a call's row moved is kept in mind.
LEMMA MisplacedParts ==
  ASSUME R!TypeOK, R!Misplaced
  PROVE  /\ shifted => shifted'
         /\ shifted' \in BOOLEAN
         /\ \A c \in calls' :
              shifted' \/ (c.index \in DOMAIN reports' /\ reports'[c.index].report = c.report)
  <1>1. shifted' = (shifted \/ \E c \in calls' : R!Moved(c)') BY DEF R!Misplaced
  <1>2. \A c \in calls' :
          R!Moved(c)' \/ (c.index \in DOMAIN reports' /\ reports'[c.index].report = c.report)
    BY DEF R!Moved
  <1>3. shifted \in BOOLEAN BY ReportsTypeParts
  <1>4. shifted' \in BOOLEAN BY <1>1
  <1>5. shifted => shifted' BY <1>1
  <1>6. \A c \in calls' : R!Moved(c)' => shifted' BY <1>1
  <1> QED BY <1>2, <1>4, <1>5, <1>6

\* A GET reads the documents.
LEMMA ReportsList ==
  ASSUME ReportsAssumption, R!TypeOK, ReportsFacts, R!ListReports
  PROVE  R!TypeOK' /\ ReportsFacts'
  <1>1. UNCHANGED <<docs, issued, gets, ready, reports, temprep, calls, sends, added, shifted,
                    sent, again, kept, replaced>>
    BY DEF R!ListReports, R!history
  <1> DEFINE k == R!Cardinality(DOMAIN docs)
  <1>2. PICK ids \in [1..k -> DOMAIN docs] :
          listing' = [n \in DOMAIN ids |-> [report |-> docs[ids[n]], id |-> ids[n]]]
    BY DEF R!ListReports, R!SetToSeqs
  <1>3. k \in Nat
    <2>1. R!Id \in SUBSET Nat /\ IsFiniteSet(R!Id) BY FS_Interval DEF R!Id, ReportsAssumption
    <2>2. IsFiniteSet(DOMAIN docs) BY <2>1, FS_Subset, ReportsTypeParts
    <2>3. Cardinality(DOMAIN docs) \in Nat BY <2>2, FS_CardinalityType
    <2> QED BY <2>3 DEF R!Cardinality, Cardinality
  <1> HIDE DEF k
  <1>4. \A n \in 1..k : [report |-> docs[ids[n]], id |-> ids[n]] \in ReportRow
    BY <1>2, ReportsTypeParts DEF ReportRow, ReportId
  <1>5. listing' \in [1..k -> ReportRow] BY <1>2, <1>4
  <1>6. listing' \in Seq(ReportRow) BY <1>3, <1>5
  <1>7. R!TypeOK' BY <1>1, <1>6, ReportsTypeParts, ReportsTypeNext
  <1>8. \A a \in R!Claims' : a \in R!Claims
    <2> SUFFICES ASSUME NEW a \in R!Claims' PROVE a \in R!Claims OBVIOUS
    <2>1. ASSUME NEW n \in DOMAIN listing', a = R!Claim(listing'[n].id, listing'[n].report)
          PROVE  a \in R!Claims
      <3>1. ids[n] \in DOMAIN docs /\ listing'[n].id = ids[n] /\ listing'[n].report = docs[ids[n]]
        BY <1>2, <2>1
      <3> QED BY <2>1, <3>1, Claimed
    <2> QED BY <1>1, <2>1, ClaimOf
  <1>9. ~shifted' /\ ~kept' =>
           \A c \in calls' : c.index \in DOMAIN reports' /\ reports'[c.index].report = c.report
    BY <1>1 DEF ReportsFacts, R!IdsDiffer, R!Moved
  <1>10. ReportsFacts' BY <1>1, <1>8, <1>9, ReportsKeep
  <1> QED BY <1>7, <1>10

\* What a GET has read replaces the rows.
LEMMA ReportsThen ==
  ASSUME ReportsAssumption, R!TypeOK, ReportsFacts, R!Then
  PROVE  R!TypeOK' /\ ReportsFacts'
  <1>1. /\ reports' = listing /\ ready' = TRUE /\ listing' = <<>> /\ gets' = gets \ {"then"}
        /\ UNCHANGED <<docs, issued, temprep, calls, sends, added, sent, again, kept, replaced>>
        /\ R!Misplaced
    BY DEF R!Then
  <1>2. /\ shifted => shifted'
        /\ shifted' \in BOOLEAN
        /\ \A c \in calls' :
             shifted' \/ (c.index \in DOMAIN reports' /\ reports'[c.index].report = c.report)
    BY <1>1, MisplacedParts
  <1>3. R!TypeOK'
    <2>1. reports' \in Seq(ReportRow) /\ listing' \in Seq(ReportRow) /\ gets' \subseteq R!Handler
      BY <1>1, ReportsTypeParts
    <2> QED BY <1>1, <1>2, <2>1, ReportsTypeParts, ReportsTypeNext
  <1>4. \A a \in R!Claims' : a \in R!Claims
    <2> SUFFICES ASSUME NEW a \in R!Claims' PROVE a \in R!Claims OBVIOUS
    <2>1. DOMAIN listing' = {} BY <1>1
    <2> QED BY <1>1, <2>1, ClaimOf
  <1>5. ReportsFacts' BY <1>1, <1>2, <1>4, ReportsKeep
  <1> QED BY <1>3, <1>5

\* A row to fill in replaces the rows.
LEMMA ReportsCatch ==
  ASSUME ReportsAssumption, R!TypeOK, ReportsFacts, R!Catch
  PROVE  R!TypeOK' /\ ReportsFacts'
  <1>1. PICK r \in Report \ added : /\ added' = added \cup {r}
                                    /\ reports' = <<[report |-> r, id |-> NoId]>>
    BY DEF R!Catch
  <1>2. /\ ready' = TRUE /\ gets' = gets \ {"catch"}
        /\ UNCHANGED <<docs, issued, listing, temprep, calls, sends, sent, again, kept, replaced>>
        /\ R!Misplaced
    BY DEF R!Catch
  <1>3. /\ shifted => shifted'
        /\ shifted' \in BOOLEAN
        /\ \A c \in calls' :
             shifted' \/ (c.index \in DOMAIN reports' /\ reports'[c.index].report = c.report)
    BY <1>2, MisplacedParts
  <1> DEFINE x == [report |-> r, id |-> NoId]
  <1>4. x \in ReportRow /\ x.id = NoId BY <1>1 DEF ReportRow, ReportId
  <1>5. reports' = <<x>> BY <1>1
  <1> HIDE DEF x
  <1>6. reports' \in Seq(ReportRow) /\ \A m \in DOMAIN reports' : reports'[m] = x BY <1>4, <1>5
  <1>7. R!TypeOK'
    <2>1. added' \subseteq Report /\ gets' \subseteq R!Handler BY <1>1, <1>2, ReportsTypeParts
    <2> QED BY <1>2, <1>3, <1>6, <2>1, ReportsTypeParts, ReportsTypeNext
  <1>8. \A a \in R!Claims' : a \in R!Claims \/ a.id = NoId
    <2> SUFFICES ASSUME NEW a \in R!Claims' PROVE a \in R!Claims \/ a.id = NoId OBVIOUS
    <2>1. ASSUME NEW m \in DOMAIN reports', a = R!Claim(reports'[m].id, reports'[m].report)
          PROVE  a.id = NoId
      BY <1>4, <1>6, <2>1, ClaimFields
    <2> QED BY <1>2, <2>1, ClaimOf
  <1>9. ReportsFacts' BY <1>2, <1>3, <1>8, ReportsKeep
  <1> QED BY <1>7, <1>9

\* The rows can be worked on.
LEMMA ReportsFinally ==
  ASSUME ReportsAssumption, R!TypeOK, ReportsFacts, R!Finally
  PROVE  R!TypeOK' /\ ReportsFacts'
  <1>1. /\ gets' = gets \ {"finally"}
        /\ UNCHANGED <<docs, issued, listing, ready, reports, temprep, calls, sends, added,
                       shifted, sent, again, kept, replaced>>
    BY DEF R!Finally, R!history
  <1>2. R!TypeOK'
    <2>1. gets' \subseteq R!Handler BY <1>1, ReportsTypeParts
    <2> QED BY <1>1, <2>1, ReportsTypeParts, ReportsTypeNext
  <1>3. \A a \in R!Claims' : a \in R!Claims BY <1>1, ClaimOf
  <1>4. ~shifted' /\ ~kept' =>
           \A c \in calls' : c.index \in DOMAIN reports' /\ reports'[c.index].report = c.report
    BY <1>1 DEF ReportsFacts, R!IdsDiffer, R!Moved
  <1>5. ReportsFacts' BY <1>1, <1>3, <1>4, ReportsKeep
  <1> QED BY <1>2, <1>5

\* A row is added.
LEMMA ReportsAdd ==
  ASSUME ReportsAssumption, R!TypeOK, ReportsFacts, R!AddNewAggrigated
  PROVE  R!TypeOK' /\ ReportsFacts'
  <1>1. PICK r \in Report \ added : /\ added' = added \cup {r}
                                    /\ reports' = Append(reports, [report |-> r, id |-> NoId])
    BY DEF R!AddNewAggrigated
  <1>2. UNCHANGED <<docs, issued, gets, listing, ready, temprep, calls, sends, shifted, sent,
                    again, kept, replaced>>
    BY DEF R!AddNewAggrigated, R!history, R!loading
  <1> DEFINE x == [report |-> r, id |-> NoId]
  <1>3. reports \in Seq(ReportRow) /\ x \in ReportRow
    BY <1>1, ReportsTypeParts DEF ReportRow, ReportId
  <1>4. x.report = r /\ x.id = NoId OBVIOUS
  <1> HIDE DEF x
  <1>5. /\ reports' \in Seq(ReportRow) /\ DOMAIN reports' = 1..(Len(reports) + 1)
        /\ DOMAIN reports = 1..Len(reports) /\ Len(reports) \in Nat
        /\ \A m \in 1..(Len(reports) + 1) : reports'[m] = IF m \in DOMAIN reports THEN reports[m] ELSE x
    BY <1>1, <1>3 DEF x
  <1>6. R!TypeOK'
    <2>1. added' \subseteq Report BY <1>1, ReportsTypeParts
    <2> QED BY <1>2, <1>5, <2>1, ReportsTypeParts, ReportsTypeNext
  <1>7. \A a \in R!Claims' : a \in R!Claims \/ a.id = NoId
    <2> SUFFICES ASSUME NEW a \in R!Claims' PROVE a \in R!Claims \/ a.id = NoId OBVIOUS
    <2>1. ASSUME NEW m \in DOMAIN reports', a = R!Claim(reports'[m].id, reports'[m].report)
          PROVE  a \in R!Claims \/ a.id = NoId
      BY <1>4, <1>5, <2>1, Claimed, ClaimFields
    <2> QED BY <1>2, <2>1, ClaimOf
  <1>8. ~shifted' /\ ~kept' =>
           \A c \in calls' : c.index \in DOMAIN reports' /\ reports'[c.index].report = c.report
    BY <1>2, <1>5 DEF ReportsFacts, R!IdsDiffer, R!Moved
  <1>9. R!TypeOK' /\ ReportsFacts' BY <1>2, <1>6, <1>7, <1>8, ReportsKeep
  <1> QED BY <1>9

\* A call is made for row n under the id that temprep has then.
LEMMA SendParts ==
  ASSUME ReportsAssumption, R!TypeOK, NEW n \in DOMAIN reports, NEW kind \in {"save", "delete"},
         NEW id \in ReportId, R!Send(kind, n, id)
  PROVE  /\ sends' \in 0..MaxSends /\ calls' \subseteq R!Call
         /\ \E c : /\ calls' = calls \cup {c} /\ c.report = reports[n].report /\ c.id = id
                   /\ c.index = n /\ c.kind = kind
  <1> DEFINE c == [kind |-> kind, report |-> reports[n].report, id |-> id, index |-> n, done |-> FALSE]
  <1>1. calls' = calls \cup {c} /\ sends < MaxSends /\ sends' = sends + 1 BY DEF R!Send
  <1>2. c \in R!Call BY RowParts DEF R!Call, ReportId
  <1>3. c.report = reports[n].report /\ c.id = id /\ c.index = n /\ c.kind = kind OBVIOUS
  <1> HIDE DEF c
  <1>4. sends' \in 0..MaxSends BY <1>1, ReportsTypeParts DEF ReportsAssumption
  <1>5. calls' \subseteq R!Call BY <1>1, <1>2, ReportsTypeParts
  <1> QED BY <1>1, <1>3, <1>4, <1>5

\* A row is saved.
LEMMA ReportsSave ==
  ASSUME ReportsAssumption, R!TypeOK, ReportsFacts, NEW n \in DOMAIN reports, R!Save(n)
  PROVE  R!TypeOK' /\ ReportsFacts'
  <1> DEFINE r == reports[n].report
  <1>1. /\ temprep' = IF reports[n].id # NoId THEN reports[n].id ELSE temprep
        /\ R!Send("save", n, temprep')
        /\ sent' = sent \cup {r}
        /\ UNCHANGED <<docs, issued, gets, listing, ready, reports, added, shifted, replaced>>
    BY DEF R!Save, R!loading
  <1>2. kept' = (kept \/ reports[n].id # temprep') BY DEF R!Save
  <1>3. again' = (again \/ (reports[n].id = NoId /\ r \in sent)) BY DEF R!Save
  <1>4. temprep' \in ReportId BY <1>1, RowParts, ReportsTypeParts
  <1>5. /\ sends' \in 0..MaxSends /\ calls' \subseteq R!Call
        /\ \E c : /\ calls' = calls \cup {c} /\ c.report = r /\ c.id = temprep' /\ c.index = n
    <2> DEFINE t == temprep'
    <2>1. t \in ReportId /\ R!Send("save", n, t) BY <1>1, <1>4
    <2> HIDE DEF t
    <2>2. /\ sends' \in 0..MaxSends /\ calls' \subseteq R!Call
          /\ \E c : /\ calls' = calls \cup {c} /\ c.report = reports[n].report /\ c.id = t
                    /\ c.index = n /\ c.kind = "save"
      BY <2>1, SendParts
    <2> QED BY <2>2 DEF t
  <1>6. PICK c : calls' = calls \cup {c} /\ c.report = r /\ c.id = temprep' /\ c.index = n BY <1>5
  <1>7. r \in Report BY RowParts
  <1>8. R!TypeOK'
    <2>1. reports' \in Seq(ReportRow) BY <1>1, ReportsTypeParts DEF ReportRow
    <2>2. sent' \subseteq Report /\ kept' \in BOOLEAN /\ again' \in BOOLEAN
      BY <1>1, <1>2, <1>3, <1>7, ReportsTypeParts
    <2> QED BY <1>1, <1>4, <1>5, <2>1, <2>2, ReportsTypeParts, ReportsTypeNext
  <1>9. \A a \in R!Claims' : a \in R!Claims \/ a = R!Claim(temprep', r)
    <2> SUFFICES ASSUME NEW a \in R!Claims' PROVE a \in R!Claims \/ a = R!Claim(temprep', r) OBVIOUS
    <2>1. ASSUME NEW e \in calls', a = R!Claim(e.id, e.report)
          PROVE  a \in R!Claims \/ a = R!Claim(temprep', r)
      BY <1>6, <2>1, Claimed
    <2> QED BY <1>1, <2>1, ClaimOf
  <1>10. R!Claim(reports[n].id, r) \in R!Claims BY Claimed
  <1>11. temprep' = temprep \/ \E b \in R!Claims : b.id = temprep' BY <1>1, <1>10, ClaimFields
  <1>12. \A a \in R!Claims' : a.id = NoId \/ a.id = temprep \/ \E b \in R!Claims : b.id = a.id
    BY <1>9, <1>11, ClaimFields
  <1>13. ~kept' => R!Claim(temprep', r) \in R!Claims BY <1>2, <1>10
  <1>14. ~shifted' /\ ~kept' => \A a \in R!Claims' : a \in R!Claims \/ a.id = NoId BY <1>9, <1>13
  <1>15. kept => kept' BY <1>2
  <1>16. again => again' BY <1>3
  <1>17. ~shifted' /\ ~kept' =>
           \A e \in calls' : e.index \in DOMAIN reports' /\ reports'[e.index].report = e.report
    BY <1>1, <1>6, <1>15 DEF ReportsFacts, R!IdsDiffer, R!Moved
  <1>18. \A e \in calls' : e.report \in sent' \/ \E d \in calls : d.report = e.report BY <1>1, <1>6
  <1>19. ~shifted' /\ ~kept' /\ ~again' =>
           \A d \in calls' : d.id = NoId =>
             \/ /\ d \in calls
                /\ \A e \in calls' :
                     \/ e \in calls \/ e.report \notin sent
                     \/ \E a \in R!Claims : a.id # NoId /\ a.report = e.report
             \/ d.report \notin sent /\ \A e \in calls' : e \in calls \/ e = d
    <2> SUFFICES ASSUME ~kept', ~again', NEW d \in calls', d.id = NoId
                 PROVE  \/ /\ d \in calls
                           /\ \A e \in calls' :
                                \/ e \in calls \/ e.report \notin sent
                                \/ \E a \in R!Claims : a.id # NoId /\ a.report = e.report
                        \/ d.report \notin sent /\ \A e \in calls' : e \in calls \/ e = d
      OBVIOUS
    <2>1. c.report \notin sent \/ \E a \in R!Claims : a.id # NoId /\ a.report = c.report
      <3>1. CASE reports[n].id = NoId BY <1>3, <1>6, <3>1
      <3>2. CASE reports[n].id # NoId
        <4>1. /\ R!Claim(reports[n].id, r).id = reports[n].id
              /\ R!Claim(reports[n].id, r).report = r
          BY ClaimFields
        <4> QED BY <1>6, <1>10, <3>2, <4>1
      <3> QED BY <3>1, <3>2
    <2>2. CASE d = c
      <3>1. c.report \notin sent BY <1>2, <1>3, <1>6, <2>2
      <3> QED BY <1>6, <2>2, <3>1
    <2>3. CASE d # c BY <1>6, <2>1, <2>3
    <2> QED BY <2>2, <2>3
  <1> HIDE DEF r
  <1>20. /\ issued' = issued /\ shifted' = shifted /\ sent \subseteq sent' BY <1>1
  <1>21. ~shifted' /\ ~kept' /\ ~again' =>
           \A e \in calls' :
             \/ e.report \in sent'
             \/ \E a \in R!Claims : a.id # NoId /\ a.report = e.report
             \/ \E d \in calls : d.report = e.report
    BY <1>18
  <1>22. ReportsFacts'
    BY <1>11, <1>12, <1>14, <1>15, <1>16, <1>17, <1>19, <1>20, <1>21, ReportsKeep
  <1> QED BY <1>8, <1>22

\* A row is deleted.
LEMMA ReportsDelete ==
  ASSUME ReportsAssumption, R!TypeOK, ReportsFacts, NEW n \in DOMAIN reports, R!Delete(n)
  PROVE  R!TypeOK' /\ ReportsFacts'
  <1>1. UNCHANGED <<docs, issued, gets, listing, ready, added, sent, again, kept, replaced>>
    BY DEF R!Delete, R!loading
  <1>2. CASE reports[n].id = NoId
    <2>1. UNCHANGED <<temprep, calls, sends>> /\ R!Splice(n) BY <1>2 DEF R!Delete
    <2>2. /\ reports' \in Seq(ReportRow)
          /\ \A m \in DOMAIN reports' : \E k \in DOMAIN reports : reports'[m] = reports[k]
          /\ shifted => shifted'
          /\ shifted' \in BOOLEAN
          /\ \A c \in calls' :
               shifted' \/ (c.index \in DOMAIN reports' /\ reports'[c.index].report = c.report)
      BY <2>1, SpliceParts, MisplacedParts
    <2>3. R!TypeOK'
      <3>1. reports' \in Seq(ReportRow) BY <1>1, <2>2 DEF ReportRow
      <3> QED BY <1>1, <2>1, <2>2, <3>1, ReportsTypeParts, ReportsTypeNext
    <2>4. \A a \in R!Claims' : a \in R!Claims
      <3> SUFFICES ASSUME NEW a \in R!Claims' PROVE a \in R!Claims OBVIOUS
      <3>1. ASSUME NEW m \in DOMAIN reports', a = R!Claim(reports'[m].id, reports'[m].report)
            PROVE  a \in R!Claims
        BY <2>2, <3>1, Claimed
      <3> QED BY <1>1, <2>1, <3>1, ClaimOf
    <2>5. ~shifted' /\ ~kept' =>
             \A c \in calls' : c.index \in DOMAIN reports' /\ reports'[c.index].report = c.report
      BY <2>2
    <2>6. ReportsFacts' BY <1>1, <2>1, <2>2, <2>4, <2>5, ReportsKeep
    <2> QED BY <2>3, <2>6
  <1>3. CASE reports[n].id # NoId
    <2> DEFINE r == reports[n].report
               id == reports[n].id
    <2>1. temprep' = id /\ R!Send("delete", n, id) /\ UNCHANGED <<reports, shifted>>
      BY <1>3 DEF R!Delete
    <2>2. id \in ReportId /\ r \in Report BY RowParts
    <2>3. /\ sends' \in 0..MaxSends /\ calls' \subseteq R!Call
          /\ \E c : /\ calls' = calls \cup {c} /\ c.report = r /\ c.id = id /\ c.index = n /\ c.kind = "delete"
      BY <2>1, <2>2, SendParts
    <2>4. PICK c : calls' = calls \cup {c} /\ c.report = r /\ c.id = id /\ c.index = n BY <2>3
    <2>5. R!TypeOK'
      <3>1. reports' \in Seq(ReportRow) BY <1>1, <2>1, ReportsTypeParts DEF ReportRow
      <3> QED BY <1>1, <2>1, <2>2, <2>3, <3>1, ReportsTypeParts, ReportsTypeNext
    <2>6. R!Claim(id, r) \in R!Claims /\ R!Claim(id, r).id = id /\ R!Claim(id, r).report = r
      BY Claimed, ClaimFields
    <2> HIDE DEF r, id
    <2>7. \A a \in R!Claims' : a \in R!Claims
      <3> SUFFICES ASSUME NEW a \in R!Claims' PROVE a \in R!Claims OBVIOUS
      <3>1. ASSUME NEW e \in calls', a = R!Claim(e.id, e.report) PROVE a \in R!Claims
        BY <2>4, <2>6, <3>1, Claimed
      <3> QED BY <1>1, <2>1, <3>1, ClaimOf
    <2>8. ~shifted' /\ ~kept' =>
             \A e \in calls' : e.index \in DOMAIN reports' /\ reports'[e.index].report = e.report
      BY <1>1, <2>1, <2>4 DEF ReportsFacts, R!IdsDiffer, R!Moved, r
    <2>9. \E a \in R!Claims : a.id # NoId /\ a.report = c.report BY <1>3, <2>4, <2>6 DEF id
    <2>10. c.id # NoId BY <1>3, <2>4 DEF id
    <2>11. ReportsFacts' BY <1>1, <2>1, <2>4, <2>6, <2>7, <2>8, <2>9, <2>10, ReportsKeep
    <2> QED BY <2>5, <2>11
  <1> QED BY <1>2, <1>3

\* A call that the service has carried out.
LEMMA CallDone ==
  ASSUME NEW c \in R!Call, NEW id \in R!Id
  PROVE  /\ [c EXCEPT !.id = id, !.done = TRUE] \in R!Call
         /\ [c EXCEPT !.id = id, !.done = TRUE].report = c.report
         /\ [c EXCEPT !.id = id, !.done = TRUE].id = id
         /\ [c EXCEPT !.id = id, !.done = TRUE].index = c.index
  <1>1. ASSUME NEW v \in BOOLEAN
        PROVE  /\ [c EXCEPT !.id = id, !.done = v] \in R!Call
               /\ [c EXCEPT !.id = id, !.done = v].report = c.report
               /\ [c EXCEPT !.id = id, !.done = v].id = id
               /\ [c EXCEPT !.id = id, !.done = v].index = c.index
    <2> DEFINE w == [c EXCEPT !.id = id]
    <2>1. w \in R!Call /\ w.report = c.report /\ w.id = id /\ w.index = c.index BY DEF R!Call
    <2>2. [c EXCEPT !.id = id, !.done = v] = [w EXCEPT !.done = v] OBVIOUS
    <2> HIDE DEF w
    <2>3. /\ [w EXCEPT !.done = v] \in R!Call /\ [w EXCEPT !.done = v].report = w.report
          /\ [w EXCEPT !.done = v].id = w.id /\ [w EXCEPT !.done = v].index = w.index
      BY <2>1 DEF R!Call
    <2> QED BY <2>1, <2>2, <2>3
  <1> QED BY <1>1

\* The service stores a report.
LEMMA ReportsStore ==
  ASSUME ReportsAssumption, R!TypeOK, ReportsFacts, R!NothingReplaced, NEW c \in calls, R!StoreReport(c)
  PROVE  R!TypeOK' /\ ReportsFacts' /\ R!NothingReplaced'
  <1> DEFINE id == IF c.id = NoId THEN issued + 1 ELSE c.id
             done == [c EXCEPT !.id = id, !.done = TRUE]
             r == c.report
  <1>1. /\ id \in R!Id /\ issued' = (IF c.id = NoId THEN id ELSE issued)
        /\ docs' = R!Put(id, r)
        /\ replaced' = replaced \cup ({docs[i] : i \in DOMAIN docs \cap {id}} \ {r})
        /\ calls' = (calls \ {c}) \cup {done}
        /\ UNCHANGED <<gets, listing, ready, reports, temprep, sends, added, shifted, sent, again, kept>>
    BY DEF R!StoreReport, R!loading
  <1>2. c \in R!Call /\ r \in Report BY CallParts
  <1>3. done \in R!Call /\ done.report = r /\ done.id = id /\ done.index = c.index BY <1>1, <1>2, CallDone
  <1>4. id = IF c.id = NoId THEN issued + 1 ELSE c.id OBVIOUS
  <1>5. /\ DOMAIN docs' = DOMAIN docs \cup {id}
        /\ \A i \in DOMAIN docs' : docs'[i] = IF i = id THEN r ELSE docs[i]
    BY <1>1 DEF R!Put
  <1>6. issued \in Nat /\ MaxIds \in Nat /\ id # NoId /\ (c.id = NoId => id \in 1..issued' /\ issued' \in 0..MaxIds)
    BY <1>1, ReportsTypeParts DEF ReportsAssumption, R!Id
  <1>7. R!TypeOK'
    <2>1. reports' \in Seq(ReportRow) BY <1>1, ReportsTypeParts DEF ReportRow
    <2>2. DOMAIN docs' \subseteq R!Id /\ \A i \in DOMAIN docs' : docs'[i] \in Report
      BY <1>1, <1>2, <1>5, ReportsTypeParts
    <2>3. replaced' \subseteq Report BY <1>1, ReportsTypeParts
    <2>4. calls' \subseteq R!Call BY <1>1, <1>3, ReportsTypeParts
    <2>5. issued' \in 0..MaxIds BY <1>1, <1>6, ReportsTypeParts
    <2> QED BY <1>1, <2>1, <2>2, <2>3, <2>4, <2>5, ReportsTypeParts, ReportsTypeNext
  <1> HIDE DEF id, done, r
  <1>8. R!Claim(id, r).id = id /\ R!Claim(id, r).report = r BY ClaimFields
  <1>9. \A a \in R!Claims' : a \in R!Claims \/ a = R!Claim(id, r)
    <2> SUFFICES ASSUME NEW a \in R!Claims' PROVE a \in R!Claims \/ a = R!Claim(id, r) OBVIOUS
    <2>1. ASSUME NEW e \in calls', a = R!Claim(e.id, e.report) PROVE a \in R!Claims \/ a = R!Claim(id, r)
      BY <1>1, <1>3, <2>1, Claimed
    <2>2. ASSUME NEW i \in DOMAIN docs', a = R!Claim(i, docs'[i]) PROVE a \in R!Claims \/ a = R!Claim(id, r)
      BY <1>5, <2>2, Claimed
    <2> QED BY <1>1, <2>1, <2>2, ClaimOf
  <1>10. ~shifted /\ ~kept =>
           \A e \in calls' : e.index \in DOMAIN reports' /\ reports'[e.index].report = e.report
    BY <1>1, <1>3 DEF ReportsFacts, R!IdsDiffer, R!Moved, r
  <1>11. CASE c.id # NoId
    <2>1. id = c.id /\ R!Claim(id, r) \in R!Claims BY <1>4, <1>11, Claimed DEF r
    <2>2. ReportsFacts'
      <3>1. \A a \in R!Claims' : a \in R!Claims BY <1>9, <2>1
      <3>2. \A e \in calls' : \E d \in calls : d.report = e.report BY <1>1, <1>3 DEF r
      <3>3. \A d \in calls' : d.id = NoId =>
              /\ d \in calls
              /\ \A e \in calls' :
                   \/ e \in calls \/ e.report \notin sent
                   \/ \E a \in R!Claims : a.id # NoId /\ a.report = e.report
        BY <1>1, <1>3, <1>6, <1>8, <2>1
      <3>4. issued' = issued BY <1>1, <1>11
      <3> QED BY <1>1, <1>10, <3>1, <3>2, <3>3, <3>4, ReportsKeep
    <2>3. R!NothingReplaced'
      <3> SUFFICES ASSUME ~shifted, ~kept PROVE replaced' = {} BY <1>1 DEF R!NothingReplaced
      <3>1. \A a, b \in R!Claims : a.id = b.id /\ a.id # NoId => a.report = b.report
        BY DEF ReportsFacts, R!IdsDiffer, R!Moved
      <3>2. \A i \in DOMAIN docs \cap {id} : docs[i] = r
        <4> TAKE i \in DOMAIN docs \cap {id}
        <4>1. R!Claim(i, docs[i]) \in R!Claims BY Claimed
        <4>2. R!Claim(i, docs[i]).id = i /\ R!Claim(i, docs[i]).report = docs[i] BY ClaimFields
        <4> QED BY <1>6, <1>8, <2>1, <3>1, <4>1, <4>2
      <3>3. replaced = {} BY DEF R!NothingReplaced
      <3> QED BY <1>1, <3>2, <3>3
    <2> QED BY <1>7, <2>2, <2>3
  <1>12. CASE c.id = NoId
    <2>1. id = issued + 1 /\ issued' = issued + 1 BY <1>1, <1>4, <1>12
    <2>2. R!Given BY DEF ReportsFacts
    <2>3. \A a \in R!Claims : a.id # NoId => a.id \in 1..issued BY <2>2, GivenView
    <2>4. id \notin 1..issued /\ 1..issued \subseteq 1..issued' /\ id \in 1..issued' BY <1>6, <2>1
    <2>5. \A a \in R!Claims : a.id # id BY <1>6, <2>3, <2>4
    <2>6. R!Given'
      <3>1. \A a \in R!Claims' : a.id # NoId => a.id \in 1..issued' BY <1>8, <1>9, <2>3, <2>4
      <3>2. temprep' # NoId => temprep' \in 1..issued' BY <1>1, <2>2, <2>4, GivenView
      <3> QED BY <3>1, <3>2, GivenView
    <2>7. R!IdsDiffer'
      <3> SUFFICES ASSUME ~shifted, ~kept
                   PROVE  \A a, b \in R!Claims' : a.id = b.id /\ a.id # NoId => a.report = b.report
        BY <1>1, <1>10 DEF R!IdsDiffer, R!Moved
      <3>1. \A a, b \in R!Claims : a.id = b.id /\ a.id # NoId => a.report = b.report
        BY DEF ReportsFacts, R!IdsDiffer, R!Moved
      <3> QED BY <1>8, <1>9, <2>5, <3>1
    <2>8. R!SavedOnce'
      <3> SUFFICES ASSUME ~shifted, ~kept, ~again
                   PROVE  /\ \A a, b \in R!Claims' :
                               a.report = b.report /\ a.id # NoId /\ b.id # NoId => a.id = b.id
                          /\ \A a \in R!Claims' : a.id # NoId => a.report \in sent
                          /\ \A d \in calls' : d.report \in sent
                          /\ \A d \in calls' : d.id = NoId =>
                               /\ \A a \in R!Claims' : a.report = d.report => a.id = NoId
                               /\ \A e \in calls' : e.report = d.report => e = d
        BY <1>1 DEF R!SavedOnce
      <3>1. /\ \A a, b \in R!Claims : a.report = b.report /\ a.id # NoId /\ b.id # NoId => a.id = b.id
            /\ \A a \in R!Claims : a.id # NoId => a.report \in sent
            /\ \A d \in calls : d.report \in sent
            /\ \A d \in calls : d.id = NoId =>
                 /\ \A a \in R!Claims : a.report = d.report => a.id = NoId
                 /\ \A e \in calls : e.report = d.report => e = d
        BY DEF ReportsFacts, R!SavedOnce
      <3>2. /\ \A a \in R!Claims : a.report = r => a.id = NoId
            /\ \A e \in calls : e.report = r => e = c
        BY <1>12, <3>1 DEF r
      <3>3. r \in sent BY <3>1 DEF r
      <3>4. \A a, b \in R!Claims' : a.report = b.report /\ a.id # NoId /\ b.id # NoId => a.id = b.id
        BY <1>8, <1>9, <3>1, <3>2
      <3>5. \A a \in R!Claims' : a.id # NoId => a.report \in sent BY <1>8, <1>9, <3>1, <3>3
      <3>6. \A d \in calls' : d.report \in sent BY <1>1, <1>3, <3>1, <3>3
      <3>7. ASSUME NEW d \in calls', d.id = NoId
            PROVE  /\ \A a \in R!Claims' : a.report = d.report => a.id = NoId
                   /\ \A e \in calls' : e.report = d.report => e = d
        <4>1. d \in calls /\ d # c BY <1>1, <1>3, <1>6, <3>7
        <4>2. d.report # r BY <3>2, <4>1
        <4> QED BY <1>1, <1>3, <1>8, <1>9, <3>1, <3>7, <4>1, <4>2
      <3> QED BY <3>4, <3>5, <3>6, <3>7
    <2>9. R!NothingReplaced'
      <3>1. id \notin DOMAIN docs
        <4> SUFFICES ASSUME id \in DOMAIN docs PROVE FALSE OBVIOUS
        <4>1. R!Claim(id, docs[id]) \in R!Claims BY Claimed
        <4> QED BY <2>5, <4>1, ClaimFields
      <3>2. replaced' = replaced BY <1>1, <3>1
      <3> QED BY <1>1, <3>2 DEF R!NothingReplaced
    <2> QED BY <1>7, <2>6, <2>7, <2>8, <2>9 DEF ReportsFacts
  <1> QED BY <1>11, <1>12

\* The service removes a report, or a call fails.
LEMMA ReportsRemove ==
  ASSUME ReportsAssumption, R!TypeOK, ReportsFacts, NEW c \in calls, R!RemoveReport(c) \/ R!Fail(c)
  PROVE  R!TypeOK' /\ ReportsFacts'
  <1>1. UNCHANGED <<issued, gets, listing, ready, reports, temprep, sends, added, shifted, sent,
                    again, kept, replaced>>
    BY DEF R!RemoveReport, R!Fail, R!history, R!loading
  <1>2. /\ DOMAIN docs' \subseteq DOMAIN docs /\ \A i \in DOMAIN docs' : docs'[i] = docs[i]
    BY DEF R!RemoveReport, R!Fail
  <1>3. /\ calls' \subseteq R!Call
        /\ \A e \in calls' :
             \/ e \in calls
             \/ e.report = c.report /\ e.id = c.id /\ e.index = c.index /\ c.id # NoId
    <2>1. CASE R!Fail(c)
      <3>1. calls' = calls \ {c} BY <2>1 DEF R!Fail
      <3> QED BY <3>1, ReportsTypeParts
    <2>2. CASE R!RemoveReport(c)
      <3> DEFINE done == [c EXCEPT !.done = TRUE]
      <3>1. calls' = (calls \ {c}) \cup {done} /\ c.id \in DOMAIN docs BY <2>2 DEF R!RemoveReport
      <3>2. c.id \in R!Id /\ c.id # NoId
        BY <3>1, ReportsTypeParts DEF R!Id, ReportsAssumption
      <3>3. done \in R!Call /\ done.report = c.report /\ done.id = c.id /\ done.index = c.index
        BY CallParts DEF R!Call
      <3> HIDE DEF done
      <3> QED BY <3>1, <3>2, <3>3, ReportsTypeParts
    <2> QED BY <2>1, <2>2
  <1>4. R!TypeOK'
    <2>1. reports' \in Seq(ReportRow) BY <1>1, ReportsTypeParts DEF ReportRow
    <2> QED BY <1>1, <1>2, <1>3, <2>1, ReportsTypeParts, ReportsTypeNext
  <1>5. R!Claim(c.id, c.report) \in R!Claims /\ R!Claim(c.id, c.report).id = c.id
        /\ R!Claim(c.id, c.report).report = c.report
    BY Claimed, ClaimFields
  <1>6. \A a \in R!Claims' : a \in R!Claims
    <2> SUFFICES ASSUME NEW a \in R!Claims' PROVE a \in R!Claims OBVIOUS
    <2>1. ASSUME NEW e \in calls', a = R!Claim(e.id, e.report) PROVE a \in R!Claims
      BY <1>3, <1>5, <2>1, Claimed
    <2>2. ASSUME NEW i \in DOMAIN docs', a = R!Claim(i, docs'[i]) PROVE a \in R!Claims
      BY <1>2, <2>2, Claimed
    <2> QED BY <1>1, <2>1, <2>2, ClaimOf
  <1>7. ~shifted' /\ ~kept' =>
           \A e \in calls' : e.index \in DOMAIN reports' /\ reports'[e.index].report = e.report
    BY <1>1, <1>3 DEF ReportsFacts, R!IdsDiffer, R!Moved
  <1>8. \A e \in calls' : \E d \in calls : d.report = e.report BY <1>3
  <1>9. \A d \in calls' : d.id = NoId =>
             /\ d \in calls
             /\ \A e \in calls' :
                  \/ e \in calls \/ e.report \notin sent
                  \/ \E a \in R!Claims : a.id # NoId /\ a.report = e.report
    BY <1>3, <1>5
  <1>10. ReportsFacts' BY <1>1, <1>6, <1>7, <1>8, <1>9, ReportsKeep
  <1> QED BY <1>4, <1>10

\* An answer is applied to the row with the number of the call.
LEMMA ReportsAnswer ==
  ASSUME ReportsAssumption, R!TypeOK, ReportsFacts, NEW c \in calls, R!Answer(c)
  PROVE  R!TypeOK' /\ ReportsFacts'
  <1>1. /\ calls' = calls \ {c}
        /\ UNCHANGED <<docs, issued, gets, listing, ready, temprep, sends, added, sent, again,
                       kept, replaced>>
    BY DEF R!Answer, R!loading
  <1>2. /\ R!Claim(c.id, c.report) \in R!Claims /\ R!Claim(c.id, c.report).id = c.id
        /\ R!Claim(c.id, c.report).report = c.report
    BY Claimed, ClaimFields
  <1>3. /\ reports' \in Seq(ReportRow) /\ shifted' \in BOOLEAN /\ (shifted => shifted')
        /\ \A m \in DOMAIN reports' :
             \/ \E k \in DOMAIN reports : reports'[m] = reports[k]
             \/ /\ m = c.index /\ m \in DOMAIN reports
                /\ reports'[m].id = c.id /\ reports'[m].report = reports[m].report
        /\ \A e \in calls' :
             \/ shifted'
             \/ e.index \in DOMAIN reports' /\ reports'[e.index].report = e.report
             \/ e.index \in DOMAIN reports =>
                  e.index \in DOMAIN reports' /\ reports'[e.index].report = reports[e.index].report
    <2> DEFINE n == c.index
    <2>0. reports \in Seq(ReportRow) /\ shifted \in BOOLEAN BY ReportsTypeParts
    <2>1. CASE UNCHANGED <<reports, shifted>> BY <2>0, <2>1
    <2>2. CASE n \in DOMAIN reports /\ reports' = [reports EXCEPT ![n].id = c.id] /\ shifted' = shifted
      <3> DEFINE x == [report |-> reports[n].report, id |-> c.id]
      <3>1. reports[n] \in ReportRow /\ x \in ReportRow /\ x = [reports[n] EXCEPT !.id = c.id]
        BY <2>2, RowParts, CallParts DEF ReportRow
      <3>2. reports' = [reports EXCEPT ![n] = x] BY <2>2, <3>1
      <3>3. x.id = c.id /\ x.report = reports[n].report OBVIOUS
      <3> HIDE DEF x, n
      <3>4. /\ reports' \in Seq(ReportRow) /\ DOMAIN reports' = DOMAIN reports
            /\ \A m \in DOMAIN reports : reports'[m] = IF m = n THEN x ELSE reports[m]
        BY <2>0, <2>2, <3>1, <3>2
      <3> QED BY <2>0, <2>2, <3>3, <3>4 DEF n
    <2>3. CASE n \in DOMAIN reports /\ R!Splice(n)
      BY <2>3, SpliceParts, MisplacedParts
    <2> QED BY <2>1, <2>2, <2>3 DEF R!Answer
  <1>4. R!TypeOK'
    <2>1. reports' \in Seq(ReportRow) BY <1>1, <1>3 DEF ReportRow
    <2>2. calls' \subseteq R!Call BY <1>1, ReportsTypeParts
    <2> QED BY <1>1, <1>3, <2>1, <2>2, ReportsTypeParts, ReportsTypeNext
  <1>5. \A a \in R!Claims' :
          \/ a \in R!Claims
          \/ a.id = c.id /\ c.index \in DOMAIN reports /\ a = R!Claim(c.id, reports[c.index].report)
    <2> SUFFICES ASSUME NEW a \in R!Claims'
                 PROVE  \/ a \in R!Claims
                        \/ a.id = c.id /\ c.index \in DOMAIN reports /\ a = R!Claim(c.id, reports[c.index].report)
      OBVIOUS
    <2>1. ASSUME NEW m \in DOMAIN reports', a = R!Claim(reports'[m].id, reports'[m].report)
          PROVE  \/ a \in R!Claims
                 \/ a.id = c.id /\ c.index \in DOMAIN reports /\ a = R!Claim(c.id, reports[c.index].report)
      BY <1>3, <2>1, Claimed, ClaimFields
    <2> QED BY <1>1, <2>1, ClaimOf
  <1>6. \A a \in R!Claims' : a.id = NoId \/ a.id = temprep \/ \E b \in R!Claims : b.id = a.id
    BY <1>2, <1>5
  <1>7. ~shifted' /\ ~kept' => \A a \in R!Claims' : a \in R!Claims \/ a.id = NoId
    <2> SUFFICES ASSUME ~shifted, ~kept PROVE \A a \in R!Claims' : a \in R!Claims BY <1>1, <1>3
    <2>1. reports[c.index].report = c.report BY DEF ReportsFacts, R!IdsDiffer, R!Moved
    <2> QED BY <1>2, <1>5, <2>1
  <1>8. ~shifted' /\ ~kept' =>
           \A e \in calls' : e.index \in DOMAIN reports' /\ reports'[e.index].report = e.report
    BY <1>1, <1>3 DEF ReportsFacts, R!IdsDiffer, R!Moved
  <1>9. ReportsFacts' BY <1>1, <1>3, <1>6, <1>7, <1>8, ReportsKeep
  <1> QED BY <1>4, <1>9

\* The documents stored before are numbered, each once.
LEMMA StoredParts ==
  ASSUME ReportsAssumption
  PROVE  LET d == R!SetToSeq(Stored) IN
         /\ d \in [1..Cardinality(Stored) -> Stored] /\ Cardinality(Stored) \in Nat
         /\ \A i, j \in 1..Cardinality(Stored) : d[i] = d[j] => i = j
         /\ Len(d) = Cardinality(Stored) /\ Cardinality(Stored) <= MaxIds
  <1> DEFINE n == Cardinality(Stored)
             d == R!SetToSeq(Stored)
  <1>1. n \in Nat /\ ExistsBijection(1..n, Stored) /\ n <= MaxIds
    BY FS_CardinalityType DEF ReportsAssumption
  <1>2. R!Cardinality(Stored) = n BY DEF R!Cardinality, Cardinality
  <1> HIDE DEF n
  <1>3. PICK f : f \in [1..n -> Stored] /\ \A i, j \in 1..n : f[i] = f[j] => i = j
    <2>1. PICK f : f \in Bijection(1..n, Stored) BY <1>1 DEF ExistsBijection
    <2>2. f \in Injection(1..n, Stored) BY <2>1 DEF Bijection
    <2> QED BY <2>2 DEF Injection, IsInjective
  <1>4. R!IsInjective(f) BY <1>3 DEF R!IsInjective
  <1>5. d = CHOOSE g \in [1..n -> Stored] : R!IsInjective(g) BY <1>2 DEF R!SetToSeq
  <1> HIDE DEF d
  <1>6. d \in [1..n -> Stored] /\ R!IsInjective(d) BY <1>3, <1>4, <1>5
  <1>7. \A i, j \in 1..n : d[i] = d[j] => i = j BY <1>6 DEF R!IsInjective
  <1>8. Len(d) = n BY <1>1, <1>6
  <1> QED BY <1>1, <1>6, <1>7, <1>8 DEF d, n

\* The invariant holds at first.
LEMMA ReportsInit ==
  ASSUME ReportsAssumption, R!Init
  PROVE  R!TypeOK /\ ReportsFacts /\ R!NothingReplaced
  <1> DEFINE n == Cardinality(Stored)
  <1>1. /\ docs = R!SetToSeq(Stored) /\ issued = Len(docs)
        /\ gets = R!Handler /\ listing = <<>> /\ ready = FALSE /\ reports = <<>>
        /\ temprep = NoId /\ calls = {} /\ sends = 0 /\ added = Stored
        /\ shifted = FALSE /\ kept = FALSE /\ replaced = {} /\ sent = Stored /\ again = FALSE
    BY DEF R!Init
  <1>2. /\ docs \in [1..n -> Stored] /\ n \in Nat /\ issued = n /\ n <= MaxIds
        /\ \A i, j \in 1..n : docs[i] = docs[j] => i = j
    BY <1>1, StoredParts
  <1> HIDE DEF n
  <1>3. MaxIds \in Nat /\ MaxSends \in Nat /\ Stored \subseteq Report /\ NoId \notin 1..MaxIds
    BY DEF ReportsAssumption
  <1>4. 1..n \subseteq R!Id /\ issued \in 0..MaxIds BY <1>2, <1>3 DEF R!Id
  <1>5. reports \in Seq(ReportRow) /\ listing \in Seq(ReportRow) /\ DOMAIN reports = {} /\ DOMAIN listing = {}
    BY <1>1
  <1>6. R!TypeOK
    <2>1. DOMAIN docs \subseteq R!Id /\ \A i \in DOMAIN docs : docs[i] \in Report BY <1>2, <1>3, <1>4
    <2>2. temprep \in ReportId /\ 0 \in 0..MaxSends BY <1>1, <1>3 DEF ReportId
    <2> QED BY <1>1, <1>3, <1>4, <1>5, <2>1, <2>2, ReportsTypeParts
  <1>7. \A a \in R!Claims : \E i \in 1..n : a = R!Claim(i, docs[i]) BY <1>1, <1>2, <1>5, ClaimOf
  <1>8. \A a \in R!Claims : a.id \in 1..n /\ a.report = docs[a.id] BY <1>7, ClaimFields
  <1>9. R!Given BY <1>1, <1>2, <1>8, GivenView
  <1>10. R!IdsDiffer BY <1>1, <1>8 DEF R!IdsDiffer, R!Moved
  <1>11. R!SavedOnce BY <1>1, <1>2, <1>8 DEF R!SavedOnce
  <1>12. R!NothingReplaced BY <1>1 DEF R!NothingReplaced
  <1> QED BY <1>6, <1>9, <1>10, <1>11, <1>12 DEF ReportsFacts

\* Every step keeps the types and the invariant.
LEMMA ReportsStep ==
  ASSUME ReportsAssumption, R!TypeOK, ReportsFacts, R!NothingReplaced, [R!Next]_(R!vars)
  PROVE  R!TypeOK' /\ ReportsFacts' /\ R!NothingReplaced'
  <1>1. ASSUME R!TypeOK', ReportsFacts', replaced' = replaced, shifted => shifted', kept => kept'
        PROVE  R!TypeOK' /\ ReportsFacts' /\ R!NothingReplaced'
    BY <1>1 DEF R!NothingReplaced
  <1>2. CASE R!AddNewAggrigated
    <2>1. UNCHANGED <<replaced, shifted, kept>> BY <1>2 DEF R!AddNewAggrigated, R!history
    <2> QED BY <1>1, <1>2, <2>1, ReportsAdd
  <1>3. ASSUME NEW n \in DOMAIN reports, R!Save(n)
        PROVE  R!TypeOK' /\ ReportsFacts' /\ R!NothingReplaced'
    <2>1. replaced' = replaced /\ (shifted => shifted') BY <1>3 DEF R!Save
    <2>2. kept => kept' BY <1>3 DEF R!Save
    <2> QED BY <1>1, <1>3, <2>1, <2>2, ReportsSave
  <1>4. ASSUME NEW n \in DOMAIN reports, R!Delete(n)
        PROVE  R!TypeOK' /\ ReportsFacts' /\ R!NothingReplaced'
    <2>1. replaced' = replaced /\ (kept => kept') BY <1>4 DEF R!Delete
    <2>2. shifted => shifted' BY <1>4, MisplacedParts DEF R!Delete, R!Splice
    <2> QED BY <1>1, <1>4, <2>1, <2>2, ReportsDelete
  <1>5. ASSUME NEW c \in calls, R!StoreReport(c)
        PROVE  R!TypeOK' /\ ReportsFacts' /\ R!NothingReplaced'
    BY <1>5, ReportsStore
  <1>6. ASSUME NEW c \in calls, R!RemoveReport(c) \/ R!Fail(c)
        PROVE  R!TypeOK' /\ ReportsFacts' /\ R!NothingReplaced'
    <2>1. replaced' = replaced /\ shifted' = shifted /\ kept' = kept
      BY <1>6 DEF R!RemoveReport, R!Fail, R!history
    <2> QED BY <1>1, <1>6, <2>1, ReportsRemove
  <1>7. ASSUME NEW c \in calls, R!Answer(c)
        PROVE  R!TypeOK' /\ ReportsFacts' /\ R!NothingReplaced'
    <2>1. replaced' = replaced /\ (kept => kept') BY <1>7 DEF R!Answer
    <2>2. shifted => shifted' BY <1>7, MisplacedParts DEF R!Answer, R!Splice
    <2> QED BY <1>1, <1>7, <2>1, <2>2, ReportsAnswer
  <1>8. CASE UNCHANGED R!vars
    <2>1. UNCHANGED <<docs, issued, gets, listing, ready, reports, temprep, calls, sends, added,
                      shifted, sent, again, kept, replaced>>
      BY <1>8 DEF R!vars, R!history, R!loading
    <2>2. R!TypeOK' BY <2>1 DEF R!TypeOK
    <2>3. R!Claims' = R!Claims BY <2>1 DEF R!Claims
    <2>4. ReportsFacts' BY <2>1, <2>3 DEF ReportsFacts, R!Given, R!IdsDiffer, R!Moved, R!SavedOnce
    <2> QED BY <1>1, <2>1, <2>2, <2>4
  <1>9. ASSUME R!ListReports \/ R!Then \/ R!Catch \/ R!Finally
        PROVE  R!TypeOK' /\ ReportsFacts' /\ R!NothingReplaced'
    <2>1. replaced' = replaced /\ kept' = kept
      BY <1>9 DEF R!ListReports, R!Then, R!Catch, R!Finally, R!history
    <2>2. shifted => shifted'
      BY <1>9, MisplacedParts DEF R!ListReports, R!Then, R!Catch, R!Finally, R!history
    <2>3. R!TypeOK' /\ ReportsFacts'
      BY <1>9, ReportsList, ReportsThen, ReportsCatch, ReportsFinally
    <2> QED BY <1>1, <2>1, <2>2, <2>3
  <1> QED BY <1>2, <1>3, <1>4, <1>5, <1>6, <1>7, <1>8, <1>9 DEF R!Next

-----------------------------------------------------------------------------
(* The behaviours of the browser that are the reports'.                    *)

ReportsHold == part = "reports" => R!TypeOK /\ ReportsFacts /\ R!NothingReplaced

\* They hold in the behaviours of the reports.
LEMMA ReportsAlways == Spec => []ReportsHold
  <1>1. Init => ReportsHold BY ReportsInit, ReportsAssumption DEF Init, ReportsHold
  <1>2. ReportsHold /\ [Next]_vars => ReportsHold'
    <2> SUFFICES ASSUME ReportsHold, [Next]_vars, part' = "reports"
                 PROVE  R!TypeOK' /\ ReportsFacts' /\ R!NothingReplaced'
      BY DEF ReportsHold
    <2>1. part = "reports" /\ [R!Next]_(R!vars)
      BY DEF Next, vars, reportsVars, R!vars, R!history, R!loading
    <2>2. R!TypeOK /\ ReportsFacts /\ R!NothingReplaced BY <2>1 DEF ReportsHold
    <2> QED BY <2>1, <2>2, ReportsStep, ReportsAssumption
  <1> QED BY <1>1, <1>2, PTL DEF Spec

\* For any number of reports, rows and calls, a row replaces no document of another
\* one, unless a call's row moved or was replaced or one was saved under the id temprep
\* kept.
THEOREM NothingIsReplaced == Spec => []NothingReplaced
  <1>1. ReportsHold => NothingReplaced BY DEF ReportsHold, NothingReplaced
  <1> QED BY <1>1, ReportsAlways, PTL

\* A report is stored once, unless one of the two has happened or its row was saved
\* again before the first answer.
THEOREM ReportsAreStoredOnce == Spec => []StoredOnce
  <1>1. ReportsHold => StoredOnce
    <2> SUFFICES ASSUME R!TypeOK, R!SavedOnce, ~shifted, ~kept, ~again, NEW i \in DOMAIN docs,
                        NEW j \in DOMAIN docs, docs[i] = docs[j]
                 PROVE  i = j
      BY DEF ReportsHold, ReportsFacts, StoredOnce, R!StoredOnce
    <2>1. i # NoId /\ j # NoId BY ReportsTypeParts, ReportsAssumption DEF R!Id, ReportsAssumption
    <2>2. /\ R!Claim(i, docs[i]) \in R!Claims /\ R!Claim(i, docs[i]).id = i
          /\ R!Claim(i, docs[i]).report = docs[i]
          /\ R!Claim(j, docs[j]) \in R!Claims /\ R!Claim(j, docs[j]).id = j
          /\ R!Claim(j, docs[j]).report = docs[j]
      BY Claimed, ClaimFields
    <2>3. \A a, b \in R!Claims : a.report = b.report /\ a.id # NoId /\ b.id # NoId => a.id = b.id
      BY DEF R!SavedOnce
    <2> QED BY <2>1, <2>2, <2>3
  <1> QED BY <1>1, ReportsAlways, PTL
-----------------------------------------------------------------------------
(* Audit page: the order of the table.                                     *)

LEMMA AuditCardinality == \A A1 : A!Cardinality(A1) = Cardinality(A1)
  BY DEF A!Cardinality, A!IsFiniteSet, Cardinality, IsFiniteSet

\* A relation that orders a finite set strictly and totally, and an element's rank.
Orders(B, E) ==
  /\ IsFiniteSet(E)
  /\ \A i \in E : <<i, i>> \notin B
  /\ \A i, j \in E : i # j => <<i, j>> \in B \/ <<j, i>> \in B
  /\ \A i, j, k \in E : <<i, j>> \in B /\ <<j, k>> \in B => <<i, k>> \in B
RankIn(E, B, i) == Cardinality({j \in E : <<j, i>> \in B})

\* In such a set each rank is some element's.
LEMMA RanksAreTaken ==
  ASSUME NEW E, NEW B, Orders(B, E)
  PROVE  /\ Cardinality(E) \in Nat
         /\ \A n \in 0..(Cardinality(E) - 1) :
              \E i \in E : RankIn(E, B, i) = n
  <1> DEFINE C == Cardinality(E)
             L(i) == {j \in E : <<j, i>> \in B}
             f == [i \in E |-> Cardinality(L(i))]
             Ranks == 0..(C - 1)
  <1>0. /\ IsFiniteSet(E)
        /\ \A i \in E : <<i, i>> \notin B
        /\ \A i, j \in E : i # j => <<i, j>> \in B \/ <<j, i>> \in B
        /\ \A i, j, k \in E : <<i, j>> \in B /\ <<j, k>> \in B => <<i, k>> \in B
    BY DEF Orders
  <1>1. C \in Nat BY <1>0, FS_CardinalityType
  <1>2. ASSUME NEW A1 \in SUBSET E, NEW B1 \in SUBSET A1, A1 # B1
        PROVE  /\ Cardinality(A1) \in Nat /\ Cardinality(B1) \in Nat
               /\ Cardinality(B1) < Cardinality(A1)
    <2>1. IsFiniteSet(A1) BY <1>0, FS_Subset
    <2>2. IsFiniteSet(B1) /\ Cardinality(B1) <= Cardinality(A1) /\ Cardinality(A1) # Cardinality(B1)
      BY <2>1, <1>2, FS_Subset
    <2>3. Cardinality(A1) \in Nat /\ Cardinality(B1) \in Nat BY <2>1, <2>2, FS_CardinalityType
    <2> QED BY <2>2, <2>3
  <1>3. ASSUME NEW i \in E PROVE Cardinality(L(i)) \in Ranks
    <2>1. L(i) \in SUBSET E /\ E # L(i) BY <1>0, <1>3
    <2>2. Cardinality(L(i)) \in Nat /\ Cardinality(L(i)) < C BY <2>1, <1>2
    <2> QED BY <2>2, <1>1
  <1>4. ASSUME NEW i \in E, NEW j \in E, <<i, j>> \in B PROVE Cardinality(L(i)) < Cardinality(L(j))
    <2>1. L(i) \in SUBSET L(j) BY <1>0, <1>4
    <2>2. i \in L(j) /\ i \notin L(i) BY <1>0, <1>4
    <2>3. L(j) \in SUBSET E OBVIOUS
    <2>4. L(i) # L(j) BY <2>2
    <2> HIDE DEF L
    <2> QED BY <2>1, <2>3, <2>4, <1>2
  <1>5. f \in Injection(E, Ranks)
    <2>1. f \in [E -> Ranks] BY <1>3
    <2>2. ASSUME NEW i \in E, NEW j \in E, f[i] = f[j] PROVE i = j
      <3>1. f[i] = Cardinality(L(i)) /\ f[j] = Cardinality(L(j)) OBVIOUS
      <3>2. Cardinality(L(i)) \in Int /\ Cardinality(L(j)) \in Int BY <1>3
      <3>3. Cardinality(L(i)) = Cardinality(L(j)) BY <3>1, <2>2
      <3> HIDE DEF f, L, Ranks
      <3>4. ASSUME <<i, j>> \in B PROVE FALSE BY <3>2, <3>3, <3>4, <1>4
      <3>5. ASSUME <<j, i>> \in B PROVE FALSE BY <3>2, <3>3, <3>5, <1>4
      <3> QED BY <1>0, <3>4, <3>5
    <2> HIDE DEF f, Ranks
    <2> QED BY <2>1, <2>2 DEF Injection, IsInjective
  <1>6. IsFiniteSet(Ranks) /\ Cardinality(Ranks) = C
    <2>1. 0 \in Int /\ C - 1 \in Int BY <1>1
    <2>2. IsFiniteSet(0..(C - 1)) /\ Cardinality(0..(C - 1)) = IF 0 > C - 1 THEN 0 ELSE (C - 1) - 0 + 1
      BY <2>1, FS_Interval
    <2> QED BY <2>2, <1>1
  <1>7. f \in Surjection(E, Ranks)
    <2> HIDE DEF f, Ranks
    <2> QED BY <1>5, <1>6, FS_Injection
  <1>8. ASSUME NEW n \in Ranks PROVE \E i \in E : f[i] = n
    <2> HIDE DEF f, Ranks
    <2> QED BY <1>7, <1>8 DEF Surjection
  <1>9. \A i \in E : f[i] = RankIn(E, B, i) BY DEF RankIn
  <1> HIDE DEF f
  <1> QED BY <1>1, <1>8, <1>9

\* The server's page of a view: each row once.
LEMMA PageOfView ==
  ASSUME AuditAssumption, NEW v \in A!View \cup {NoView}
  PROVE  /\ A!Rows(v) \in Seq(Row)
         /\ \A i, j \in DOMAIN A!Rows(v) : A!Rows(v)[i] = A!Rows(v)[j] => i = j
         /\ A!RowsOf(v) = {A!Rows(v)[i] : i \in DOMAIN A!Rows(v)}
         /\ A!RowsOf(v) \subseteq Row
         /\ IsFiniteSet(DOMAIN A!Rows(v))
  <1>1. CASE v = NoView
    <2>1. A!Rows(v) = <<>> BY <1>1 DEF A!Rows
    <2>2. DOMAIN A!Rows(v) = {} BY <2>1
    <2> QED BY <2>1, <2>2, FS_EmptySet DEF A!RowsOf
  <1>2. CASE v # NoView
    <2>1. v.q \in Query /\ v.p \in 1..Cardinality(Row) /\ v.p <= Len(Content[v.q])
      BY <1>2, AuditCardinality DEF A!View
    <2>2. Content[v.q] \in Seq(Seq(Row)) BY <2>1 DEF AuditAssumption
    <2>3. v.p \in DOMAIN Content[v.q]
      <3>1. v.p \in Int /\ 1 <= v.p BY <2>1
      <3> QED BY <3>1, <2>1, <2>2
    <2>4. A!Rows(v) = Content[v.q][v.p] BY <1>2 DEF A!Rows
    <2>5. A!Rows(v) \in Seq(Row) BY <2>2, <2>3, <2>4
    <2>6. \A i, j \in DOMAIN A!Rows(v) : A!Rows(v)[i] = A!Rows(v)[j] => i = j
      BY <2>1, <2>3, <2>4 DEF AuditAssumption
    <2>7. DOMAIN A!Rows(v) = 1..Len(A!Rows(v)) /\ Len(A!Rows(v)) \in Int /\ 1 \in Int BY <2>5
    <2>8. IsFiniteSet(DOMAIN A!Rows(v)) BY <2>7, FS_Interval
    <2>9. A!RowsOf(v) = {A!Rows(v)[i] : i \in DOMAIN A!Rows(v)} BY DEF A!RowsOf
    <2>10. A!RowsOf(v) \subseteq Row BY <2>5, <2>9
    <2> QED BY <2>5, <2>6, <2>8, <2>9, <2>10
  <1> QED BY <1>1, <1>2

\* The table shows each row of its view, once.
LEMMA ShownRows ==
  ASSUME AuditAssumption, A!TypeOK
  PROVE  \E h \in [DOMAIN A!Rows(data) -> DOMAIN A!Rows(data)] :
           /\ \A m, n \in DOMAIN A!Rows(data) : h[m] = h[n] => m = n
           /\ \A i \in DOMAIN A!Rows(data) : \E n \in DOMAIN A!Rows(data) : h[n] = i
           /\ A!Shown = [n \in DOMAIN A!Rows(data) |-> A!Rows(data)[h[n]]]
  <1> DEFINE E == DOMAIN A!Rows(data)
             B == {e \in E \X E : A!Precedes(data, e[1], e[2])}
             Rank(i) == A!Cardinality({j \in E : A!Precedes(data, j, i)})
             c(n) == CHOOSE i \in E : Rank(i) = n - 1
             h == [n \in E |-> c(n)]
             k(n) == Stamp[A!Rows(data)[n]]
  <1>1. data \in A!View \cup {NoView} /\ reverse \in BOOLEAN BY DEF A!TypeOK
  <1>2. A!Rows(data) \in Seq(Row) /\ IsFiniteSet(E) BY <1>1, PageOfView
  <1>3. E = 1..Len(A!Rows(data)) /\ Len(A!Rows(data)) \in Nat BY <1>2
  <1>4. \A i \in E : k(i) \in Nat BY <1>2 DEF AuditAssumption
  <1>5. \A i, j \in E : A!Precedes(data, i, j) <=>
          (IF reverse THEN k(i) > k(j) ELSE k(i) < k(j)) \/ (k(i) = k(j) /\ i < j)
    BY DEF A!Precedes
  <1>6. \A i, j \in E : <<i, j>> \in B <=> A!Precedes(data, i, j) OBVIOUS
  <1>7. Cardinality(E) = Len(A!Rows(data))
    <2>1. Cardinality(1..Len(A!Rows(data))) =
            IF 1 > Len(A!Rows(data)) THEN 0 ELSE Len(A!Rows(data)) - 1 + 1
      BY <1>3, FS_Interval
    <2> QED BY <2>1, <1>3
  <1>8. \A n \in 0..(Cardinality(E) - 1) : \E i \in E : RankIn(E, B, i) = n
    <2>1. E \subseteq Int BY <1>3
    <2> HIDE DEF B, E, k
    <2>2. \A i \in E : <<i, i>> \notin B BY <1>1, <1>4, <1>5, <1>6, <2>1
    <2>3. \A i, j \in E : i # j => <<i, j>> \in B \/ <<j, i>> \in B
      BY <1>1, <1>4, <1>5, <1>6, <2>1
    <2>4. \A i, j, m \in E : <<i, j>> \in B /\ <<j, m>> \in B => <<i, m>> \in B
      BY <1>1, <1>4, <1>5, <1>6, <2>1
    <2>5. Orders(B, E) BY <1>2, <2>2, <2>3, <2>4 DEF Orders
    <2> QED BY <2>5, RanksAreTaken
  <1>9. \A i \in E : Rank(i) = RankIn(E, B, i)
    <2> TAKE i \in E
    <2>1. {j \in E : A!Precedes(data, j, i)} = {j \in E : <<j, i>> \in B} BY <1>6
    <2> QED BY <2>1, AuditCardinality DEF RankIn
  <1>10. ASSUME NEW n \in E PROVE h[n] \in E /\ Rank(h[n]) = n - 1
    <2>1. n - 1 \in 0..(Cardinality(E) - 1) BY <1>3, <1>7
    <2>2. \E i \in E : Rank(i) = n - 1 BY <2>1, <1>8, <1>9
    <2>3. c(n) \in E /\ Rank(c(n)) = n - 1
      <3> HIDE DEF Rank, E
      <3> QED BY <2>2
    <2>4. h[n] = c(n) BY <1>10
    <2> HIDE DEF h, c, Rank, E
    <2> QED BY <2>3, <2>4
  <1>11. h \in [E -> E] BY <1>10
  <1>12. ASSUME NEW m \in E, NEW n \in E, h[m] = h[n] PROVE m = n
    <2>1. Rank(h[m]) = m - 1 /\ Rank(h[n]) = n - 1 BY <1>10
    <2>2. m \in Int /\ n \in Int BY <1>3
    <2> HIDE DEF h, Rank, E
    <2>3. m - 1 = n - 1 BY <2>1, <1>12
    <2> QED BY <2>2, <2>3
  <1>13. ASSUME NEW i \in E PROVE \E n \in E : h[n] = i
    <2> HIDE DEF h, E
    <2>1. h \in Injection(E, E) BY <1>11, <1>12 DEF Injection, IsInjective
    <2>2. h \in Surjection(E, E) BY <2>1, <1>2, FS_Injection
    <2> QED BY <2>2, <1>13 DEF Surjection
  <1>14. A!Shown = [n \in E |-> A!Rows(data)[h[n]]]
    <2>1. A!Shown = [n \in E |-> A!Rows(data)[c(n)]] BY DEF A!Shown
    <2> HIDE DEF c, E
    <2> QED BY <2>1
  <1> HIDE DEF h
  <1> QED BY <1>11, <1>12, <1>13, <1>14

-----------------------------------------------------------------------------
(* Audit page: the steps.                                                  *)

Views == A!View \cup {NoView}
AuditCalls == A!SearchCall \cup A!PayloadCall \cup {NoCall}

\* The rows of a view do not change with the state.
LEMMA RowsViews == A!RowsOf(data)' = A!RowsOf(data')
  BY DEF A!RowsOf, A!Rows

\* The types, one by one, of this state.
LEMMA AuditTypeParts ==
  A!TypeOK <=>
    /\ open \in BOOLEAN /\ data \in Views /\ saver \in Views /\ reverse \in BOOLEAN
    /\ checked \subseteq A!RowsOf(data) /\ enabled \in BOOLEAN /\ objectIDFlag \in BOOLEAN
    /\ rowID \in Row \cup {NoRow} /\ payload \in Row \cup {NoRow} /\ asked \in Row \cup {NoRow}
    /\ batchChecker \in BOOLEAN /\ modal \in {"none", "row", "batch"}
    /\ call \in [Slot -> AuditCalls]
    /\ overwritten \in BOOLEAN /\ moved \in BOOLEAN /\ current \in BOOLEAN /\ ticked \subseteq Row
  BY DEF A!TypeOK, Views, AuditCalls

\* The same, of the next state.
LEMMA AuditTypeNext ==
  ASSUME open' \in BOOLEAN, data' \in Views, saver' \in Views, reverse' \in BOOLEAN,
         checked' \subseteq A!RowsOf(data'), enabled' \in BOOLEAN, objectIDFlag' \in BOOLEAN,
         rowID' \in Row \cup {NoRow}, payload' \in Row \cup {NoRow}, asked' \in Row \cup {NoRow},
         batchChecker' \in BOOLEAN, modal' \in {"none", "row", "batch"},
         call' \in [Slot -> AuditCalls],
         overwritten' \in BOOLEAN, moved' \in BOOLEAN, current' \in BOOLEAN, ticked' \subseteq Row
  PROVE  A!TypeOK'
  BY RowsViews DEF A!TypeOK, Views, AuditCalls, A!View, A!SearchCall, A!PayloadCall

\* What is under way, of either kind.
LEMMA AuditCallParts ==
  ASSUME NEW c \in AuditCalls, c # NoCall
  PROVE  /\ c.kind \in {"search", "payload"} /\ c.last \in BOOLEAN /\ c.left \in BOOLEAN
         /\ c.kind = "search" => c \in A!SearchCall /\ c.of \in A!View
         /\ c.kind = "payload" => c \in A!PayloadCall /\ c.row \in Row
  BY DEF AuditCalls, A!SearchCall, A!PayloadCall

\* The last call for a payload under way, in a call.
LastPayload(c) == c # NoCall /\ c.kind = "payload" /\ c.last

\* The last call for a payload, in both states.
LEMMA PayloadAskedParts ==
  /\ A!PayloadAsked <=> /\ \A s \in Slot : LastPayload(call[s]) => asked \in {call[s].row, NoRow}
                        /\ current => asked \in {payload, NoRow}
  /\ (\A s \in Slot : LastPayload(call'[s]) => asked' \in {call'[s].row, NoRow})
       /\ (current' => asked' \in {payload', NoRow}) => A!PayloadAsked'
  BY DEF A!PayloadAsked, LastPayload

\* A call is sent for the first page of a query, or for a page of the one shown.
LEMMA PageOne ==
  ASSUME AuditAssumption, NEW q \in Query
  PROVE  [q |-> q, p |-> 1] \in A!View
  <1>1. Len(Content[q]) \in 1..Cardinality(Row) /\ Cardinality(Row) \in Nat
    BY FS_CardinalityType DEF AuditAssumption
  <1>2. 1 \in 1..Cardinality(Row) /\ 1 <= Len(Content[q]) BY <1>1
  <1> QED BY <1>2, AuditCardinality DEF A!View

\* A page of a query is a view.
LEMMA PageTurned ==
  ASSUME AuditAssumption, NEW q \in Query, NEW p \in 1..Len(Content[q])
  PROVE  [q |-> q, p |-> p] \in A!View
  <1>1. Len(Content[q]) \in 1..Cardinality(Row) /\ Cardinality(Row) \in Nat
    BY FS_CardinalityType DEF AuditAssumption
  <1>2. p \in 1..Cardinality(Row) /\ p <= Len(Content[q]) BY <1>1
  <1> QED BY <1>2, AuditCardinality DEF A!View

\* A search that is sent is no call for a payload.
LEMMA SearchSent ==
  ASSUME A!TypeOK, A!PayloadAsked, NEW v \in A!View, A!Search(v),
         asked' = asked, current' = current, payload' = payload
  PROVE  call' \in [Slot -> AuditCalls] /\ A!PayloadAsked'
  <1> DEFINE c == [kind |-> "search", of |-> v, last |-> TRUE, left |-> FALSE]
  <1>1. PICK s \in Slot : call[s] = NoCall /\ call' = [call EXCEPT ![s] = c]
    BY DEF A!Search, A!Send
  <1>2. c \in AuditCalls /\ c.kind = "search" BY DEF AuditCalls, A!SearchCall
  <1>3. call \in [Slot -> AuditCalls] BY AuditTypeParts
  <1> HIDE DEF c
  <1>4. call' \in [Slot -> AuditCalls] BY <1>1, <1>2, <1>3
  <1>5. \A t \in Slot : call'[t] = IF t = s THEN c ELSE call[t] BY <1>1, <1>3
  <1>6. \A t \in Slot : LastPayload(call'[t]) => asked' \in {call'[t].row, NoRow}
    BY <1>2, <1>5, PayloadAskedParts DEF LastPayload
  <1>7. current' => asked' \in {payload', NoRow} BY PayloadAskedParts
  <1> QED BY <1>4, <1>6, <1>7, PayloadAskedParts

\* An answer, or a failure, leaves the other calls as they are.
LEMMA CallAnswered ==
  ASSUME A!TypeOK, A!PayloadAsked, NEW s \in Slot, call' = [call EXCEPT ![s] = NoCall],
         asked' = asked, current' => asked \in {payload', NoRow}
  PROVE  call' \in [Slot -> AuditCalls] /\ A!PayloadAsked'
  <1>1. call \in [Slot -> AuditCalls] BY AuditTypeParts
  <1>2. NoCall \in AuditCalls BY DEF AuditCalls
  <1>3. call' \in [Slot -> AuditCalls] BY <1>1, <1>2
  <1>4. \A t \in Slot : call'[t] = IF t = s THEN NoCall ELSE call[t] BY <1>1
  <1>5. \A t \in Slot : LastPayload(call'[t]) => asked' \in {call'[t].row, NoRow}
    BY <1>4, PayloadAskedParts DEF LastPayload
  <1> QED BY <1>3, <1>5, PayloadAskedParts

\* The page is left: its searches go on, its calls for payloads reach nobody.
LEMMA CallsLeft ==
  ASSUME A!TypeOK, A!Leave
  PROVE  call' \in [Slot -> AuditCalls] /\ A!PayloadAsked'
  <1>1. call \in [Slot -> AuditCalls] BY AuditTypeParts
  <1>2. asked' = NoRow /\ current' = FALSE BY DEF A!Leave, A!Fresh
  <1> DEFINE new(s) == IF call[s] # NoCall /\ call[s].kind = "search"
                       THEN [call[s] EXCEPT !.left = TRUE] ELSE NoCall
  <1>3. call' = [s \in Slot |-> new(s)] BY DEF A!Leave
  <1>4. ASSUME NEW s \in Slot PROVE new(s) \in AuditCalls
    <2>1. CASE call[s] # NoCall /\ call[s].kind = "search"
      <3>1. call[s] \in A!SearchCall BY <1>1, <2>1, AuditCallParts
      <3>2. [call[s] EXCEPT !.left = TRUE] \in A!SearchCall BY <3>1 DEF A!SearchCall
      <3> QED BY <2>1, <3>2 DEF AuditCalls
    <2>2. CASE ~(call[s] # NoCall /\ call[s].kind = "search") BY <2>2 DEF AuditCalls
    <2> QED BY <2>1, <2>2
  <1> HIDE DEF new
  <1>5. call' \in [Slot -> AuditCalls] BY <1>3, <1>4
  <1> QED BY <1>2, <1>5, PayloadAskedParts

\* A call for a payload is the last one, and the only one.
LEMMA PayloadSent ==
  ASSUME AuditAssumption, A!TypeOK, A!DialogsDiffer, A!CallPayload
  PROVE  /\ call' \in [Slot -> AuditCalls] /\ A!PayloadAsked' /\ asked' \in Row \cup {NoRow}
  <1>1. call \in [Slot -> AuditCalls] BY AuditTypeParts
  <1>2. PICK r \in {rowID} \cup Related, s \in Slot :
          /\ call[s] = NoCall /\ asked' = r
          /\ call' = [t \in Slot |->
               IF t = s THEN [kind |-> "payload", row |-> r, last |-> TRUE, left |-> FALSE]
               ELSE IF call[t] # NoCall /\ call[t].kind = "payload"
               THEN [call[t] EXCEPT !.last = FALSE] ELSE call[t]]
    BY DEF A!CallPayload
  <1>3. current' = FALSE /\ modal = "row" BY DEF A!CallPayload
  <1>4. r \in Row BY <1>3 DEF AuditAssumption, A!DialogsDiffer
  <1> DEFINE c == [kind |-> "payload", row |-> r, last |-> TRUE, left |-> FALSE]
             old(t) == IF call[t] # NoCall /\ call[t].kind = "payload"
                       THEN [call[t] EXCEPT !.last = FALSE] ELSE call[t]
  <1>5. call' = [t \in Slot |-> IF t = s THEN c ELSE old(t)] BY <1>2
  <1>6. c \in AuditCalls /\ c.row = r BY <1>4 DEF AuditCalls, A!PayloadCall
  <1>7. ASSUME NEW t \in Slot PROVE old(t) \in AuditCalls /\ ~LastPayload(old(t))
    <2>1. CASE call[t] # NoCall /\ call[t].kind = "payload"
      <3>1. call[t] \in A!PayloadCall BY <1>1, <2>1, AuditCallParts
      <3>2. [call[t] EXCEPT !.last = FALSE] \in A!PayloadCall
        BY <3>1 DEF A!PayloadCall
      <3>3. [call[t] EXCEPT !.last = FALSE].last = FALSE BY <3>1 DEF A!PayloadCall
      <3> QED BY <2>1, <3>2, <3>3 DEF AuditCalls, LastPayload
    <2>2. CASE ~(call[t] # NoCall /\ call[t].kind = "payload") BY <1>1, <2>2 DEF LastPayload
    <2> QED BY <2>1, <2>2
  <1> HIDE DEF c, old
  <1>8. call' \in [Slot -> AuditCalls] BY <1>5, <1>6, <1>7
  <1>9. \A t \in Slot : call'[t] = IF t = s THEN c ELSE old(t) BY <1>5
  <1>10. \A t \in Slot : LastPayload(call'[t]) => asked' \in {call'[t].row, NoRow}
    BY <1>2, <1>6, <1>7, <1>9
  <1>11. current' => asked' \in {payload', NoRow} BY <1>3
  <1> QED BY <1>2, <1>4, <1>8, <1>10, <1>11, PayloadAskedParts

\* The invariant holds at first.
LEMMA AuditInit == AuditAssumption /\ A!Init => A!AuditInv
  <1> SUFFICES ASSUME AuditAssumption, A!Init PROVE A!AuditInv OBVIOUS
  <1>1. call \in [Slot -> AuditCalls] BY DEF A!Init, AuditCalls
  <1>2. NoView \in Views /\ {} \subseteq A!RowsOf(NoView) BY DEF Views
  <1>3. A!TypeOK BY <1>1, <1>2, AuditTypeParts DEF A!Init
  <1>4. A!RowsShared /\ A!DialogsDiffer BY DEF A!Init, A!RowsShared, A!DialogsDiffer
  <1>5. A!PayloadAsked /\ A!TickedKept BY DEF A!Init, A!PayloadAsked, A!TickedKept
  <1>6. A!CheckedAreReplayed /\ A!PayloadOfRow /\ A!FormHonoured
    BY DEF A!Init, A!Nothing, A!CheckedAreReplayed, A!PayloadOfRow, A!FormHonoured
  <1> QED BY <1>3, <1>4, <1>5, <1>6 DEF A!AuditInv

\* A step after which the page is as before, but for what the server was asked.
LEMMA AuditSame ==
  ASSUME A!AuditInv, UNCHANGED <<open, saver, data, reverse, checked, enabled, rowID, payload,
           batchChecker, modal, asked, current, overwritten, ticked, moved>>,
         objectIDFlag' \in BOOLEAN, call' \in [Slot -> AuditCalls], A!PayloadAsked'
  PROVE  /\ A!TypeOK' /\ A!RowsShared' /\ A!DialogsDiffer' /\ A!TickedKept' /\ A!PayloadAsked'
  <1>1. A!TypeOK /\ A!RowsShared /\ A!DialogsDiffer /\ A!TickedKept BY DEF A!AuditInv
  <1>2. A!TypeOK' BY <1>1, AuditTypeParts, AuditTypeNext
  <1>3. A!RowsShared' /\ A!DialogsDiffer' /\ A!TickedKept'
    BY <1>1 DEF A!RowsShared, A!DialogsDiffer, A!TickedKept
  <1> QED BY <1>2, <1>3

\* Calls that no step touches.
LEMMA CallsKept ==
  ASSUME A!TypeOK, A!PayloadAsked, call' = call, payload' = payload, current' = current,
         asked' \in {asked, NoRow}
  PROVE  call' \in [Slot -> AuditCalls] /\ A!PayloadAsked'
  <1>1. call' \in [Slot -> AuditCalls] BY AuditTypeParts
  <1> QED BY <1>1 DEF A!PayloadAsked

\* The page is entered and left.
LEMMA AuditComesAndGoes ==
  ASSUME AuditAssumption, A!AuditInv, A!Enter \/ A!Leave
  PROVE  A!TypeOK' /\ A!RowsShared' /\ A!DialogsDiffer' /\ A!TickedKept' /\ A!PayloadAsked'
  <1>1. A!TypeOK /\ A!RowsShared BY DEF A!AuditInv
  <1>2. /\ reverse' = FALSE /\ checked' = {} /\ enabled' = FALSE /\ objectIDFlag' = FALSE
        /\ rowID' = NoRow /\ payload' = NoRow /\ batchChecker' = FALSE /\ modal' = "none"
        /\ asked' = NoRow /\ current' = FALSE /\ ticked' = {} /\ moved' = FALSE
    BY DEF A!Enter, A!Leave, A!Fresh
  <1>3. A!DialogsDiffer' /\ A!TickedKept' BY <1>2 DEF A!DialogsDiffer, A!TickedKept
  <1>4. open' \in BOOLEAN /\ data' \in Views /\ saver' \in Views /\ overwritten' \in BOOLEAN
    BY <1>1, AuditTypeParts DEF A!Enter, A!Leave, A!shared, Views
  <1>5. A!RowsShared' BY <1>1 DEF A!Enter, A!Leave, A!shared, A!RowsShared
  <1>6. call' \in [Slot -> AuditCalls] /\ A!PayloadAsked'
    <2>1. CASE A!Enter
      <3>1. call' = call BY <2>1 DEF A!Enter
      <3>2. call' \in [Slot -> AuditCalls] BY <1>1, <3>1, AuditTypeParts
      <3> QED BY <1>2, <3>2, PayloadAskedParts
    <2>2. CASE A!Leave BY <1>1, <2>2, CallsLeft
    <2> QED BY <2>1, <2>2
  <1>7. A!TypeOK' BY <1>2, <1>4, <1>6, AuditTypeNext
  <1> QED BY <1>3, <1>5, <1>6, <1>7

\* Searches are sent: the page does not change before the answer.
LEMMA AuditSearches ==
  ASSUME AuditAssumption, A!AuditInv, A!BasicSearchButton \/ A!DoAdvanceSearch \/ A!GoTo
  PROVE  A!TypeOK' /\ A!RowsShared' /\ A!DialogsDiffer' /\ A!TickedKept' /\ A!PayloadAsked'
  <1>1. A!TypeOK /\ A!PayloadAsked /\ objectIDFlag \in BOOLEAN
    BY AuditTypeParts DEF A!AuditInv
  <1>2. UNCHANGED <<open, saver, data, reverse, checked, enabled, rowID, payload,
           batchChecker, modal, asked, current, overwritten, ticked, moved>>
    BY DEF A!BasicSearchButton, A!DoAdvanceSearch, A!GoTo, A!shared, A!table, A!dialogs
  <1>3. objectIDFlag' \in BOOLEAN
    BY <1>1 DEF A!BasicSearchButton, A!DoAdvanceSearch, A!GoTo, A!table
  <1>4. ASSUME NEW v \in A!View, A!Search(v)
        PROVE  call' \in [Slot -> AuditCalls] /\ A!PayloadAsked'
    BY <1>1, <1>2, <1>4, SearchSent
  <1>5. call' \in [Slot -> AuditCalls] /\ A!PayloadAsked'
    <2>1. CASE A!BasicSearchButton
      <3>1. PICK q \in Query : A!Search([q |-> q, p |-> 1]) BY <2>1 DEF A!BasicSearchButton
      <3>2. [q |-> q, p |-> 1] \in A!View BY PageOne
      <3> QED BY <1>4, <3>1, <3>2
    <2>2. CASE A!DoAdvanceSearch
      <3>1. (\E q \in Query : A!Search([q |-> q, p |-> 1])) \/ call' = call
        BY <2>2 DEF A!DoAdvanceSearch
      <3>2. ASSUME NEW q \in Query, A!Search([q |-> q, p |-> 1])
            PROVE  call' \in [Slot -> AuditCalls] /\ A!PayloadAsked'
        <4>1. [q |-> q, p |-> 1] \in A!View BY PageOne
        <4> QED BY <1>4, <3>2, <4>1
      <3>3. CASE call' = call BY <1>1, <1>2, <3>3, CallsKept
      <3> QED BY <3>1, <3>2, <3>3
    <2>3. CASE A!GoTo
      <3>1. data \in A!View BY <1>1, <2>3, AuditTypeParts DEF A!GoTo, Views
      <3>2. data.q \in Query BY <3>1 DEF A!View
      <3>3. PICK p \in 1..Len(Content[data.q]) : A!Search([q |-> data.q, p |-> p])
        BY <2>3 DEF A!GoTo
      <3>4. [q |-> data.q, p |-> p] \in A!View BY <3>2, PageTurned
      <3> QED BY <1>4, <3>3, <3>4
    <2> QED BY <2>1, <2>2, <2>3
  <1> QED BY <1>2, <1>3, <1>5, AuditSame

\* Answers and failures.
LEMMA AuditAnswers ==
  ASSUME AuditAssumption, A!AuditInv, NEW s \in Slot,
         A!SearchAnswer(s) \/ A!PayloadAnswer(s) \/ A!CallFails(s)
  PROVE  A!TypeOK' /\ A!RowsShared' /\ A!DialogsDiffer' /\ A!TickedKept' /\ A!PayloadAsked'
  <1>1. A!TypeOK /\ A!PayloadAsked /\ A!RowsShared /\ A!DialogsDiffer /\ A!TickedKept
        /\ objectIDFlag \in BOOLEAN
    BY AuditTypeParts DEF A!AuditInv
  <1>2. call' = [call EXCEPT ![s] = NoCall] /\ call[s] # NoCall /\ asked' = asked
    BY DEF A!SearchAnswer, A!PayloadAnswer, A!CallFails, A!dialogs
  <1>3. call[s] \in AuditCalls BY <1>1, AuditTypeParts
  <1>4. CASE A!SearchAnswer(s)
    <2>1. call[s].of \in A!View /\ call[s].left \in BOOLEAN
      BY <1>2, <1>3, <1>4, AuditCallParts DEF A!SearchAnswer
    <2>2. UNCHANGED <<open, reverse, objectIDFlag, rowID, payload, batchChecker, modal, asked,
                      current, ticked>>
      BY <1>4 DEF A!SearchAnswer
    <2>3. saver' = call[s].of /\ overwritten' = call[s].left BY <1>4 DEF A!SearchAnswer
    <2>4. current' => asked \in {payload', NoRow} BY <1>1, <2>2, PayloadAskedParts
    <2>5. call' \in [Slot -> AuditCalls] /\ A!PayloadAsked' BY <1>1, <1>2, <2>4, CallAnswered
    <2>6. CASE call[s].left
      <3>1. UNCHANGED <<data, checked, enabled, moved>> BY <1>4, <2>6 DEF A!SearchAnswer
      <3>2. A!TypeOK'
        BY <1>1, <2>1, <2>2, <2>3, <2>5, <3>1, AuditTypeParts, AuditTypeNext DEF Views
      <3>3. A!RowsShared' /\ A!DialogsDiffer' /\ A!TickedKept'
        BY <1>1, <2>2, <2>3, <2>6, <3>1 DEF A!RowsShared, A!DialogsDiffer, A!TickedKept
      <3> QED BY <2>5, <3>2, <3>3
    <2>7. CASE ~call[s].left
      <3>1. data' = call[s].of /\ checked' = {} /\ enabled' = A!Button(data', {})
            /\ moved' = (modal = "batch")
        BY <1>4, <2>7 DEF A!SearchAnswer
      <3>2. enabled' \in BOOLEAN /\ moved' \in BOOLEAN BY <1>1, <3>1, AuditTypeParts DEF A!Button
      <3>3. data' \in Views /\ saver' \in Views /\ checked' \subseteq A!RowsOf(data')
            /\ overwritten' \in BOOLEAN
        BY <2>1, <2>3, <3>1 DEF Views
      <3>4. A!TypeOK' BY <1>1, <2>2, <2>5, <3>2, <3>3, AuditTypeParts, AuditTypeNext
      <3>5. A!RowsShared' /\ A!DialogsDiffer' /\ A!TickedKept'
        BY <1>1, <2>2, <2>3, <3>1 DEF A!RowsShared, A!DialogsDiffer, A!TickedKept
      <3> QED BY <2>5, <3>4, <3>5
    <2> QED BY <2>6, <2>7
  <1>5. CASE A!PayloadAnswer(s)
    <2>1. /\ call[s].row \in Row /\ call[s].left \in BOOLEAN /\ call[s].last \in BOOLEAN
          /\ call[s].kind = "payload"
      BY <1>2, <1>3, <1>5, AuditCallParts DEF A!PayloadAnswer
    <2>2. UNCHANGED <<open, saver, overwritten, data, reverse, checked, enabled, objectIDFlag,
                      rowID, batchChecker, modal, asked, ticked, moved>>
      BY <1>5 DEF A!PayloadAnswer, A!shared, A!table
    <2>3. \/ payload' = payload /\ current' = current
          \/ payload' = call[s].row /\ current' = call[s].last
      BY <1>5 DEF A!PayloadAnswer
    <2>4. current' => asked \in {payload', NoRow}
      <3>1. LastPayload(call[s]) => asked \in {call[s].row, NoRow} BY <1>1, PayloadAskedParts
      <3>2. current => asked \in {payload, NoRow} BY <1>1, PayloadAskedParts
      <3> QED BY <1>2, <2>1, <2>3, <3>1, <3>2 DEF LastPayload
    <2>5. call' \in [Slot -> AuditCalls] /\ A!PayloadAsked' BY <1>1, <1>2, <2>4, CallAnswered
    <2>6. A!TypeOK' BY <1>1, <2>1, <2>2, <2>3, <2>5, AuditTypeParts, AuditTypeNext
    <2>7. A!RowsShared' /\ A!DialogsDiffer' /\ A!TickedKept'
      BY <1>1, <2>2 DEF A!RowsShared, A!DialogsDiffer, A!TickedKept
    <2> QED BY <2>5, <2>6, <2>7
  <1>6. CASE A!CallFails(s)
    <2>1. UNCHANGED <<open, saver, data, reverse, checked, enabled, objectIDFlag, rowID, payload,
             batchChecker, modal, asked, current, overwritten, ticked, moved>>
      BY <1>6 DEF A!CallFails, A!shared, A!table, A!dialogs
    <2>2. current' => asked \in {payload', NoRow} BY <1>1, <2>1, PayloadAskedParts
    <2>3. call' \in [Slot -> AuditCalls] /\ A!PayloadAsked' BY <1>1, <1>2, <2>2, CallAnswered
    <2>4. objectIDFlag' \in BOOLEAN BY <1>1, <2>1
    <2> QED BY <2>1, <2>3, <2>4, AuditSame
  <1> QED BY <1>4, <1>5, <1>6

\* The table and the dialogs: what the reader of the page does without an answer.
LEMMA AuditClicks ==
  ASSUME AuditAssumption, A!AuditInv,
         A!Sort \/ A!Tick \/ A!RowClick \/ A!CallPayload \/ A!CloseDialog \/ A!ChangeReplay
           \/ A!RunService
  PROVE  A!TypeOK' /\ A!RowsShared' /\ A!DialogsDiffer' /\ A!TickedKept' /\ A!PayloadAsked'
  <1>1. A!TypeOK /\ A!PayloadAsked /\ A!RowsShared /\ A!DialogsDiffer /\ A!TickedKept
        /\ objectIDFlag \in BOOLEAN
    BY AuditTypeParts DEF A!AuditInv
  <1>2. A!RowsOf(data) \subseteq Row BY <1>1, PageOfView, AuditTypeParts DEF Views
  <1>3. CASE A!Sort
    <2>1. UNCHANGED <<open, saver, overwritten, call, data, checked, enabled, objectIDFlag, rowID,
                      payload, batchChecker, modal, asked, current, ticked, moved>>
      BY <1>3 DEF A!Sort, A!shared, A!dialogs
    <2>2. reverse' \in BOOLEAN BY <1>1, <1>3, AuditTypeParts DEF A!Sort
    <2>3. call' \in [Slot -> AuditCalls] /\ A!PayloadAsked' BY <1>1, <2>1, CallsKept
    <2>4. A!TypeOK' BY <1>1, <2>1, <2>2, <2>3, AuditTypeParts, AuditTypeNext
    <2>5. A!RowsShared' /\ A!DialogsDiffer' /\ A!TickedKept'
      BY <1>1, <2>1 DEF A!RowsShared, A!DialogsDiffer, A!TickedKept
    <2> QED BY <2>3, <2>4, <2>5
  <1>4. CASE A!Tick
    <2>1. UNCHANGED <<open, saver, overwritten, call, data, reverse, objectIDFlag, rowID,
                      payload, batchChecker, modal, asked, current, ticked, moved>>
      BY <1>4 DEF A!Tick, A!shared, A!dialogs
    <2>2. checked \subseteq A!RowsOf(data) BY <1>1, AuditTypeParts
    <2>3. checked' \subseteq A!RowsOf(data) BY <1>4, <2>2 DEF A!Tick
    <2>4. enabled' \in BOOLEAN BY <1>1, <1>4, AuditTypeParts DEF A!Tick, A!Button
    <2>5. call' \in [Slot -> AuditCalls] /\ A!PayloadAsked' BY <1>1, <2>1, CallsKept
    <2>6. A!TypeOK' BY <1>1, <2>1, <2>3, <2>4, <2>5, AuditTypeParts, AuditTypeNext
    <2>7. modal = "none" BY <1>4 DEF A!Tick
    <2>8. A!RowsShared' /\ A!DialogsDiffer' /\ A!TickedKept'
      BY <1>1, <2>1, <2>7 DEF A!RowsShared, A!DialogsDiffer, A!TickedKept
    <2> QED BY <2>5, <2>6, <2>8
  <1>5. CASE A!RowClick
    <2>1. UNCHANGED <<open, saver, overwritten, call, data, reverse, checked, enabled, objectIDFlag,
                      payload, asked, current, ticked, moved>>
      BY <1>5 DEF A!RowClick, A!shared, A!table
    <2>2. rowID' \in Row /\ batchChecker' = FALSE /\ modal' = "row" BY <1>2, <1>5 DEF A!RowClick
    <2>3. call' \in [Slot -> AuditCalls] /\ A!PayloadAsked' BY <1>1, <2>1, CallsKept
    <2>4. A!TypeOK' BY <1>1, <2>1, <2>2, <2>3, AuditTypeParts, AuditTypeNext
    <2>5. A!RowsShared' /\ A!DialogsDiffer' /\ A!TickedKept'
      BY <1>1, <2>1, <2>2 DEF A!RowsShared, A!DialogsDiffer, A!TickedKept
    <2> QED BY <2>3, <2>4, <2>5
  <1>6. CASE A!CallPayload
    <2>1. UNCHANGED <<open, saver, overwritten, data, reverse, checked, enabled, objectIDFlag,
                      rowID, payload, batchChecker, modal, ticked, moved>>
      BY <1>6 DEF A!CallPayload, A!shared, A!table
    <2>2. current' = FALSE /\ modal = "row" BY <1>6 DEF A!CallPayload
    <2>3. call' \in [Slot -> AuditCalls] /\ A!PayloadAsked' /\ asked' \in Row \cup {NoRow}
      BY <1>1, <1>6, PayloadSent
    <2>4. A!TypeOK' BY <1>1, <2>1, <2>2, <2>3, AuditTypeParts, AuditTypeNext
    <2>5. A!RowsShared' /\ A!DialogsDiffer' /\ A!TickedKept'
      BY <1>1, <2>1, <2>2 DEF A!RowsShared, A!DialogsDiffer, A!TickedKept
    <2> QED BY <2>3, <2>4, <2>5
  <1>7. CASE A!CloseDialog
    <2>1. UNCHANGED <<open, saver, overwritten, call, data, reverse, checked, enabled, objectIDFlag,
                      rowID, payload, current>>
      BY <1>7 DEF A!CloseDialog, A!shared, A!table
    <2>2. /\ modal' = "none" /\ batchChecker' \in {FALSE, batchChecker}
          /\ asked' = NoRow /\ ticked' = {} /\ moved' = FALSE
      BY <1>7 DEF A!CloseDialog
    <2>3. call' \in [Slot -> AuditCalls] /\ A!PayloadAsked' BY <1>1, <2>1, <2>2, CallsKept
    <2>4. batchChecker' \in BOOLEAN BY <1>1, <2>2, AuditTypeParts
    <2>5. A!TypeOK' BY <1>1, <2>1, <2>2, <2>3, <2>4, AuditTypeParts, AuditTypeNext
    <2>6. A!RowsShared' /\ A!DialogsDiffer' /\ A!TickedKept'
      BY <1>1, <2>1, <2>2 DEF A!RowsShared, A!DialogsDiffer, A!TickedKept
    <2> QED BY <2>3, <2>5, <2>6
  <1>8. CASE A!ChangeReplay
    <2>1. UNCHANGED <<open, saver, overwritten, call, data, reverse, checked, enabled, objectIDFlag,
                      rowID, payload, asked, current, moved>>
      BY <1>8 DEF A!ChangeReplay, A!shared, A!table
    <2>2. /\ modal' = "batch" /\ batchChecker' = TRUE /\ ticked' = checked /\ modal = "none"
      BY <1>8 DEF A!ChangeReplay
    <2>3. call' \in [Slot -> AuditCalls] /\ A!PayloadAsked' BY <1>1, <2>1, CallsKept
    <2>4. ticked' \subseteq Row BY <1>1, <1>2, <2>2, AuditTypeParts
    <2>5. A!TypeOK' BY <1>1, <2>1, <2>2, <2>3, <2>4, AuditTypeParts, AuditTypeNext
    <2>6. A!RowsShared' /\ A!DialogsDiffer' /\ A!TickedKept'
      BY <1>1, <2>1, <2>2 DEF A!RowsShared, A!DialogsDiffer, A!TickedKept
    <2> QED BY <2>3, <2>5, <2>6
  <1>9. CASE A!RunService
    <2>1. UNCHANGED <<open, saver, data, reverse, checked, enabled, objectIDFlag, rowID, payload,
             batchChecker, modal, asked, current, overwritten, ticked, moved, call>>
      BY <1>9 DEF A!RunService, A!shared, A!table, A!dialogs
    <2>2. call' \in [Slot -> AuditCalls] /\ A!PayloadAsked' BY <1>1, <2>1, CallsKept
    <2>3. objectIDFlag' \in BOOLEAN BY <1>1, <2>1
    <2> QED BY <2>1, <2>2, <2>3, AuditSame
  <1> QED BY <1>3, <1>4, <1>5, <1>6, <1>7, <1>8, <1>9

-----------------------------------------------------------------------------
(* Audit page: what a step has the server do.                              *)

\* What a function gives for the members of a set: as many as they are, where it
\* gives no two of them the same.
Differ(g, K) == \A i, j \in K : g[i] = g[j] => i = j
Named(g, K) == {g[i] : i \in K}

LEMMA AsMany ==
  ASSUME NEW K, IsFiniteSet(K), NEW g, Differ(g, K)
  PROVE  Cardinality(Named(g, K)) = Cardinality(K)
  <1> DEFINE G == Named(g, K)
             f == [i \in K |-> g[i]]
  <1>2. f \in Bijection(K, G)
    <2>1. f \in Injection(K, G) BY DEF Injection, IsInjective, Differ, Named
    <2>2. f \in Surjection(K, G) BY DEF Surjection, Named
    <2> QED BY <2>1, <2>2 DEF Bijection
  <1>3. ExistsBijection(K, G) BY <1>2 DEF ExistsBijection
  <1> QED BY <1>3, FS_Bijection

\* The boxes ticked name as many rows of the page shared as rows are ticked, and in
\* the server's order these rows.
LEMMA BatchNames ==
  ASSUME AuditAssumption, A!TypeOK, data \in {NoView, saver}
  PROVE  /\ A!BatchIds \subseteq A!RowsOf(data)
         /\ Cardinality(A!BatchIds) = Cardinality(checked)
         /\ A!Shown = A!Rows(data) => A!BatchIds = checked
  <1> DEFINE E == DOMAIN A!Rows(data)
             shown == A!Shown
             rows == A!Rows(data)
             K == {i \in E : shown[i] \in checked}
  <1>1. data \in Views /\ checked \subseteq A!RowsOf(data) BY AuditTypeParts
  <1>2. /\ \A i, j \in E : rows[i] = rows[j] => i = j
        /\ A!RowsOf(data) = {rows[i] : i \in E} /\ IsFiniteSet(E)
    BY <1>1, PageOfView DEF Views
  <1>3. PICK h \in [E -> E] :
           /\ \A m, n \in E : h[m] = h[n] => m = n
           /\ \A i \in E : \E n \in E : h[n] = i
           /\ shown = [n \in E |-> rows[h[n]]]
    BY ShownRows
  <1>4. A!Boxes = K
    <2>1. DOMAIN shown = E BY <1>3
    <2> QED BY <2>1 DEF A!Boxes
  <1>5. A!BatchIds = {rows[i] : i \in K}
    <2>1. CASE data = saver BY <1>4, <2>1 DEF A!BatchIds
    <2>2. CASE data = NoView
      <3>1. rows = <<>> BY <2>2 DEF A!Rows
      <3>2. K = {} BY <3>1
      <3> HIDE DEF K
      <3> QED BY <1>4, <3>2 DEF A!BatchIds
    <2> QED BY <2>1, <2>2
  <1> HIDE DEF shown, rows, E
  <1>6. \A n \in E : shown[n] = rows[h[n]] BY <1>3
  <1>7. \A m, n \in E : shown[m] = shown[n] => m = n
    <2> TAKE m, n \in E
    <2>1. h[m] \in E /\ h[n] \in E BY <1>3
    <2> QED BY <1>2, <1>3, <1>6, <2>1
  <1>8. checked = {shown[i] : i \in K}
    <2>1. ASSUME NEW r \in checked PROVE \E n \in K : shown[n] = r
      <3>1. PICK i \in E : rows[i] = r BY <1>1, <1>2
      <3>2. PICK n \in E : h[n] = i BY <1>3
      <3>3. shown[n] = r BY <1>6, <3>1, <3>2
      <3> QED BY <3>3
    <2> QED BY <2>1
  <1>9. K \in SUBSET E OBVIOUS
  <1> HIDE DEF K
  <1>10. Cardinality(Named(rows, K)) = Cardinality(K) /\ Cardinality(Named(shown, K)) = Cardinality(K)
    <2>1. IsFiniteSet(K) BY <1>2, <1>9, FS_Subset
    <2>2. Differ(rows, K) /\ Differ(shown, K) BY <1>2, <1>7, <1>9 DEF Differ
    <2> QED BY <2>1, <2>2, AsMany
  <1>11. A!BatchIds = Named(rows, K) /\ checked = Named(shown, K) BY <1>5, <1>8 DEF Named
  <1>12. A!BatchIds \subseteq A!RowsOf(data) BY <1>2, <1>5, <1>9
  <1>13. Cardinality(A!BatchIds) = Cardinality(checked) BY <1>10, <1>11
  <1>14. shown = rows => A!BatchIds = checked BY <1>5, <1>8
  <1> QED BY <1>12, <1>13, <1>14 DEF shown, rows

\* What a search of the form asks for, while no object id was searched for.
LEMMA PartsWanted ==
  ASSUME AuditAssumption, NEW f \in Forms, NEW db \in {"audit", "payload"}, ~A!Refused(f, db)
  PROVE  A!Parts(f, db, "objectID" \in f) = A!Wanted(f, db)
  <1>1. f \subseteq {"objectID", "keyword", "field", "custom", "nameValue", "dates"}
    BY DEF AuditAssumption
  <1>2. db = "payload" => "keyword" \in f BY DEF A!Refused
  <1>3. CASE "objectID" \in f
    <2>1. A!SomeField(f) /\ ~A!KeywordFlag(f) BY <1>3 DEF A!SomeField, A!KeywordFlag
    <2> QED BY <1>3, <2>1 DEF A!Parts, A!FieldParts, A!Wanted
  <1>4. CASE "objectID" \notin f
    <2>1. A!SomeField(f) /\ (A!KeywordFlag(f) \/ db = "payload") <=> "keyword" \in f
      BY <1>2, <1>4 DEF A!SomeField, A!KeywordFlag
    <2>2. A!Parts(f, db, "objectID" \in f) =
            (f \cap {"field"}) \cup (f \cap {"custom", "nameValue", "dates"})
              \cup (IF "keyword" \in f THEN {"keyword"} ELSE {})
      BY <1>4, <2>1 DEF A!Parts, A!FieldParts
    <2>3. (f \cap {"field"}) \cup (f \cap {"custom", "nameValue", "dates"})
             \cup (IF "keyword" \in f THEN {"keyword"} ELSE {}) = f
      BY <1>1, <1>4
    <2> QED BY <1>4, <2>2, <2>3 DEF A!Wanted
  <1> QED BY <1>3, <1>4

\* A step that has the server do nothing.
LEMMA NothingAsked ==
  ASSUME sent' = A!Nothing
  PROVE  A!CheckedAreReplayed' /\ A!PayloadOfRow' /\ A!FormHonoured'
  BY DEF A!Nothing, A!CheckedAreReplayed, A!PayloadOfRow, A!FormHonoured

\* A replay sends what its dialog was opened for.
LEMMA AuditReplays ==
  ASSUME AuditAssumption, A!AuditInv, A!RunService
  PROVE  A!CheckedAreReplayed' /\ A!PayloadOfRow' /\ A!FormHonoured'
  <1>1. A!TypeOK /\ A!PayloadAsked /\ A!RowsShared /\ A!DialogsDiffer /\ A!TickedKept
    BY DEF A!AuditInv
  <1>2. UNCHANGED <<open, saver, data, reverse, checked, enabled, objectIDFlag, rowID, payload,
             batchChecker, modal, asked, current, overwritten, ticked, moved, call>>
    BY DEF A!RunService, A!shared, A!table, A!dialogs
  <1>3. \/ sent' = A!Nothing
        \/ batchChecker /\ sent' = [kind |-> "batch", ids |-> A!BatchIds]
        \/ ~batchChecker /\ sent' = [kind |-> "single", id |-> rowID, payload |-> payload]
    BY DEF A!RunService
  <1>4. modal = "batch" \/ asked # NoRow BY DEF A!RunService
  <1>5. CASE sent' = A!Nothing BY <1>5, NothingAsked
  <1>6. CASE batchChecker /\ sent' = [kind |-> "batch", ids |-> A!BatchIds]
    <2>1. modal = "batch" BY <1>1, <1>4, <1>6 DEF A!DialogsDiffer
    <2>2. moved \/ ticked = checked BY <1>1, <2>1 DEF A!TickedKept
    <2>3. overwritten \/ data \in {NoView, saver} BY <1>1 DEF A!RowsShared
    <2>4. sent'.kind = "batch" /\ sent'.ids = A!BatchIds BY <1>6
    <2>5. /\ A!RowsOf(data)' = A!RowsOf(data) /\ A!Rows(data)' = A!Rows(data)
          /\ A!Shown' = A!Shown
      BY <1>2 DEF A!RowsOf, A!Rows, A!Shown, A!Precedes
    <2>6. ASSUME ~overwritten, ~moved
          PROVE  /\ A!Shown = A!Rows(data) => A!BatchIds = ticked
                 /\ A!BatchIds \subseteq A!RowsOf(data)
                 /\ A!Cardinality(A!BatchIds) = A!Cardinality(ticked)
      BY <1>1, <2>2, <2>3, <2>6, BatchNames, AuditCardinality
    <2>7. A!CheckedAreReplayed'
      BY <1>2, <2>4, <2>5, <2>6, AuditCardinality DEF A!CheckedAreReplayed
    <2>8. A!PayloadOfRow' /\ A!FormHonoured' BY <2>4 DEF A!PayloadOfRow, A!FormHonoured
    <2> QED BY <2>7, <2>8
  <1>7. CASE ~batchChecker /\ sent' = [kind |-> "single", id |-> rowID, payload |-> payload]
    <2>1. asked # NoRow BY <1>1, <1>4, <1>7 DEF A!DialogsDiffer
    <2>2. current => asked \in {payload, NoRow} BY <1>1, PayloadAskedParts
    <2>3. sent'.kind = "single" /\ sent'.id = rowID /\ sent'.payload = payload BY <1>7
    <2>4. A!PayloadOfRow' BY <1>2, <2>1, <2>2, <2>3 DEF A!PayloadOfRow
    <2>5. A!CheckedAreReplayed' /\ A!FormHonoured' BY <2>3 DEF A!CheckedAreReplayed, A!FormHonoured
    <2> QED BY <2>4, <2>5
  <1> QED BY <1>3, <1>5, <1>6, <1>7

\* An advanced search asks for what its form says.
LEMMA AuditForms ==
  ASSUME AuditAssumption, A!AuditInv, A!DoAdvanceSearch
  PROVE  A!CheckedAreReplayed' /\ A!PayloadOfRow' /\ A!FormHonoured'
  <1>1. objectIDFlag \in BOOLEAN BY AuditTypeParts DEF A!AuditInv
  <1>2. PICK f \in Forms, db \in {"audit", "payload"} :
          /\ objectIDFlag' = (objectIDFlag \/ "objectID" \in f)
          /\ IF A!Refused(f, db) THEN sent' = A!Nothing
             ELSE sent' = [kind |-> "search", form |-> f, db |-> db,
                           parts |-> A!Parts(f, db, objectIDFlag'),
                           idBefore |-> objectIDFlag]
    BY DEF A!DoAdvanceSearch
  <1>3. CASE A!Refused(f, db) BY <1>2, <1>3, NothingAsked
  <1>4. CASE ~A!Refused(f, db)
    <2>1. /\ sent'.kind = "search" /\ sent'.form = f /\ sent'.db = db
          /\ sent'.parts = A!Parts(f, db, objectIDFlag') /\ sent'.idBefore = objectIDFlag
      BY <1>2, <1>4
    <2>2. CASE objectIDFlag BY <2>1, <2>2 DEF A!FormHonoured, A!CheckedAreReplayed, A!PayloadOfRow
    <2>3. CASE ~objectIDFlag
      <3>1. objectIDFlag' = ("objectID" \in f) BY <1>1, <1>2, <2>3
      <3>2. sent'.parts = A!Wanted(f, db) BY <1>4, <2>1, <3>1, PartsWanted
      <3> QED BY <2>1, <3>2 DEF A!FormHonoured, A!CheckedAreReplayed, A!PayloadOfRow, A!Wanted
    <2> QED BY <2>2, <2>3
  <1> QED BY <1>3, <1>4

\* Every step keeps the invariant.
LEMMA AuditStep ==
  ASSUME AuditAssumption, A!AuditInv, [A!Next]_(A!vars)
  PROVE  A!AuditInv'
  <1>1. CASE A!Enter \/ A!Leave
    <2>1. sent' = A!Nothing BY <1>1 DEF A!Enter, A!Leave
    <2> QED BY <1>1, <2>1, AuditComesAndGoes, NothingAsked DEF A!AuditInv
  <1>2. CASE A!BasicSearchButton \/ A!GoTo
    <2>1. sent' = A!Nothing BY <1>2 DEF A!BasicSearchButton, A!GoTo
    <2> QED BY <1>2, <2>1, AuditSearches, NothingAsked DEF A!AuditInv
  <1>3. CASE A!DoAdvanceSearch BY <1>3, AuditSearches, AuditForms DEF A!AuditInv
  <1>4. CASE A!Sort \/ A!Tick \/ A!RowClick \/ A!CallPayload \/ A!CloseDialog \/ A!ChangeReplay
    <2>1. sent' = A!Nothing
      BY <1>4 DEF A!Sort, A!Tick, A!RowClick, A!CallPayload, A!CloseDialog, A!ChangeReplay
    <2> QED BY <1>4, <2>1, AuditClicks, NothingAsked DEF A!AuditInv
  <1>5. CASE A!RunService BY <1>5, AuditClicks, AuditReplays DEF A!AuditInv
  <1>6. ASSUME NEW s \in Slot, A!SearchAnswer(s) \/ A!PayloadAnswer(s) \/ A!CallFails(s)
        PROVE  A!AuditInv'
    <2>1. sent' = A!Nothing BY <1>6 DEF A!SearchAnswer, A!PayloadAnswer, A!CallFails
    <2> QED BY <1>6, <2>1, AuditAnswers, NothingAsked DEF A!AuditInv
  <1>7. CASE UNCHANGED A!vars
    <2>1. UNCHANGED <<open, saver, data, reverse, checked, enabled, objectIDFlag, rowID, payload,
             batchChecker, modal, asked, current, overwritten, ticked, moved, call, sent>>
      BY <1>7 DEF A!vars, A!shared, A!table, A!dialogs
    <2>2. A!TypeOK /\ A!PayloadAsked /\ objectIDFlag' \in BOOLEAN
      BY <2>1, AuditTypeParts DEF A!AuditInv
    <2>3. call' \in [Slot -> AuditCalls] /\ A!PayloadAsked' BY <2>1, <2>2, CallsKept
    <2>4. A!TypeOK' /\ A!RowsShared' /\ A!DialogsDiffer' /\ A!TickedKept' /\ A!PayloadAsked'
      BY <2>1, <2>2, <2>3, AuditSame
    <2>5. A!CheckedAreReplayed /\ A!PayloadOfRow /\ A!FormHonoured BY DEF A!AuditInv
    <2>6. /\ A!RowsOf(data)' = A!RowsOf(data) /\ A!Rows(data)' = A!Rows(data)
          /\ A!Shown' = A!Shown
      BY <2>1 DEF A!RowsOf, A!Rows, A!Shown, A!Precedes
    <2>7. A!CheckedAreReplayed' BY <2>1, <2>5, <2>6, AuditCardinality DEF A!CheckedAreReplayed
    <2>8. A!PayloadOfRow' /\ A!FormHonoured'
      BY <2>1, <2>5 DEF A!PayloadOfRow, A!FormHonoured, A!Wanted
    <2> QED BY <2>4, <2>7, <2>8 DEF A!AuditInv
  <1> QED BY <1>1, <1>2, <1>3, <1>4, <1>5, <1>6, <1>7 DEF A!Next

-----------------------------------------------------------------------------
(* The behaviours of the browser that are the audit page's.                *)

AuditHolds == part = "audit" => A!AuditInv

\* It holds in the behaviours of the audit page.
LEMMA AuditAlways == Spec => []AuditHolds
  <1>1. Init => AuditHolds BY AuditInit, AuditAssumption DEF Init, AuditHolds
  <1>2. AuditHolds /\ [Next]_vars => AuditHolds'
    <2> SUFFICES ASSUME AuditHolds, [Next]_vars, part' = "audit" PROVE A!AuditInv'
      BY DEF AuditHolds
    <2>1. part = "audit" /\ [A!Next]_(A!vars)
      BY DEF Next, vars, auditVars, A!vars, A!shared, A!table, A!dialogs
    <2>2. A!AuditInv BY <2>1 DEF AuditHolds
    <2> QED BY <2>1, <2>2, AuditStep, AuditAssumption
  <1> QED BY <1>1, <1>2, PTL DEF Spec

\* For any rows, pages of rows and calls under way, a batch replays the rows ticked
\* when its dialog was opened, and in a sorted table as many rows of the table,
\* unless answers replaced them.
THEOREM BatchesAreTheBoxes == Spec => []CheckedAreReplayed
  <1>1. AuditHolds => CheckedAreReplayed BY DEF AuditHolds, A!AuditInv, CheckedAreReplayed
  <1> QED BY <1>1, AuditAlways, PTL

\* A replay of one row sends that row's payload, unless another one was asked for or
\* arrived last.
THEOREM PayloadsAreTheRows == Spec => []PayloadOfRow
  <1>1. AuditHolds => PayloadOfRow BY DEF AuditHolds, A!AuditInv, PayloadOfRow
  <1> QED BY <1>1, AuditAlways, PTL

\* An advanced search asks for all its form says, unless an earlier one was for an
\* object id.
THEOREM FormsAreHonoured == Spec => []FormHonoured
  <1>1. AuditHolds => FormHonoured BY DEF AuditHolds, A!AuditInv, FormHonoured
  <1> QED BY <1>1, AuditAlways, PTL

-----------------------------------------------------------------------------
\* In each part's behaviours the part's variables have their types.
THEOREM TypesHold == Spec => []TypeOK
  <1>1. SessionHolds /\ AuditHolds /\ SettingsHold /\ ReportsHold /\ DashboardInv => TypeOK
    BY DEF SessionHolds, AuditHolds, A!AuditInv, SettingsHold, ReportsHold, DashboardInv, TypeOK
  <1> QED BY <1>1, SessionAlways, AuditAlways, SettingsAlways, ReportsAlways, DashboardAlways, PTL
=============================================================================
