------------------------------ MODULE MCBrowser ------------------------------
(***************************************************************************)
(* The parts of the browser application for TLC.  A behaviour is one of a  *)
(* single part, chosen when it starts, so that the state spaces of the     *)
(* parts add instead of multiplying.  The variables of the other parts     *)
(* stay Off; parts that name a variable alike share it.                    *)
(***************************************************************************)
EXTENDS Naturals, Sequences, FiniteSets, TLC

CONSTANTS
  None, Slot, m1, m2,
  User, Admin, Env, EnvSetup, Prod,
  Row, Query, Stamp, Content, Related, Forms, NoRow, NoView, NoCall,
  Relative, Dates, Backward, Filter, Chart, MaxCalls, MaxLeft, Earlier,
  Page, First, MaxSaves, MaxFaults, NoSettings,
  Report, Stored, MaxIds, MaxSends, NoId,
  Off

VARIABLES
  part,
  page, bar, form, auth, creds, showNav, name, envid, nameSaver, username, loginEnv,
  environmentBiPass, env, call, typed, loggedOut, crossed, askedEnv, envLogout,
  open, saver, data, reverse, checked, enabled, objectIDFlag, rowID, payload,
  batchChecker, modal, asked, current, overwritten, ticked, moved, sent,
  window, custom, dropdownVal, appended, newFilter, pending, drawn, bound, preserved,
  skew,
  fresh, docs, post, saves, faults, known, causes,
  issued, gets, listing, ready, reports, temprep, calls, sends, added, shifted, again, kept, replaced

S == INSTANCE Session
A == INSTANCE AuditPage
D == INSTANCE Dashboard
T == INSTANCE Settings
R == INSTANCE Reports

\* What the proofs assume of the constants.
ASSUME PanelsDiffer == "treemap" \notin Chart /\ MaxLeft \in Nat
ASSUME SessionAssumption ==
  /\ Prod \in Env /\ EnvSetup \subseteq Env
  /\ None \notin User \cup [user : User \cup {None}, env : Env] \cup S!Calls
ASSUME SettingsAssumption == IsFiniteSet(Page) /\ MaxSaves \in Nat /\ MaxFaults \in Nat
ASSUME ReportsAssumption ==
  /\ MaxIds \in Nat /\ MaxSends \in Nat /\ NoId \notin 1..MaxIds
  /\ Stored \subseteq Report /\ IsFiniteSet(Stored) /\ Cardinality(Stored) <= MaxIds
ASSUME AuditAssumption ==
  /\ IsFiniteSet(Row) /\ Related \subseteq Row /\ Stamp \in [Row -> Nat]
  /\ Content \in [Query -> Seq(Seq(Row))]
  /\ \A q \in Query :
       /\ Len(Content[q]) \in 1..Cardinality(Row)
       /\ \A p \in DOMAIN Content[q] : \A i, j \in DOMAIN Content[q][p] :
            Content[q][p][i] = Content[q][p][j] => i = j
  /\ Forms \subseteq SUBSET {"objectID", "keyword", "field", "custom", "nameValue", "dates"}

\* The variables of a single part.
sessionVars == <<bar, form, auth, creds, showNav, name, envid, nameSaver, username,
                 loginEnv, environmentBiPass, typed, loggedOut, crossed, askedEnv, envLogout>>
auditVars == <<saver, data, reverse, checked, enabled, objectIDFlag, rowID, payload,
               batchChecker, modal, asked, current, overwritten, ticked, moved>>
dashboardVars == <<window, custom, dropdownVal, appended, newFilter, pending, drawn,
                   bound, preserved, skew>>
settingsVars == <<fresh, post, saves, faults, known, causes>>
reportsVars == <<issued, gets, listing, ready, reports, temprep, calls, sends, added,
                 shifted, again, kept, replaced>>

SessionOff ==
  /\ bar = Off /\ form = Off /\ auth = Off /\ creds = Off /\ showNav = Off /\ name = Off /\
     envid = Off /\ nameSaver = Off /\ username = Off /\ loginEnv = Off /\
     environmentBiPass = Off /\ typed = Off /\ loggedOut = Off /\ crossed = Off /\
     askedEnv = Off /\ envLogout = Off
AuditOff ==
  /\ saver = Off /\ data = Off /\ reverse = Off /\ checked = Off /\ enabled = Off /\
     objectIDFlag = Off /\ rowID = Off /\ payload = Off /\ batchChecker = Off /\
     modal = Off /\ asked = Off /\ current = Off /\ overwritten = Off /\ ticked = Off /\
     moved = Off
DashboardOff ==
  /\ window = Off /\ custom = Off /\ dropdownVal = Off /\ appended = Off /\
     newFilter = Off /\ pending = Off /\ drawn = Off /\ bound = Off /\ preserved = Off /\
     skew = Off
SettingsOff ==
  /\ fresh = Off /\ post = Off /\ saves = Off /\ faults = Off /\ known = Off /\ causes = Off
ReportsOff ==
  /\ issued = Off /\ gets = Off /\ listing = Off /\ ready = Off /\ reports = Off /\
     temprep = Off /\ calls = Off /\ sends = Off /\ added = Off /\ shifted = Off /\
     again = Off /\ kept = Off /\ replaced = Off

Init ==
  \/ /\ part = "session" /\ S!Init
     /\ AuditOff /\ DashboardOff /\ SettingsOff /\ ReportsOff /\ open = Off /\
        sent = Off /\ docs = Off
  \/ /\ part = "audit" /\ A!Init
     /\ SessionOff /\ DashboardOff /\ SettingsOff /\ ReportsOff /\ page = Off /\
        env = Off /\ docs = Off
  \/ /\ part = "dashboard" /\ D!Init
     /\ SessionOff /\ AuditOff /\ SettingsOff /\ ReportsOff /\ page = Off /\
        call = Off /\ sent = Off /\ docs = Off
  \/ /\ part = "settings" /\ T!Init
     /\ SessionOff /\ AuditOff /\ DashboardOff /\ ReportsOff /\ open = Off /\
        env = Off /\ call = Off /\ sent = Off
  \/ /\ part = "reports" /\ R!Init
     /\ SessionOff /\ AuditOff /\ DashboardOff /\ SettingsOff /\ page = Off /\
        open = Off /\ env = Off /\ call = Off

Next ==
  \/ /\ part = "session" /\ S!Next
     /\ UNCHANGED <<part, auditVars, dashboardVars, settingsVars, reportsVars, open,
                    sent, docs>>
  \/ /\ part = "audit" /\ A!Next
     /\ UNCHANGED <<part, sessionVars, dashboardVars, settingsVars, reportsVars, page,
                    env, docs>>
  \/ /\ part = "dashboard" /\ D!Next
     /\ UNCHANGED <<part, sessionVars, auditVars, settingsVars, reportsVars, page, call,
                    sent, docs>>
  \/ /\ part = "settings" /\ T!Next
     /\ UNCHANGED <<part, sessionVars, auditVars, dashboardVars, reportsVars, open, env,
                    call, sent>>
  \/ /\ part = "reports" /\ R!Next
     /\ UNCHANGED <<part, sessionVars, auditVars, dashboardVars, settingsVars, page,
                    open, env, call>>

vars == <<part, sessionVars, auditVars, dashboardVars, settingsVars, reportsVars,
          page, open, env, call, sent, docs>>
Spec == Init /\ [][Next]_vars

\* A behaviour has slots or pages, never both: the same values stand for them.
Symmetric == Permutations(Slot)

-----------------------------------------------------------------------------
(* The properties of each part, in its behaviours.                         *)

TypeOK ==
  /\ part = "session" => S!TypeOK
  /\ part = "audit" => A!TypeOK
  /\ part = "dashboard" => D!TypeOK
  /\ part = "settings" => T!TypeOK
  /\ part = "reports" => R!TypeOK

\* Outside the login page calls carry the credentials of the cookie, whatever
\* answers of logins and logouts arrive ($stateChangeStart, ultimotls.js).
HeaderIsCookie == part = "session" => S!HeaderIsCookie
\* The cookie's credentials name the user whose token they hold, unless the
\* form was changed while a login was under way ($scope.login).
IdentityPaired == part = "session" => S!IdentityPaired
\* Who logged out while no login was under way is not logged in again by any late
\* answer (logoutService and the handlers of LoginService).
LoggedOutStays == part = "session" => S!LoggedOutStays
\* The check of the environment logs out only who asked for one that is not set
\* up, or came back with a cookie (the handler of "performedLogin").
EnvLogoutJustified == part = "session" => S!EnvLogoutJustified
\* Replays are recorded for the user logged in (treemapSaver.nameSaver), unless
\* logins crossed or the form was changed under one.
ReplaysNamed == part = "session" => S!ReplaysNamed

\* A batch replays the rows ticked when its dialog was opened, or as many rows of
\* the table where it is sorted, unless answers replaced them (batchValues).
CheckedAreReplayed == part = "audit" => A!CheckedAreReplayed
\* A replay of one row sends that row's payload, unless another one was asked for
\* or arrived last (runRestService).
PayloadOfRow == part = "audit" => A!PayloadOfRow
\* An advanced search asks for all its form says, unless an earlier one was for
\* an object id (doAdvanceSearch, objectIDFlag).
FormHonoured == part = "audit" => A!FormHonoured

\* A chart that shows the answer to its last call shows what is selected
\* (the handlers of the dashboard's broadcasts).
ChartsAligned == part = "dashboard" => D!ChartsAligned
\* A cell of the treemap opens the audits it counts, but for the changes after
\* which the treemap is not asked again (sendAudit).
CellsOpenTheirAudits == part = "dashboard" => D!CellsOpenTheirAudits

\* Nothing stored in the settings is lost to the removal and the insert of a
\* POST, but for the named causes (SettingService).
EntriesKept == part = "settings" => T!EntriesKept
\* There are two settings documents only after POSTs that overlapped
\* (SettingService).
OneDocument == part = "settings" => T!OneDocument

\* A report never replaces the document of another one, unless a call's row moved
\* or was replaced or one was saved under the id temprep kept (validatereport).
NothingReplaced == part = "reports" => R!NothingReplaced
\* A report is stored once, unless one of the two has happened or its row was
\* saved again before the first answer (validatereport).
StoredOnce == part = "reports" => R!StoredOnce

-----------------------------------------------------------------------------
(* Values for the constants.                                               *)

\* Two rows on a first page, one of them on a second; and nothing.
AuditContent ==
  [q \in Query |-> IF q = "some" THEN << <<2, 1>>, <<1>> >> ELSE << <<>> >>]
AuditStamp == <<1, 2>>
=============================================================================
