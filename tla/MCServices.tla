------------------------------ MODULE MCServices ------------------------------
(***************************************************************************)
(* Intake, ReportJobs and Tokens for TLC.  A behaviour is busy with one of *)
(* five things, chosen when it starts, and all the rest stays as it was at *)
(* first: many inserts; two inserts and a restart, which forgets the times *)
(* of the e-mails sent; one insert and the replays of its audit, for the  *)
(* two halves of Intake meet in the stored audits only; the jobs of the    *)
(* reports; the tokens.                                                    *)
(***************************************************************************)
EXTENDS Intake, TLC

CONSTANTS
  t1, t2, r1, r2, r3, weekly, daily,
  Report, MaxVersions, NoReport,
  Ttl, MaxTokens, MaxMinutes, Password

VARIABLES
  busy,
  docs, jobs, up, scheduler, versions, request, met,
  token, touched, issued, client, minutes, stated, refused, revoked, rivals, slow

\* Three threads, for which the names of the replays stand.
R == INSTANCE ReportJobs WITH Thread <- Replay, crossed <- met
T == INSTANCE Tokens
       WITH thread <- client, now <- minutes, raced <- rivals, MaxNow <- MaxMinutes

ASSUME ReportsAssumption == MaxVersions \in Nat
ASSUME TokensAssumption == Ttl \in Nat \ {0} /\ MaxTokens \in Nat /\ MaxMinutes \in Nat

jobVars == <<docs, jobs, up, scheduler, versions, request, met>>
tokenVars == <<token, touched, issued, client, minutes, stated, refused, revoked, rivals, slow>>

MCInit ==
  /\ busy \in {"inserts", "restarts", "replays", "reports", "tokens"}
  /\ Init /\ R!Init /\ T!Init

MCNext ==
  /\ UNCHANGED busy
  /\ \/ /\ busy \in {"inserts", "restarts", "replays"}
        /\ Next
        /\ busy = "inserts" => UNCHANGED <<history, restarts>>
        /\ busy = "restarts" => inserts' <= 2 /\ UNCHANGED history
        /\ busy = "replays" => inserts' <= 1 /\ now' = now /\ ~mapped'
        /\ UNCHANGED <<jobVars, tokenVars>>
     \/ busy = "reports" /\ R!Next /\ UNCHANGED <<vars, tokenVars>>
     \/ busy = "tokens" /\ T!Next /\ UNCHANGED <<vars, jobVars>>

MCSpec == MCInit /\ [][MCNext]_<<busy, vars, jobVars, tokenVars>>

Symmetric == Permutations(Thread) \cup Permutations(Replay)

-----------------------------------------------------------------------------
\* The variables of all three have their types.
TypesOK == TypeOK /\ R!TypeOK /\ T!TypeOK

\* A started scheduler mails the reports that are stored, as they are stored,
\* unless requests for one met or ended half-way (SettingService, startScheduler).
JobsAreReports == R!JobsAreReports

\* A token is accepted as long as its answers stated, unless it was revoked, lost
\* in a restart, stored in a race or answered late (AuthTokenIdentityManager).
TokensHonoured == T!TokensHonoured
=============================================================================
