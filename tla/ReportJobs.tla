------------------------------ MODULE ReportJobs ------------------------------
(***************************************************************************)
(* The jobs of the scheduler that mail the stored reports.  POST and       *)
(* DELETE of a report (SettingService.java) change the database first and  *)
(* the scheduler after; starting the scheduler (SchedulerService.java)     *)
(* reads all reports and then schedules one after the other.               *)
(*                                                                         *)
(* A version is what one POST stores under an id; 0 is none.  The answer   *)
(* to a POST is sent before its job is scheduled, so that even one client  *)
(* may delete a report whose POST is still under way.                      *)
(***************************************************************************)
EXTENDS Naturals

CONSTANTS
  Report,       \* the ids of reports
  Thread,       \* the threads that serve requests
  MaxVersions,  \* bound: POSTs
  NoReport

VARIABLES
  docs,        \* docs[r]: the version of report r that is stored
  jobs,        \* jobs[r]: the version the job of report r mails, in the scheduler
  up,          \* whether a Quartz scheduler runs
  scheduler,   \* whether SchedulerService.scheduler refers to it (is not null)
  versions,    \* the versions given so far
  request,     \* request[t]: where thread t is, for which report and version
  \* History.
  crossed      \* the reports that two requests met over, or one left half-way

vars == <<docs, jobs, up, scheduler, versions, request, crossed>>

Version == 0..MaxVersions
Nothing == [r \in Report |-> 0]
Job(r, v) == [report |-> r, version |-> v]
NoJob == Job(NoReport, 0)

\* A thread's place in the code, its report, the one found before, those it has to
\* schedule after.
At(place, job, found, todo) == [at |-> place, job |-> job, found |-> found, todo |-> todo]
Idle == At("idle", NoJob, 0, {})
Goto(t, q) == request' = [request EXCEPT ![t] = q]
End(t) == Goto(t, Idle)

Started == scheduler /\ up
Starting(t) == request[t].at \in {"start", "read"} \/ request[t].todo # {}
Busy(t) == request[t].at \notin {"idle", "stopped"}

\* The reports a thread is about to change or schedule: all, for one that starts
\* the scheduler.
About(t) ==
  IF ~Busy(t) THEN {} ELSE IF Starting(t) THEN Report ELSE {request[t].job.report}
Others(t) == UNION {About(u) : u \in Thread \ {t}}

Init ==
  /\ docs = Nothing /\ jobs = Nothing /\ up = FALSE /\ scheduler = FALSE
  /\ versions = 0 /\ request = [t \in Thread |-> Idle] /\ crossed = {}

-----------------------------------------------------------------------------
(* POST and DELETE of a report.                                            *)

\* findOne: is it stored?
Post(t, r) ==
  /\ request[t] = Idle /\ versions < MaxVersions
  /\ versions' = versions + 1
  /\ Goto(t, At(IF docs[r] # 0 THEN "find" ELSE "insert", Job(r, versions'), 0, {}))
  /\ crossed' = crossed \cup ({r} \cap Others(t))
  /\ UNCHANGED <<docs, jobs, up, scheduler>>

\* findOne once more; the update throws if it has gone.
Find(t) ==
  /\ request[t].at = "find"
  /\ LET q == request[t] IN
     IF docs[q.job.report] = 0
     THEN End(t)
     ELSE Goto(t, At("update", q.job, docs[q.job.report], {}))
  /\ UNCHANGED <<docs, jobs, up, scheduler, versions, crossed>>

Schedule(t) == Goto(t, At("check", request[t].job, 0, {}))

\* The document found is the query: another one stored since is left alone.
Update(t) ==
  /\ request[t].at = "update"
  /\ LET j == request[t].job IN
     docs' = IF docs[j.report] = request[t].found
             THEN [docs EXCEPT ![j.report] = j.version] ELSE docs
  /\ Schedule(t)
  /\ UNCHANGED <<jobs, up, scheduler, versions, crossed>>

\* Refused if the id is there by now.
Insert(t) ==
  /\ request[t].at = "insert"
  /\ LET j == request[t].job IN
     IF docs[j.report] = 0
     THEN docs' = [docs EXCEPT ![j.report] = j.version] /\ Schedule(t)
     ELSE End(t) /\ UNCHANGED docs
  /\ UNCHANGED <<jobs, up, scheduler, versions, crossed>>

\* The document is removed if it has the version the client has read.
Delete(t, r, v) ==
  /\ request[t] = Idle
  /\ docs[r] = v /\ v # 0
  /\ docs' = [docs EXCEPT ![r] = 0]
  /\ Goto(t, At("delete", Job(r, v), 0, {}))
  /\ crossed' = crossed \cup ({r} \cap Others(t))
  /\ UNCHANGED <<jobs, up, scheduler, versions>>

\* deleteJob, if the scheduler is started.
DeleteJob(t) ==
  /\ request[t].at = "delete"
  /\ jobs' = IF Started THEN [jobs EXCEPT ![request[t].job.report] = 0] ELSE jobs
  /\ End(t)
  /\ UNCHANGED <<docs, up, scheduler, versions, crossed>>

-----------------------------------------------------------------------------
(* scheduleReport, for a POST or in the loop of startScheduler.            *)

\* The next report of the loop, or the end.
Continue(t) ==
  IF request[t].todo = {}
  THEN End(t)
  ELSE \E j \in request[t].todo : Goto(t, At("check", j, 0, request[t].todo \ {j}))

Check(t) ==
  /\ request[t].at = "check"
  /\ IF Started THEN Goto(t, [request[t] EXCEPT !.at = "replace"]) ELSE Continue(t)
  /\ UNCHANGED <<docs, jobs, up, scheduler, versions, crossed>>

\* What a thread leaves unscheduled when it throws.
Left(t) ==
  IF request[t].at = "read" THEN Report
  ELSE {j.report : j \in request[t].todo \cup {request[t].job}}
Throw(t) == End(t) /\ crossed' = crossed \cup Left(t)

\* A mutation of Replace: the job is not deleted before it is scheduled.
ReplaceNothing(t) ==
  /\ request[t].at = "replace"
  /\ IF scheduler
     THEN Goto(t, [request[t] EXCEPT !.at = "schedule"]) /\ UNCHANGED crossed
     ELSE Throw(t)
  /\ UNCHANGED <<docs, jobs, up, scheduler, versions>>

\* The job of the report is deleted.  A scheduler that was shut down refuses, and
\* is caught; null is not.
Replace(t) ==
  /\ request[t].at = "replace"
  /\ jobs' = IF Started THEN [jobs EXCEPT ![request[t].job.report] = 0] ELSE jobs
  /\ IF scheduler
     THEN Goto(t, [request[t] EXCEPT !.at = "schedule"]) /\ UNCHANGED crossed
     ELSE Throw(t)
  /\ UNCHANGED <<docs, up, scheduler, versions>>

\* Refused if there is a job with that key, or no scheduler any more.
ScheduleJob(t) ==
  /\ request[t].at = "schedule"
  /\ LET j == request[t].job IN
     IF Started /\ jobs[j.report] = 0
     THEN /\ jobs' = [jobs EXCEPT ![j.report] = j.version]
          /\ Continue(t) /\ UNCHANGED crossed
     ELSE /\ End(t) /\ UNCHANGED jobs
          /\ crossed' = crossed \cup {k.report : k \in request[t].todo}
  /\ UNCHANGED <<docs, up, scheduler, versions>>

\* A frequency that cannot be read, after the job was deleted; or the database
\* fails when the reports are read.
Malformed(t) ==
  /\ request[t].at \in {"schedule", "read"}
  /\ Throw(t)
  /\ UNCHANGED <<docs, jobs, up, scheduler, versions>>

-----------------------------------------------------------------------------
(* The scheduler is started and stopped.                                   *)

Start(t) ==
  /\ request[t] = Idle /\ ~Started
  /\ Goto(t, At("start", NoJob, 0, {}))
  /\ UNCHANGED <<docs, jobs, up, scheduler, versions, crossed>>

\* getScheduler gives the one that runs, if one does; a new one knows no jobs, and
\* starts afresh what nobody else is about to change.
GetScheduler(t) ==
  /\ request[t].at = "start"
  /\ up' = TRUE /\ scheduler' = TRUE
  /\ crossed' = IF up THEN crossed ELSE Others(t)
  /\ Goto(t, [request[t] EXCEPT !.at = "read"])
  /\ UNCHANGED <<docs, jobs, versions>>

GetReports(t) ==
  /\ request[t].at = "read"
  /\ LET stored == {Job(r, docs[r]) : r \in {r \in Report : docs[r] # 0}} IN
     IF stored = {}
     THEN End(t)
     ELSE \E j \in stored : Goto(t, At("check", j, 0, stored \ {j}))
  /\ UNCHANGED <<docs, jobs, up, scheduler, versions, crossed>>

\* shutdown() first, null after.
Shutdown(t) ==
  /\ request[t] = Idle /\ Started
  /\ up' = FALSE /\ jobs' = Nothing
  /\ Goto(t, At("stopped", NoJob, 0, {}))
  /\ UNCHANGED <<docs, scheduler, versions, crossed>>

\* A scheduler started in between runs on without a name.
SetNull(t) ==
  /\ request[t].at = "stopped"
  /\ scheduler' = FALSE
  /\ crossed' = IF up THEN Report ELSE crossed
  /\ End(t)
  /\ UNCHANGED <<docs, jobs, up, versions>>

\* The process ends and is started again: the jobs are in memory only.
Restart ==
  /\ up' = FALSE /\ scheduler' = FALSE /\ jobs' = Nothing
  /\ request' = [t \in Thread |-> Idle]
  /\ UNCHANGED <<docs, versions, crossed>>

-----------------------------------------------------------------------------
Next ==
  \/ \E t \in Thread :
       \/ \E r \in Report : Post(t, r) \/ \E v \in Version : Delete(t, r, v)
       \/ Find(t) \/ Update(t) \/ Insert(t) \/ DeleteJob(t)
       \/ Check(t) \/ Replace(t) \/ ScheduleJob(t) \/ Malformed(t)
       \/ Start(t) \/ GetScheduler(t) \/ GetReports(t)
       \/ Shutdown(t) \/ SetNull(t)
  \/ Restart

Spec == Init /\ [][Next]_vars

-----------------------------------------------------------------------------
TypeOK ==
  /\ docs \in [Report -> Version] /\ jobs \in [Report -> Version]
  /\ up \in BOOLEAN /\ scheduler \in BOOLEAN /\ versions \in Version
  /\ crossed \subseteq Report
  /\ request \in [Thread -> [at : {"idle", "find", "insert", "update", "delete", "check", "replace",
                                  "schedule", "start", "read", "stopped"},
                            job : [report : Report \cup {NoReport}, version : Version],
                            found : Version,
                            todo : SUBSET [report : Report, version : Version]]]

\* Once no request is about a report any more, a started scheduler mails the
\* version that is stored, and mails nothing for a report that is not, unless two
\* requests met over it, or one of them ended half-way (SettingService.java:178,
\* SchedulerService.java:63).
JobsAreReports ==
  \A r \in Report \ crossed :
    Started /\ (\A t \in Thread : r \notin About(t)) => jobs[r] = docs[r]
-----------------------------------------------------------------------------
(* The inductive invariant.                                                *)

\* A scheduler that does not run has no jobs; one that runs without a name, or
\* that somebody else is about to start, vouches for no report.
Named ==
  /\ ~up => jobs = Nothing
  /\ up /\ (~scheduler \/ \E t \in Thread : request[t].at = "start") => Report \subseteq crossed

\* Reports are left to schedule in the loop of startScheduler only; a thread that
\* neither starts nor stops the scheduler is at a report.
Placed ==
  \A t \in Thread :
    /\ request[t].at \notin {"check", "replace", "schedule"} => request[t].todo = {}
    /\ request[t].at \notin {"idle", "start", "read", "stopped"} => request[t].job.report \in Report

\* The reports a running scheduler vouches for.
Sure == IF up THEN Report \ crossed ELSE {}

OneAbout == \A r \in Sure : \A t, u \in Thread : r \in About(t) /\ r \in About(u) => t = u

\* What a thread about report r knows of it, and still has to do.
Due(t, r) ==
  LET q == request[t] IN
  IF q.at = "read" THEN jobs[r] = 0
  ELSE /\ \A k \in q.todo : k.report = r => k.version = docs[r]
       /\ r \notin {k.report : k \in q.todo \cup {q.job}} => jobs[r] = docs[r]
       /\ r = q.job.report =>
            /\ q.at \in {"find", "insert", "update"} => jobs[r] = docs[r]
            /\ q.at = "update" => q.found = docs[r]
            /\ q.at = "delete" => docs[r] = 0
            /\ q.at \in {"check", "replace", "schedule"} => q.job.version = docs[r]
            /\ q.at = "schedule" => jobs[r] = 0

AllDue == \A r \in Sure : \A t \in Thread : r \in About(t) => Due(t, r)
Mailed == \A r \in Sure : (\A t \in Thread : r \notin About(t)) => jobs[r] = docs[r]

JobInv == TypeOK /\ Named /\ Placed /\ OneAbout /\ AllDue /\ Mailed
=============================================================================
