----------------------------- MODULE BatchReplay -----------------------------
(***************************************************************************)
(* The batch replay of ErrorSpot: a user stores a batch of audits to be    *)
(* replayed (BatchReplayService, HTTP), a Quartz job (BatchReplayJob)      *)
(* takes the stored batches one after another, replays their audits and    *)
(* records the outcome in the batch collection.                            *)
(*                                                                         *)
(* The two sides share nothing but the collection, and the driver call     *)
(* they use, collection.update(old, new) with its result ignored, is a     *)
(* compare-and-set on the fields old HAS: a document without a "status"    *)
(* field matches whatever status the stored one has by now.                *)
(*                                                                         *)
(* A document that was removed keeps its place in the model as a           *)
(* tombstone of status "deleted"; no query finds it.                       *)
(***************************************************************************)
EXTENDS Naturals, FiniteSets

CONSTANTS
  BatchId,      \* the ObjectIds the batch collection may hand out
  Audit,        \* the audits a batch may list
  Replayable,   \* the audits that have a dataLocation and a stored payload
  Worker,       \* the Quartz threads that may execute BatchReplayJob
  Client,       \* the HTTP worker threads serving PUT and DELETE
  NoBatch,      \* the parentID of a batch stored by a user
  MaxInserts,   \* bound: batches stored by users
  MaxArms,      \* bound: times one batch is armed (stored or set to reprocess)
  MaxStops,     \* bound: times the scheduler is shut down
  MaxFaults     \* bound: process crashes and aborted job executions

ASSUME BatchReplayAssumption ==
  /\ NoBatch \notin BatchId
  /\ Replayable \subseteq Audit
  /\ {MaxInserts, MaxArms, MaxStops, MaxFaults} \subseteq Nat

VARIABLES
  batch,        \* the batch collection: a document for every id
  sched,        \* the static scheduler of SchedulerService and its job
  pc, orphan, todo, cur, pending, failed,  \* the executions of BatchReplayJob
  req,          \* the PUT and DELETE requests between findOne and update
  stops, faults,            \* how many stops and faults there have been
  arms, runs, succeeded     \* history: per batch, how often it was armed and
                            \* handed to batchHandleRequest, and the audits
                            \* some run of it replayed with "Success"

execVars == <<pc, orphan, todo, cur, pending, failed>>
history  == <<arms, runs, succeeded>>
vars == <<batch, sched, execVars, req, stops, faults, history>>

-----------------------------------------------------------------------------
(* Documents and the compare-and-set of collection.update.                 *)

Status == {"absent", "unset", "processing", "processed", "failed",
           "reprocess", "deleted"}

\* "unhandled" is a replayDestinationInfo.type batchHandleRequest has no
\* branch for; "WS" is one, its call is commented out.
Dest == {"handled", "unhandled"}

\* marks abstracts batchProcessedTimestamp: it differs from one time the
\* document is marked processed to the next.
Document == [status : Status, audits : SUBSET Audit,
             parent : BatchId \cup {NoBatch}, dest : Dest, marks : Nat]

Absent == [status |-> "absent", audits |-> {}, parent |-> NoBatch,
           dest |-> "handled", marks |-> 0]

Snapshot == [id : BatchId, doc : Document]
NoSnapshot == [id |-> NoBatch, doc |-> Absent]

Stored(i) == batch[i].status \notin {"absent", "deleted"}
Armed(i)  == batch[i].status \in {"unset", "reprocess"}

\* Does the stored document match a query by the document seen earlier?
Matches(seen, stored) ==
  /\ stored.status \notin {"absent", "deleted"}
  /\ \/ seen.status = "unset"
     \/ /\ seen.status = stored.status
        /\ seen.status = "processed" => seen.marks = stored.marks

\* collection.update(seen, seen with another status); no match is no error.
UpdateStatus(seen, status) ==
  batch' = [batch EXCEPT ![seen.id].status =
              IF Matches(seen.doc, batch[seen.id]) THEN status ELSE @]

\* The processingDocument the job derives from the document it read.
Processing(snap) == [snap EXCEPT !.doc.status = "processing"]

-----------------------------------------------------------------------------
(* The job: one execution of BatchReplayJob.execute per Quartz thread.     *)

Busy(w) == pc[w] # "idle"

\* The trigger fires. @DisallowConcurrentExecution: not while the scheduler
\* that fires it is itself still executing the job. The cursor is sorted
\* without an index, so the server holds its documents as they are now.
FireWith(w, found) ==
  /\ sched = "scheduled"
  /\ ~Busy(w)
  /\ \A v \in Worker : Busy(v) => orphan[v]
  /\ pc' = [pc EXCEPT ![w] = "next"]
  /\ todo' = [todo EXCEPT ![w] = {[id |-> i, doc |-> batch[i]] : i \in found}]
  /\ UNCHANGED <<batch, sched, orphan, cur, pending, failed, req, stops,
                 faults, history>>

\* Mutations of the query: "processing", or "processed", missing from $nin; a
\* query that wants the status field to be there.
FireOnProcessing(w) ==
  FireWith(w, {i \in BatchId : Armed(i) \/ batch[i].status = "processing"})
FireOnProcessed(w) ==
  FireWith(w, {i \in BatchId : Armed(i) \/ batch[i].status = "processed"})
FireOnReprocess(w) == FireWith(w, {i \in BatchId : batch[i].status = "reprocess"})

FireJob(w) == FireWith(w, {i \in BatchId : Armed(i)})

\* The next document of the cursor is set to processing, if it still matches,
\* and handed to batchHandleRequest, whether it matched or not. The order of
\* the cursor is the replaySavedTimestamp the clients sent: any order.
HandOut(w, snap) ==
  /\ pc[w] = "next"
  /\ snap \in todo[w]
  /\ todo' = [todo EXCEPT ![w] = @ \ {snap}]
  /\ cur' = [cur EXCEPT ![w] = snap]
  /\ pending' = [pending EXCEPT ![w] = snap.doc.audits \cap Replayable]
  /\ failed' = [failed EXCEPT ![w] = {}]
  /\ runs' = [runs EXCEPT ![snap.id] = @ + 1]
  /\ pc' = [pc EXCEPT ![w] = "replay"]
  /\ UNCHANGED <<sched, orphan, req, stops, faults, arms, succeeded>>

\* Mutation: the update to processing is missing.
ClaimUnmarked(w) ==
  \E snap \in todo[w] : HandOut(w, snap) /\ UNCHANGED batch

Claim(w) ==
  \E snap \in todo[w] : HandOut(w, snap) /\ UpdateStatus(snap, "processing")

\* One payload of the batch is replayed: "Success", or an entry in the map of
\* failed audits. Audits without a payload never get here.
ReplayOne(w) ==
  /\ pc[w] = "replay"
  /\ cur[w].doc.dest = "handled"
  /\ \E a \in pending[w] :
       /\ pending' = [pending EXCEPT ![w] = @ \ {a}]
       /\ \/ /\ succeeded' = [succeeded EXCEPT ![cur[w].id] = @ \cup {a}]
             /\ UNCHANGED failed
          \/ /\ failed' = [failed EXCEPT ![w] = @ \cup {a}]
             /\ UNCHANGED succeeded
  /\ UNCHANGED <<batch, sched, pc, orphan, todo, cur, req, stops, faults,
                 arms, runs>>

\* Mutation: the catch block only logs.
ReplayThrowsLogged(w) ==
  /\ pc[w] = "replay"
  /\ pc' = [pc EXCEPT ![w] = "next"]
  /\ UNCHANGED <<batch, sched, orphan, todo, cur, pending, failed, req, stops,
                 faults, history>>

\* An exception leaves batchHandleRequest (a malformed id, a missing field,
\* the database): the whole batch is set to failed.
ReplayThrows(w) ==
  /\ pc[w] = "replay"
  /\ UpdateStatus(Processing(cur[w]), "failed")
  /\ pc' = [pc EXCEPT ![w] = "next"]
  /\ UNCHANGED <<sched, orphan, todo, cur, pending, failed, req, stops,
                 faults, history>>

Replayed(w) ==
  /\ pc[w] = "replay"
  /\ cur[w].doc.dest = "handled"
  /\ pending[w] = {}

\* Mutation: the size of the map of failed audits is not looked at.
SomeIgnored(w) ==
  /\ Replayed(w)
  /\ pc' = [pc EXCEPT ![w] = "mark"]
  /\ UNCHANGED <<batch, sched, orphan, todo, cur, pending, failed, req, stops,
                 faults, history>>

\* No audit failed: go on to mark the batch.
NoneFailed(w) ==
  /\ Replayed(w)
  /\ failed[w] = {}
  /\ pc' = [pc EXCEPT ![w] = "mark"]
  /\ UNCHANGED <<batch, sched, orphan, todo, cur, pending, failed, req, stops,
                 faults, history>>

\* Every audit failed: the batch itself is set to failed.
AllFailed(w) ==
  /\ Replayed(w)
  /\ failed[w] # {}
  /\ failed[w] = cur[w].doc.audits
  /\ UpdateStatus(Processing(cur[w]), "failed")
  /\ pc' = [pc EXCEPT ![w] = "next"]
  /\ UNCHANGED <<sched, orphan, todo, cur, pending, failed, req, stops,
                 faults, history>>

\* Some audits failed: a copy of the batch with only those is inserted,
\* before the batch is marked.
InsertChild(w, audits, status) ==
  /\ Replayed(w)
  /\ failed[w] \notin {{}, cur[w].doc.audits}
  /\ \E i \in BatchId :
       /\ batch[i].status = "absent"
       /\ batch' = [batch EXCEPT ![i] =
                      [status |-> status, audits |-> audits, parent |-> cur[w].id,
                       dest |-> cur[w].doc.dest, marks |-> 0]]
  /\ pc' = [pc EXCEPT ![w] = "mark"]
  /\ UNCHANGED <<sched, orphan, todo, cur, pending, failed, req, stops,
                 faults, history>>

SomeFailed(w) == InsertChild(w, failed[w], "failed")

\* The batch is set to processed, if it is still processing, with the time.
MarkWhen(w, status, matched) ==
  /\ pc[w] = "mark"
  /\ LET doc == batch[cur[w].id] IN
       batch' = IF matched
                  THEN [batch EXCEPT ![cur[w].id] =
                          [doc EXCEPT !.status = status, !.marks = doc.marks + 1]]
                  ELSE batch
  /\ pc' = [pc EXCEPT ![w] = "next"]
  /\ UNCHANGED <<sched, orphan, todo, cur, pending, failed, req, stops,
                 faults, history>>

\* Mutations: save by id instead of update; a status no query knows.
MarkById(w) == MarkWhen(w, "processed", TRUE)
MarkMisspelt(w) == MarkWhen(w, "Processed", TRUE)

MarkProcessed(w) ==
  MarkWhen(w, "processed", Matches(Processing(cur[w]).doc, batch[cur[w].id]))

\* Where the execution w stops working on the batches, and its thread is free.
Idle(w) ==
  /\ pc' = [pc EXCEPT ![w] = "idle"]
  /\ orphan' = [orphan EXCEPT ![w] = FALSE]
  /\ todo' = [todo EXCEPT ![w] = {}]
  /\ cur' = [cur EXCEPT ![w] = NoSnapshot]
  /\ pending' = [pending EXCEPT ![w] = {}]
  /\ failed' = [failed EXCEPT ![w] = {}]

EndJob(w) ==
  /\ pc[w] = "next"
  /\ todo[w] = {}
  /\ Idle(w)
  /\ UNCHANGED <<batch, sched, req, stops, faults, history>>

\* batchHandleRequest returned null: failedAuditsMap.size() is outside the
\* try, so the whole execution ends and the batch stays processing.
NullResult(w) ==
  /\ pc[w] = "replay"
  /\ cur[w].doc.dest = "unhandled"
  /\ Idle(w)
  /\ UNCHANGED <<batch, sched, req, stops, faults, history>>

\* A MongoException out of one of the unguarded calls ends the execution.
AbortJob(w) ==
  /\ Busy(w)
  /\ faults < MaxFaults
  /\ faults' = faults + 1
  /\ Idle(w)
  /\ UNCHANGED <<batch, sched, req, stops, history>>

JobStep(w) ==
  \/ Claim(w) \/ ReplayOne(w) \/ ReplayThrows(w) \/ NoneFailed(w)
  \/ AllFailed(w) \/ SomeFailed(w) \/ MarkProcessed(w) \/ EndJob(w)
  \/ NullResult(w)

-----------------------------------------------------------------------------
(* The HTTP side: POST, PUT and DELETE of BatchReplayService.              *)

NoReq == [op |-> "none", seen |-> NoSnapshot]

InsertBatch(i, audits, dest) ==
  /\ batch[i].status = "absent"
  /\ Cardinality({j \in BatchId : /\ batch[j].status # "absent"
                                  /\ batch[j].parent = NoBatch}) < MaxInserts
  /\ batch' = [batch EXCEPT ![i] = [status |-> "unset", audits |-> audits,
                                    parent |-> NoBatch, dest |-> dest,
                                    marks |-> 0]]
  /\ arms' = [arms EXCEPT ![i] = @ + 1]
  /\ UNCHANGED <<sched, execVars, req, stops, faults, runs, succeeded>>

\* updateBatchStatus reads the batch, and goes on only if it has failed.
ReadToRearm(c, i) ==
  /\ req[c] = NoReq
  /\ batch[i].status = "failed"
  /\ arms[i] < MaxArms
  /\ req' = [req EXCEPT ![c] =
               [op |-> "rearm", seen |-> [id |-> i, doc |-> batch[i]]]]
  /\ UNCHANGED <<batch, sched, execVars, stops, faults, history>>

Rearm(c) ==
  /\ req[c].op = "rearm"
  /\ UpdateStatus(req[c].seen, "reprocess")
  /\ arms' = [arms EXCEPT ![req[c].seen.id] =
                IF Matches(req[c].seen.doc, batch[req[c].seen.id])
                  THEN @ + 1 ELSE @]
  /\ req' = [req EXCEPT ![c] = NoReq]
  /\ UNCHANGED <<sched, execVars, stops, faults, runs, succeeded>>

\* deleteBatches, for one id of the list: findOne, then remove(document).
ReadToDelete(c, i) ==
  /\ req[c] = NoReq
  /\ Stored(i)
  /\ req' = [req EXCEPT ![c] =
               [op |-> "delete", seen |-> [id |-> i, doc |-> batch[i]]]]
  /\ UNCHANGED <<batch, sched, execVars, stops, faults, history>>

Delete(c) ==
  /\ req[c].op = "delete"
  /\ UpdateStatus(req[c].seen, "deleted")
  /\ req' = [req EXCEPT ![c] = NoReq]
  /\ UNCHANGED <<sched, execVars, stops, faults, history>>

ClientStep ==
  \/ \E i \in BatchId, A \in SUBSET Audit \ {{}}, d \in Dest :
       InsertBatch(i, A, d)
  \/ \E c \in Client, i \in BatchId : ReadToRearm(c, i) \/ ReadToDelete(c, i)
  \/ \E c \in Client : Rearm(c) \/ Delete(c)

-----------------------------------------------------------------------------
(* The scheduler, and crashes of the process.                              *)

StartScheduler ==
  /\ sched = "down"
  /\ sched' = "up"
  /\ UNCHANGED <<batch, execVars, req, stops, faults, history>>

\* startJob or resumeJob of the one job the user interface names,
\* "BatchReplayJob". Deleting and storing a job that is executing keeps its
\* key blocked until the execution ends.
StartJob ==
  /\ sched = "up"
  /\ sched' = "scheduled"
  /\ UNCHANGED <<batch, execVars, req, stops, faults, history>>

\* stopJob or suspendJob: an execution under way goes on.
StopJob ==
  /\ sched = "scheduled"
  /\ sched' = "up"
  /\ UNCHANGED <<batch, execVars, req, stops, faults, history>>

\* scheduler.shutdown() does not wait for the executions under way. A
\* scheduler started later knows nothing of them.
StopScheduler ==
  /\ sched # "down"
  /\ stops < MaxStops
  /\ stops' = stops + 1
  /\ sched' = "down"
  /\ orphan' = [w \in Worker |-> Busy(w)]
  /\ UNCHANGED <<batch, pc, todo, cur, pending, failed, req, faults, history>>

\* The process ends and is started again. The database is all that is left:
\* the jobs are in a RAMJobStore.
Crash ==
  /\ faults < MaxFaults
  /\ faults' = faults + 1
  /\ sched' = "down"
  /\ pc' = [w \in Worker |-> "idle"]
  /\ orphan' = [w \in Worker |-> FALSE]
  /\ todo' = [w \in Worker |-> {}]
  /\ cur' = [w \in Worker |-> NoSnapshot]
  /\ pending' = [w \in Worker |-> {}]
  /\ failed' = [w \in Worker |-> {}]
  /\ req' = [c \in Client |-> NoReq]
  /\ UNCHANGED <<batch, stops, history>>

-----------------------------------------------------------------------------
Init ==
  /\ batch = [i \in BatchId |-> Absent]
  /\ sched = "down"
  /\ pc = [w \in Worker |-> "idle"]
  /\ orphan = [w \in Worker |-> FALSE]
  /\ todo = [w \in Worker |-> {}]
  /\ cur = [w \in Worker |-> NoSnapshot]
  /\ pending = [w \in Worker |-> {}]
  /\ failed = [w \in Worker |-> {}]
  /\ req = [c \in Client |-> NoReq]
  /\ stops = 0 /\ faults = 0
  /\ arms = [i \in BatchId |-> 0]
  /\ runs = [i \in BatchId |-> 0]
  /\ succeeded = [i \in BatchId |-> {}]

CommonStep ==
  \/ \E w \in Worker : FireJob(w) \/ JobStep(w) \/ AbortJob(w)
  \/ ClientStep
  \/ StartScheduler \/ StartJob \/ StopJob
  \/ Crash

Next == CommonStep \/ StopScheduler

\* The scheduler is only ever stopped when no execution is under way.
StopWhenIdle == (\A w \in Worker : ~Busy(w)) /\ StopScheduler
SerialNext == CommonStep \/ StopWhenIdle

Spec == Init /\ [][Next]_vars
SerialSpec == Init /\ [][SerialNext]_vars

\* The threads run and the destinations answer; the trigger of a job that
\* stays scheduled fires. Nobody is obliged to send a request.
Fairness ==
  /\ \A w \in Worker : WF_vars(JobStep(w))
  /\ WF_vars(\E w \in Worker : FireJob(w))
  /\ \A c \in Client : WF_vars(Rearm(c) \/ Delete(c))

FairSpec == Spec /\ Fairness
FairSerialSpec == SerialSpec /\ Fairness

-----------------------------------------------------------------------------
(* Properties.                                                             *)

TypeOK ==
  /\ batch \in [BatchId -> Document]
  /\ sched \in {"down", "up", "scheduled"}
  /\ pc \in [Worker -> {"idle", "next", "replay", "mark"}]
  /\ orphan \in [Worker -> BOOLEAN]
  /\ todo \in [Worker -> SUBSET Snapshot]
  /\ cur \in [Worker -> Snapshot \cup {NoSnapshot}]
  /\ pending \in [Worker -> SUBSET Audit]
  /\ failed \in [Worker -> SUBSET Audit]
  /\ req \in [Client -> [op : {"none", "rearm", "delete"},
                         seen : Snapshot \cup {NoSnapshot}]]
  /\ stops \in Nat /\ faults \in Nat
  /\ arms \in [BatchId -> Nat]
  /\ runs \in [BatchId -> Nat]
  /\ succeeded \in [BatchId -> SUBSET Audit]

\* Audit a of batch i needs no more attention under i: some run of i replayed
\* it, or a document with parentID i lists it.
AccountedFor(i, a) ==
  \/ a \in succeeded[i]
  \/ \E j \in BatchId : /\ batch[j].status # "absent"
                        /\ batch[j].parent = i
                        /\ a \in batch[j].audits

\* A batch is marked processed only when every audit of it that can be
\* replayed was, or was handed over to the document of failed audits
\* (BatchReplayJob.java:98-131): no failure is forgotten, whatever the job
\* was interrupted by and however many executions there are.
NoFailureForgotten ==
  \A i \in BatchId :
    batch[i].status = "processed" =>
      \A a \in batch[i].audits \cap Replayable : AccountedFor(i, a)

\* As long as executions do not overlap, a batch is handed to
\* batchHandleRequest at most once for each time it was stored or set to
\* reprocess, crashes included: no audit is replayed twice for one request.
AtMostOncePerArming == \A i \in BatchId : runs[i] <= arms[i]

\* As long as executions do not overlap, a batch hands its failed audits over
\* to at most one document, so that they cannot be replayed from two.
AtMostOneChild ==
  \A i, j \in BatchId :
    /\ batch[i].status # "absent" /\ batch[j].status # "absent"
    /\ batch[i].parent # NoBatch
    /\ batch[i].parent = batch[j].parent
    => i = j

\* As long as executions do not overlap, a processed batch is never taken up
\* again: only a DELETE changes it.
ProcessedIsFinal ==
  [][\A i \in BatchId : batch[i].status = "processed" =>
        batch'[i].status \in {"processed", "deleted"}]_vars

\* An armed batch does not stay armed while the job stays scheduled, even
\* when a batch before it ends the execution with an exception.
ArmedIsTaken ==
  <>[](sched = "scheduled") => \A i \in BatchId : Armed(i) ~> ~Armed(i)

\* Some execution is at work on batch i.
BeingReplayed(i) == \E w \in Worker : pc[w] \in {"replay", "mark"} /\ cur[w].id = i

\* A batch that was set to processing is settled (processed, failed or
\* removed), unless its destination is of a type the job cannot handle, or
\* the execution at work on it is cut short by a crash or an exception of the
\* driver: then it stays processing for ever, since the query
\* (BatchReplayJob.java:47-51) never takes it again. A cut made earlier, of
\* another execution, is no excuse.
ClaimedIsSettled ==
  \A i \in BatchId, n \in 0..MaxFaults :
    /\ batch[i].status = "processing"
    /\ batch[i].dest = "handled"
    /\ faults = n
    /\ n = 0 \/ BeingReplayed(i)
    ~> batch[i].status # "processing" \/ faults > n

\* The life of a batch as BatchLifecycle sees it.
LifeOf(status) ==
  CASE status = "absent" -> "none"
    [] status \in {"unset", "reprocess"} -> "armed"
    [] status = "processing" -> "claimed"
    [] status = "processed" -> "done"
    [] status = "failed" -> "failed"
    [] status = "deleted" -> "removed"

Lifecycle == INSTANCE BatchLifecycle
               WITH life <- [i \in BatchId |-> LifeOf(batch[i].status)]

\* As long as executions do not overlap, every batch lives as BatchLifecycle
\* promises.
ImplementsLifecycle == Lifecycle!Spec

\* What BatchReplayJob.java:98 says of the failed audits of a batch: they are
\* saved in a separate document "to replay next time".
FailedAuditsReplayedNextTime ==
  <>[](sched = "scheduled") =>
    \A i \in BatchId :
      batch[i].parent # NoBatch /\ batch[i].status = "failed"
        ~> batch[i].status # "failed"
-----------------------------------------------------------------------------
(* Inductive invariants.                                                   *)

HandedOut(w) == pc[w] \in {"replay", "mark"}

\* Snapshots agree with the stored document on the audits, which no update
\* changes.
SnapshotsAgree ==
  \A w \in Worker :
    /\ \A snap \in todo[w] :
         /\ snap \in Snapshot
         /\ batch[snap.id].status # "absent"
         /\ batch[snap.id].audits = snap.doc.audits
    /\ HandedOut(w) =>
         /\ cur[w] \in Snapshot
         /\ batch[cur[w].id].status # "absent"
         /\ batch[cur[w].id].audits = cur[w].doc.audits

\* While a batch is replayed, its replayable audits are still to be replayed,
\* noted as failed, or replayed; before it is marked they are accounted for.
ReplayAccounts ==
  \A w \in Worker :
    /\ pc[w] = "replay" =>
         \A a \in cur[w].doc.audits \cap Replayable :
           a \in pending[w] \cup failed[w] \cup succeeded[cur[w].id]
    /\ pc[w] = "mark" =>
         \A a \in cur[w].doc.audits \cap Replayable : AccountedFor(cur[w].id, a)

\* What makes NoFailureForgotten inductive, whatever executions overlap.
AccountInv == SnapshotsAgree /\ ReplayAccounts /\ NoFailureForgotten

\* What @DisallowConcurrentExecution (BatchReplayJob.java:30) asks for. It does
\* not survive a StopScheduler while an execution is under way
\* (SchedulerService.java:117).
NoConcurrentExecution ==
  \A v, w \in Worker : Busy(v) /\ Busy(w) => v = w

\* There is one execution at a time, and the scheduler knows it.
OneExecution ==
  /\ \A w \in Worker : ~orphan[w]
  /\ \A w \in Worker : ~Busy(w) => todo[w] = {}
  /\ NoConcurrentExecution

\* The cursor lists a batch once, no child of it exists, and the batch is
\* still armed for one more run unless it was removed.
CursorIsFresh ==
  \A w \in Worker : \A snap \in todo[w] :
    /\ snap.doc.status \in {"unset", "reprocess"}
    /\ batch[snap.id].status \in {snap.doc.status, "deleted"}
    /\ runs[snap.id] < arms[snap.id]
    /\ \A i \in BatchId : batch[i].parent # snap.id
    /\ \A other \in todo[w] : other.id = snap.id => other = snap
    /\ HandedOut(w) => cur[w].id # snap.id

\* The batch that is being replayed is processing or removed, and has no
\* child before the execution is about to mark it.
ClaimIsHeld ==
  \A w \in Worker :
    /\ HandedOut(w) => batch[cur[w].id].status \in {"processing", "deleted"}
    /\ pc[w] = "replay" => \A i \in BatchId : batch[i].parent # cur[w].id

ArmsAndChildren ==
  /\ \A i \in BatchId : Armed(i) => runs[i] < arms[i]
  /\ \A i \in BatchId :
       batch[i].parent # NoBatch =>
         batch[batch[i].parent].status \in {"processing", "processed", "deleted"}
  /\ \A c \in Client : req[c].op = "rearm" => req[c].seen.doc.status = "failed"

\* What makes the serial properties inductive.
SerialInv ==
  /\ OneExecution /\ CursorIsFresh /\ ClaimIsHeld /\ ArmsAndChildren
  /\ AtMostOncePerArming /\ AtMostOneChild
=============================================================================
