-------------------------- MODULE BatchReplayProofs --------------------------
(* Theorems about BatchReplay, for every value of its constants.           *)
EXTENDS BatchReplay, TLAPS

-----------------------------------------------------------------------------
(* Types.                                                                  *)

LEMMA AbsentType == Absent \in Document /\ NoSnapshot \notin Snapshot
  BY BatchReplayAssumption DEF Absent, Document, Status, Dest, NoSnapshot, Snapshot

\* Whatever is written by compare-and-set, the collection keeps its type.
LEMMA UpdateStatusType ==
  ASSUME batch \in [BatchId -> Document],
         NEW seen, NEW status \in Status, UpdateStatus(seen, status)
  PROVE  batch' \in [BatchId -> Document]
  BY DEF UpdateStatus, Document

\* The initial values have their types.
LEMMA TypeInit == Init => TypeOK
  BY AbsentType DEF Init, TypeOK, NoReq

\* An execution of the job keeps the types.
LEMMA TypeJobStep ==
  ASSUME TypeOK, NEW w \in Worker, FireJob(w) \/ JobStep(w) \/ AbortJob(w)
  PROVE  TypeOK'
<1> USE DEF TypeOK, history
<1>1. CASE FireJob(w)
  BY <1>1 DEF FireJob, FireWith, Snapshot
<1>2. CASE Claim(w)
  <2>1. PICK snap \in todo[w] : HandOut(w, snap) /\ UpdateStatus(snap, "processing")
    BY <1>2 DEF Claim
  <2>2. snap \in Snapshot /\ snap.id \in BatchId /\ snap.doc.audits \subseteq Audit
    BY <2>1 DEF Snapshot, Document
  <2>3. batch' \in [BatchId -> Document]
    BY <2>1, UpdateStatusType DEF Status
  <2>4. runs' \in [BatchId -> Nat]
    BY <2>1, <2>2 DEF HandOut
  <2> QED BY <2>1, <2>2, <2>3, <2>4 DEF HandOut
<1>3. CASE ReplayOne(w)
  BY <1>3 DEF ReplayOne
<1>4. CASE ReplayThrows(w)
  <2>1. batch' \in [BatchId -> Document]
    BY <1>4, UpdateStatusType DEF ReplayThrows, Status
  <2> QED BY <1>4, <2>1 DEF ReplayThrows
<1>5. CASE NoneFailed(w)
  BY <1>5 DEF NoneFailed
<1>6. CASE AllFailed(w)
  <2>1. batch' \in [BatchId -> Document]
    BY <1>6, UpdateStatusType DEF AllFailed, Status
  <2> QED BY <1>6, <2>1 DEF AllFailed
<1>7. CASE SomeFailed(w)
  <2>1. cur[w].doc \in Document /\ cur[w].id \in BatchId \cup {NoBatch}
    BY AbsentType DEF Snapshot, NoSnapshot
  <2>2. batch' \in [BatchId -> Document]
    BY <1>7, <2>1 DEF SomeFailed, InsertChild, Document, Status
  <2> QED BY <1>7, <2>2 DEF SomeFailed, InsertChild
<1>8. CASE MarkProcessed(w)
  <2>1. batch' \in [BatchId -> Document]
    <3> DEFINE doc == batch[cur[w].id]
               marked == [doc EXCEPT !.status = "processed", !.marks = doc.marks + 1]
    <3>1. ASSUME cur[w].id \in BatchId PROVE marked \in Document
      <4>1. doc \in Document
        BY <3>1
      <4> HIDE DEF doc
      <4> DEFINE renamed == [doc EXCEPT !.status = "processed"]
      <4>2. renamed \in Document /\ doc.marks + 1 \in Nat
        BY <4>1 DEF Document, Status
      <4>3. marked = [renamed EXCEPT !.marks = doc.marks + 1]
        OBVIOUS
      <4> HIDE DEF renamed
      <4> QED BY <4>2, <4>3 DEF Document
    <3>2. batch' \in {batch, [batch EXCEPT ![cur[w].id] = marked]}
      BY <1>8 DEF MarkProcessed, MarkWhen
    <3> QED BY <3>1, <3>2
  <2> QED BY <1>8, <2>1 DEF MarkProcessed, MarkWhen
<1>9. CASE EndJob(w)
  BY <1>9 DEF EndJob, Idle
<1>10. CASE NullResult(w)
  BY <1>10 DEF NullResult, Idle
<1>11. CASE AbortJob(w)
  BY <1>11 DEF AbortJob, Idle
<1> QED BY <1>1, <1>2, <1>3, <1>4, <1>5, <1>6, <1>7, <1>8, <1>9, <1>10, <1>11
        DEF JobStep

\* A request about batches keeps the types.
LEMMA TypeClientStep ==
  ASSUME TypeOK, ClientStep
  PROVE  TypeOK'
<1> USE DEF TypeOK, execVars, history
<1>1. ASSUME NEW i \in BatchId, NEW A \in SUBSET Audit \ {{}}, NEW d \in Dest,
             InsertBatch(i, A, d)
      PROVE  TypeOK'
  <2>1. batch' \in [BatchId -> Document]
    BY <1>1 DEF InsertBatch, Document, Status
  <2> QED BY <1>1, <2>1 DEF InsertBatch
<1>2. ASSUME NEW c \in Client, NEW i \in BatchId, ReadToRearm(c, i)
      PROVE  TypeOK'
  BY <1>2 DEF ReadToRearm, Snapshot
<1>3. ASSUME NEW c \in Client, NEW i \in BatchId, ReadToDelete(c, i)
      PROVE  TypeOK'
  BY <1>3 DEF ReadToDelete, Snapshot
<1>4. ASSUME NEW c \in Client, Rearm(c) PROVE TypeOK'
  <2>1. batch' \in [BatchId -> Document]
    BY <1>4, UpdateStatusType DEF Rearm, Status
  <2>2. arms' \in [BatchId -> Nat]
    <3> DEFINE id == req[c].seen.id
               more == IF Matches(req[c].seen.doc, batch[id]) THEN arms[id] + 1
                                                              ELSE arms[id]
    <3>1. id \in BatchId => more \in Nat
      OBVIOUS
    <3>2. arms' = [arms EXCEPT ![id] = more]
      BY <1>4 DEF Rearm
    <3> QED BY <3>1, <3>2
  <2>3. req' \in [Client -> [op : {"none", "rearm", "delete"},
                             seen : Snapshot \cup {NoSnapshot}]]
    BY <1>4 DEF Rearm, NoReq
  <2> QED BY <1>4, <2>1, <2>2, <2>3 DEF Rearm
<1>5. ASSUME NEW c \in Client, Delete(c) PROVE TypeOK'
  <2>1. batch' \in [BatchId -> Document]
    BY <1>5, UpdateStatusType DEF Delete, Status
  <2> QED BY <1>5, <2>1 DEF Delete, NoReq
<1> QED BY <1>1, <1>2, <1>3, <1>4, <1>5 DEF ClientStep

\* The schedulers and a crash keep the types.
LEMMA TypeSystemStep ==
  ASSUME TypeOK, StartScheduler \/ StartJob \/ StopJob \/ StopScheduler \/ Crash
  PROVE  TypeOK'
<1> USE DEF TypeOK, execVars, history
<1>1. CASE StartScheduler \/ StartJob \/ StopJob
  BY <1>1 DEF StartScheduler, StartJob, StopJob
<1>2. CASE StopScheduler
  BY <1>2 DEF StopScheduler, Busy
<1>3. CASE Crash
  BY <1>3 DEF Crash, NoReq
<1> QED BY <1>1, <1>2, <1>3

\* Every step keeps the types.
LEMMA TypeStep == TypeOK /\ [Next]_vars => TypeOK'
<1> SUFFICES ASSUME TypeOK, [Next]_vars PROVE TypeOK'
  OBVIOUS
<1>1. CASE UNCHANGED vars
  BY <1>1 DEF vars, execVars, history, TypeOK
<1> QED BY <1>1, TypeJobStep, TypeClientStep, TypeSystemStep DEF Next, CommonStep

\* The type invariant holds of every behavior of BatchReplay, executions that
\* overlap included.
THEOREM TypeCorrect == Spec => []TypeOK
  BY TypeInit, TypeStep, PTL DEF Spec

-----------------------------------------------------------------------------
(* No failed audit is forgotten.                                           *)

\* A compare-and-set changes nothing but the status of the one document, and
\* that only on a match.
LEMMA UpdateStatusKeeps ==
  ASSUME batch \in [BatchId -> Document],
         NEW seen, NEW status \in Status, UpdateStatus(seen, status)
  PROVE  \A i \in BatchId :
           /\ batch'[i].audits = batch[i].audits
           /\ batch'[i].parent = batch[i].parent
           /\ \/ batch'[i].status = batch[i].status
              \/ /\ i = seen.id
                 /\ Matches(seen.doc, batch[i])
                 /\ batch'[i].status = status
<1> SUFFICES ASSUME NEW i \in BatchId
             PROVE  /\ batch'[i].audits = batch[i].audits
                    /\ batch'[i].parent = batch[i].parent
                    /\ \/ batch'[i].status = batch[i].status
                       \/ /\ i = seen.id
                          /\ Matches(seen.doc, batch[i])
                          /\ batch'[i].status = status
  OBVIOUS
<1> DEFINE new == IF Matches(seen.doc, batch[seen.id]) THEN status
                                                       ELSE batch[seen.id].status
<1>1. batch' = [batch EXCEPT ![seen.id] = [batch[seen.id] EXCEPT !.status = new]]
  BY DEF UpdateStatus
<1>2. batch[i] \in Document
  OBVIOUS
<1>3. CASE i = seen.id
  BY <1>1, <1>2, <1>3 DEF Document
<1>4. CASE i # seen.id
  BY <1>1, <1>4
<1> QED BY <1>3, <1>4

\* A document, once stored, keeps its audits and its parent, and the history
\* only grows; a document becomes processed only when an execution marks it.
Kept ==
  /\ \A i \in BatchId :
       batch[i].status # "absent" =>
         /\ batch'[i].status # "absent"
         /\ batch'[i].audits = batch[i].audits
         /\ batch'[i].parent = batch[i].parent
  /\ \A i \in BatchId : succeeded[i] \subseteq succeeded'[i]

BecameProcessed(i) == batch'[i].status = "processed" /\ batch[i].status # "processed"

\* A client's change of a status that is not to "processed" loses no document.
LEMMA UpdateStatusKept ==
  ASSUME TypeOK, NEW seen, NEW status \in Status \ {"absent", "processed"},
         UpdateStatus(seen, status), UNCHANGED succeeded
  PROVE  Kept /\ \A i \in BatchId : ~BecameProcessed(i)
  BY UpdateStatusKeeps DEF Kept, BecameProcessed, TypeOK

\* No step loses what is written of a batch and its failures; only MarkProcessed
\* makes a batch processed.
LEMMA StepKept ==
  ASSUME TypeOK, [Next]_vars
  PROVE  /\ Kept
         /\ \A i \in BatchId : BecameProcessed(i) =>
              \E w \in Worker : MarkProcessed(w) /\ i = cur[w].id
<1> DEFINE Goal == Kept /\ \A i \in BatchId : ~BecameProcessed(i)
<1>1. ASSUME UNCHANGED <<batch, succeeded>> PROVE Goal
  BY <1>1 DEF Kept, BecameProcessed
<1>2. ASSUME NEW w \in Worker, Claim(w) PROVE Goal
  <2>1. PICK snap \in todo[w] : HandOut(w, snap) /\ UpdateStatus(snap, "processing")
    BY <1>2 DEF Claim
  <2> QED BY <2>1, UpdateStatusKept DEF HandOut, Status
<1>3. ASSUME NEW w \in Worker, ReplayOne(w) PROVE Goal
  BY <1>3 DEF ReplayOne, Kept, BecameProcessed, TypeOK
<1>4. ASSUME NEW w \in Worker, ReplayThrows(w) \/ AllFailed(w) PROVE Goal
  BY <1>4, UpdateStatusKept DEF ReplayThrows, AllFailed, Status, history
<1>5. ASSUME NEW w \in Worker, SomeFailed(w) PROVE Goal
  <2>1. PICK i \in BatchId :
          /\ batch[i].status = "absent"
          /\ batch' = [batch EXCEPT ![i] =
                         [status |-> "failed", audits |-> failed[w],
                          parent |-> cur[w].id, dest |-> cur[w].doc.dest,
                          marks |-> 0]]
    BY <1>5 DEF SomeFailed, InsertChild
  <2>2. UNCHANGED succeeded
    BY <1>5 DEF SomeFailed, InsertChild, history
  <2> QED BY <2>1, <2>2 DEF TypeOK, Kept, BecameProcessed
<1>6. ASSUME NEW i \in BatchId, NEW A \in SUBSET Audit \ {{}}, NEW d \in Dest,
             InsertBatch(i, A, d)
      PROVE  Goal
  BY <1>6 DEF InsertBatch, TypeOK, Kept, BecameProcessed
<1>7. ASSUME NEW c \in Client, Rearm(c) \/ Delete(c) PROVE Goal
  BY <1>7, UpdateStatusKept DEF Rearm, Delete, Status, history
<1>8. ASSUME NEW w \in Worker, MarkProcessed(w)
      PROVE  Kept /\ \A i \in BatchId : BecameProcessed(i) => i = cur[w].id
  <2> DEFINE doc == batch[cur[w].id]
             renamed == [doc EXCEPT !.status = "processed"]
             marked == [renamed EXCEPT !.marks = doc.marks + 1]
  <2>1. batch' \in {batch, [batch EXCEPT ![cur[w].id] = marked]}
    BY <1>8 DEF MarkProcessed, MarkWhen
  <2>2. ASSUME cur[w].id \in BatchId
        PROVE  /\ marked.status = "processed"
               /\ marked.audits = doc.audits
               /\ marked.parent = doc.parent
    <3>1. doc \in Document
      BY <2>2 DEF TypeOK
    <3> HIDE DEF doc
    <3>2. /\ renamed.status = "processed"
          /\ renamed.audits = doc.audits
          /\ renamed.parent = doc.parent
      BY <3>1 DEF Document
    <3> HIDE DEF renamed
    <3> QED BY <3>2
  <2>3. UNCHANGED succeeded
    BY <1>8 DEF MarkProcessed, MarkWhen, history
  <2> HIDE DEF marked
  <2> QED BY <2>1, <2>2, <2>3 DEF TypeOK, Kept, BecameProcessed
<1>9. CASE UNCHANGED vars
  BY <1>9, <1>1 DEF vars, history
<1>10. ASSUME NEW w \in Worker,
              FireJob(w) \/ NoneFailed(w) \/ EndJob(w) \/ NullResult(w) \/ AbortJob(w)
       PROVE  Goal
  BY <1>10, <1>1 DEF FireJob, FireWith, NoneFailed, EndJob, NullResult, AbortJob, history
<1>11. ASSUME NEW c \in Client, NEW i \in BatchId, ReadToRearm(c, i) \/ ReadToDelete(c, i)
       PROVE  Goal
  BY <1>11, <1>1 DEF ReadToRearm, ReadToDelete, history
<1>12. CASE StartScheduler \/ StartJob \/ StopJob \/ StopScheduler \/ Crash
  BY <1>12, <1>1 DEF StartScheduler, StartJob, StopJob, StopScheduler, Crash, history
<1> HIDE DEF Goal
<1> QED BY <1>2, <1>3, <1>4, <1>5, <1>6, <1>7, <1>8, <1>9, <1>10, <1>11, <1>12
        DEF Next, CommonStep, JobStep, ClientStep, Goal

\* An audit that is accounted for remains so.
LEMMA AccountedForKept ==
  ASSUME Kept, NEW i \in BatchId, NEW a, AccountedFor(i, a)
  PROVE  AccountedFor(i, a)'
  BY DEF Kept, AccountedFor

\* The snapshots of one execution agree with the collection.
AgreesFor(w) ==
  /\ \A snap \in todo[w] :
       /\ snap \in Snapshot
       /\ batch[snap.id].status # "absent"
       /\ batch[snap.id].audits = snap.doc.audits
  /\ HandedOut(w) =>
       /\ cur[w] \in Snapshot
       /\ batch[cur[w].id].status # "absent"
       /\ batch[cur[w].id].audits = cur[w].doc.audits

\* Nothing new was handed to execution w.
HoldsOn(w) ==
  /\ todo'[w] \subseteq todo[w]
  /\ HandedOut(w)' => HandedOut(w) /\ cur'[w] = cur[w]

\* What an execution has read stays true as long as it takes no step.
LEMMA HoldsOnAgrees ==
  ASSUME Kept, NEW w \in Worker, AgreesFor(w), HoldsOn(w)
  PROVE  AgreesFor(w)'
  BY DEF Kept, AgreesFor, HoldsOn, Snapshot

\* The batches an execution starts with are those stored.
LEMMA FireAgrees ==
  ASSUME TypeOK, Kept, NEW w \in Worker, FireJob(w)
  PROVE  AgreesFor(w)'
<1>1. /\ todo'[w] = {[id |-> i, doc |-> batch[i]] : i \in {j \in BatchId : Armed(j)}}
      /\ pc'[w] = "next"
      /\ batch' = batch
  BY DEF FireJob, FireWith, TypeOK
<1>2. ASSUME NEW snap \in todo'[w]
      PROVE  /\ snap \in Snapshot
             /\ batch[snap.id].status # "absent"
             /\ batch[snap.id].audits = snap.doc.audits
  BY <1>1, <1>2 DEF TypeOK, Armed, Snapshot
<1> QED BY <1>1, <1>2 DEF AgreesFor, HandedOut

\* A batch that is claimed is one of those.
LEMMA ClaimAgrees ==
  ASSUME TypeOK, Kept, NEW w \in Worker, AgreesFor(w), Claim(w)
  PROVE  AgreesFor(w)'
<1>1. PICK snap \in todo[w] : HandOut(w, snap)
  BY DEF Claim
<1>2. todo'[w] \subseteq todo[w] /\ cur'[w] = snap
  BY <1>1 DEF HandOut, TypeOK
<1> QED BY <1>2 DEF AgreesFor, Kept, Snapshot

\* All executions but the one that fires or claims hold on to what they have.
LEMMA StepHoldsOn ==
  ASSUME TypeOK, [Next]_vars, NEW w \in Worker, ~FireJob(w), ~Claim(w)
  PROVE  HoldsOn(w)
<1> USE DEF TypeOK, HoldsOn, HandedOut
<1>1. ASSUME NEW v \in Worker, FireJob(v) PROVE HoldsOn(w)
  BY <1>1 DEF FireJob, FireWith
<1>2. ASSUME NEW v \in Worker, Claim(v) PROVE HoldsOn(w)
  BY <1>2 DEF Claim, HandOut
<1>3. ASSUME NEW v \in Worker,
             \/ ReplayOne(v) \/ ReplayThrows(v) \/ NoneFailed(v) \/ AllFailed(v)
             \/ SomeFailed(v) \/ MarkProcessed(v)
      PROVE  HoldsOn(w)
  BY <1>3 DEF ReplayOne, ReplayThrows, NoneFailed, AllFailed, SomeFailed,
              InsertChild, MarkProcessed, MarkWhen, Replayed
<1>4. ASSUME NEW v \in Worker, EndJob(v) \/ NullResult(v) \/ AbortJob(v)
      PROVE  HoldsOn(w)
  BY <1>4 DEF EndJob, NullResult, AbortJob, Idle
<1>5. CASE ClientStep
  BY <1>5 DEF ClientStep, InsertBatch, ReadToRearm, ReadToDelete, Rearm, Delete, execVars
<1>6. CASE StartScheduler \/ StartJob \/ StopJob \/ StopScheduler
  BY <1>6 DEF StartScheduler, StartJob, StopJob, StopScheduler, execVars
<1>7. CASE Crash
  BY <1>7 DEF Crash
<1>8. CASE UNCHANGED vars
  BY <1>8 DEF vars, execVars
<1> QED BY <1>1, <1>2, <1>3, <1>4, <1>5, <1>6, <1>7, <1>8 DEF Next, CommonStep, JobStep

\* Every step keeps what the executions have read true.
LEMMA SnapshotsAgreeStep ==
  ASSUME TypeOK, SnapshotsAgree, [Next]_vars
  PROVE  SnapshotsAgree'
<1>1. Kept
  BY StepKept
<1>2. \A w \in Worker : AgreesFor(w)
  BY DEF SnapshotsAgree, AgreesFor
<1>3. ASSUME NEW w \in Worker PROVE AgreesFor(w)'
  BY <1>1, <1>2, HoldsOnAgrees, FireAgrees, ClaimAgrees, StepHoldsOn
<1> QED BY <1>3 DEF SnapshotsAgree, AgreesFor

\* The audits of the batch execution w works on are accounted for.
AccountsFor(w) ==
  /\ pc[w] = "replay" =>
       \A a \in cur[w].doc.audits \cap Replayable :
         a \in pending[w] \cup failed[w] \cup succeeded[cur[w].id]
  /\ pc[w] = "mark" =>
       \A a \in cur[w].doc.audits \cap Replayable : AccountedFor(cur[w].id, a)

Untouched(w) ==
  \/ ~HandedOut(w)'
  \/ <<pc'[w], cur'[w], pending'[w], failed'[w]>> = <<pc[w], cur[w], pending[w], failed[w]>>

\* The failures an execution has collected stay complete while others step.
LEMMA UntouchedAccounts ==
  ASSUME Kept, NEW w \in Worker,
         HandedOut(w) => cur[w].id \in BatchId, AccountsFor(w), Untouched(w)
  PROVE  AccountsFor(w)'
<1>1. CASE ~HandedOut(w)'
  BY <1>1 DEF AccountsFor, HandedOut
<1>2. CASE pc'[w] = "replay" /\ pc[w] = "replay" /\ Untouched(w)
  BY <1>2 DEF AccountsFor, HandedOut, Untouched, Kept
<1>3. CASE pc'[w] = "mark" /\ pc[w] = "mark" /\ Untouched(w)
  <2>1. cur'[w] = cur[w] /\ cur[w].id \in BatchId
    BY <1>3 DEF Untouched, HandedOut
  <2>2. ASSUME NEW a \in cur'[w].doc.audits \cap Replayable
        PROVE  AccountedFor(cur[w].id, a)'
    BY <1>3, <2>1, <2>2, AccountedForKept DEF AccountsFor
  <2> QED BY <1>3, <2>1, <2>2 DEF AccountsFor, AccountedFor
<1> QED BY <1>1, <1>2, <1>3 DEF Untouched, HandedOut

\* Only claiming, replaying and storing change what an execution has collected.
LEMMA StepUntouched ==
  ASSUME TypeOK, [Next]_vars, NEW w \in Worker,
         ~(Claim(w) \/ ReplayOne(w) \/ NoneFailed(w) \/ SomeFailed(w))
  PROVE  Untouched(w)
<1> USE DEF TypeOK, Untouched, HandedOut
<1>1. ASSUME NEW v \in Worker, FireJob(v) PROVE Untouched(w)
  BY <1>1 DEF FireJob, FireWith
<1>2. ASSUME NEW v \in Worker, v # w, Claim(v) \/ ReplayOne(v) PROVE Untouched(w)
  BY <1>2 DEF Claim, HandOut, ReplayOne
<1>3. ASSUME NEW v \in Worker, v # w, NoneFailed(v) \/ SomeFailed(v)
      PROVE  Untouched(w)
  BY <1>3 DEF NoneFailed, SomeFailed, InsertChild
<1>4. ASSUME NEW v \in Worker, ReplayThrows(v) \/ AllFailed(v) \/ MarkProcessed(v)
      PROVE  Untouched(w)
  BY <1>4 DEF ReplayThrows, AllFailed, MarkProcessed, MarkWhen
<1>5. ASSUME NEW v \in Worker, EndJob(v) \/ NullResult(v) \/ AbortJob(v)
      PROVE  Untouched(w)
  BY <1>5 DEF EndJob, NullResult, AbortJob, Idle
<1>6. CASE ClientStep
  BY <1>6 DEF ClientStep, InsertBatch, ReadToRearm, ReadToDelete, Rearm, Delete, execVars
<1>7. CASE StartScheduler \/ StartJob \/ StopJob \/ StopScheduler
  BY <1>7 DEF StartScheduler, StartJob, StopJob, StopScheduler, execVars
<1>8. CASE Crash
  BY <1>8 DEF Crash
<1>9. CASE UNCHANGED vars
  BY <1>9 DEF vars, execVars
<1> QED BY <1>1, <1>2, <1>3, <1>4, <1>5, <1>6, <1>7, <1>8, <1>9
        DEF Next, CommonStep, JobStep

\* Every step keeps the failures collected complete.
LEMMA ReplayAccountsStep ==
  ASSUME TypeOK, AccountInv, [Next]_vars
  PROVE  ReplayAccounts'
<1> SUFFICES ASSUME NEW w \in Worker PROVE AccountsFor(w)'
  BY DEF ReplayAccounts, AccountsFor
<1>1. Kept
  BY StepKept
<1>2. AccountsFor(w) /\ AgreesFor(w)
  BY DEF AccountInv, ReplayAccounts, AccountsFor, SnapshotsAgree, AgreesFor
<1>3. HandedOut(w) => cur[w].id \in BatchId
  BY <1>2 DEF AgreesFor, Snapshot
<1>4. CASE Claim(w)
  <2>1. PICK snap \in todo[w] : HandOut(w, snap)
    BY <1>4 DEF Claim
  <2>2. /\ pc'[w] = "replay"
        /\ cur'[w] = snap
        /\ pending'[w] = snap.doc.audits \cap Replayable
    BY <2>1 DEF HandOut, TypeOK
  <2> QED BY <2>2 DEF AccountsFor
<1>5. CASE ReplayOne(w)
  <2>1. PICK a \in pending[w] :
          /\ pending' = [pending EXCEPT ![w] = @ \ {a}]
          /\ \/ /\ succeeded' = [succeeded EXCEPT ![cur[w].id] = @ \cup {a}]
                /\ UNCHANGED failed
             \/ /\ failed' = [failed EXCEPT ![w] = @ \cup {a}]
                /\ UNCHANGED succeeded
    BY <1>5 DEF ReplayOne
  <2>2. /\ pc[w] = "replay" /\ UNCHANGED <<pc, cur>>
        /\ cur[w].id \in BatchId
    BY <1>3, <1>5 DEF ReplayOne, HandedOut
  <2> QED BY <1>2, <2>1, <2>2 DEF AccountsFor, TypeOK
<1>6. CASE NoneFailed(w)
  <2>1. /\ pc[w] = "replay" /\ pc'[w] = "mark"
        /\ pending[w] = {} /\ failed[w] = {}
        /\ UNCHANGED <<batch, cur, succeeded>>
    BY <1>6 DEF NoneFailed, Replayed, TypeOK, history
  <2> QED BY <1>2, <2>1 DEF AccountsFor, AccountedFor
<1>7. CASE SomeFailed(w)
  <2>1. /\ pc[w] = "replay" /\ pc'[w] = "mark"
        /\ pending[w] = {}
        /\ UNCHANGED <<cur, succeeded>>
    BY <1>7 DEF SomeFailed, InsertChild, Replayed, TypeOK, history
  <2>2. PICK i \in BatchId :
          /\ batch'[i].status = "failed"
          /\ batch'[i].parent = cur[w].id
          /\ batch'[i].audits = failed[w]
    BY <1>7 DEF SomeFailed, InsertChild, TypeOK
  <2> QED BY <1>2, <2>1, <2>2 DEF AccountsFor, AccountedFor
<1> QED BY <1>1, <1>2, <1>3, <1>4, <1>5, <1>6, <1>7, UntouchedAccounts, StepUntouched

\* When a batch becomes processed its failures are stored.
LEMMA NoFailureForgottenStep ==
  ASSUME TypeOK, AccountInv, [Next]_vars
  PROVE  NoFailureForgotten'
<1> SUFFICES ASSUME NEW i \in BatchId, batch'[i].status = "processed",
                    NEW a \in batch'[i].audits \cap Replayable
             PROVE  AccountedFor(i, a)'
  BY DEF NoFailureForgotten, AccountedFor
<1>1. Kept
  BY StepKept
<1>2. CASE batch[i].status = "processed"
  BY <1>1, <1>2, AccountedForKept DEF Kept, AccountInv, NoFailureForgotten
<1>3. CASE BecameProcessed(i)
  <2>1. PICK w \in Worker : MarkProcessed(w) /\ i = cur[w].id
    BY <1>3, StepKept
  <2>2. pc[w] = "mark"
    BY <2>1 DEF MarkProcessed, MarkWhen
  <2>3. /\ batch[i].status # "absent"
        /\ batch[i].audits = cur[w].doc.audits
    BY <2>1, <2>2 DEF AccountInv, SnapshotsAgree, HandedOut
  <2>4. AccountedFor(i, a)
    BY <1>1, <2>1, <2>2, <2>3 DEF AccountInv, ReplayAccounts, Kept
  <2> QED BY <1>1, <2>4, AccountedForKept
<1> QED BY <1>2, <1>3 DEF BecameProcessed

\* The invariant of the failures holds at first.
LEMMA AccountInit == Init => AccountInv
  BY DEF Init, AccountInv, SnapshotsAgree, ReplayAccounts, NoFailureForgotten,
         HandedOut, Absent

\* Whatever executions overlap and wherever they are cut short, a batch is
\* processed only if each of its replayable audits was replayed or is listed
\* by a child of the batch.
THEOREM FailuresAreKept == Spec => []NoFailureForgotten
<1>1. TypeOK /\ AccountInv /\ [Next]_vars => AccountInv'
  BY SnapshotsAgreeStep, ReplayAccountsStep, NoFailureForgottenStep DEF AccountInv
<1>2. AccountInv => NoFailureForgotten
  BY DEF AccountInv
<1> QED BY AccountInit, TypeCorrect, <1>1, <1>2, PTL DEF Spec
-----------------------------------------------------------------------------
(***************************************************************************)
(* Executions that do not overlap: SerialInv is inductive, and with it a   *)
(* batch is replayed at most once per arming, has at most one child, stays *)
(* processed, and lives the life of BatchLifecycle.                        *)
(***************************************************************************)

\* Everything a serial step may rely on.
SInv == TypeOK /\ SnapshotsAgree /\ SerialInv

\* The steps of executions that do not overlap are steps.
LEMMA SerialIsNext == [SerialNext]_vars => [Next]_vars
  BY DEF SerialNext, Next, StopWhenIdle

-----------------------------------------------------------------------------
(* One execution at a time.                                                *)

LEMMA OneExecutionStep ==
  ASSUME TypeOK, OneExecution, [SerialNext]_vars
  PROVE  OneExecution'
<1> USE DEF TypeOK, OneExecution, NoConcurrentExecution, Busy
<1>1. ASSUME NEW w \in Worker, FireJob(w) PROVE OneExecution'
  <2>1. \A v \in Worker : pc[v] = "idle"
    BY <1>1 DEF FireJob, FireWith
  <2>2. /\ pc' = [pc EXCEPT ![w] = "next"]
        /\ \A v \in Worker \ {w} : todo'[v] = todo[v]
        /\ UNCHANGED orphan
    BY <1>1 DEF FireJob, FireWith
  <2> QED BY <2>1, <2>2
<1>2. ASSUME NEW w \in Worker, Claim(w) \/ ReplayOne(w) PROVE OneExecution'
  <2>1. /\ pc' \in [Worker -> {"idle", "next", "replay", "mark"}]
        /\ \A v \in Worker : v # w => pc'[v] = pc[v] /\ todo'[v] = todo[v]
        /\ pc[w] # "idle" /\ pc'[w] # "idle"
        /\ UNCHANGED orphan
    BY <1>2 DEF Claim, HandOut, ReplayOne
  <2> QED BY <2>1
<1>3. ASSUME NEW w \in Worker, NoneFailed(w) \/ SomeFailed(w) PROVE OneExecution'
  BY <1>3 DEF NoneFailed, SomeFailed, InsertChild, Replayed
<1>4. ASSUME NEW w \in Worker, ReplayThrows(w) \/ AllFailed(w) \/ MarkProcessed(w)
      PROVE  OneExecution'
  BY <1>4 DEF ReplayThrows, AllFailed, MarkProcessed, MarkWhen, Replayed
<1>5. ASSUME NEW w \in Worker, EndJob(w) \/ NullResult(w) \/ AbortJob(w)
      PROVE  OneExecution'
  <2>1. /\ pc' = [pc EXCEPT ![w] = "idle"]
        /\ orphan' = [orphan EXCEPT ![w] = FALSE]
        /\ todo' = [todo EXCEPT ![w] = {}]
    BY <1>5 DEF EndJob, NullResult, AbortJob, Idle
  <2>2. \A v \in Worker : /\ pc'[v] # "idle" => pc[v] # "idle"
                          /\ ~orphan'[v]
                          /\ pc'[v] = "idle" => todo'[v] = {}
    BY <2>1
  <2> QED BY <2>2
<1>6. CASE ClientStep
  <2>1. UNCHANGED <<pc, orphan, todo>>
    BY <1>6 DEF ClientStep, InsertBatch, ReadToRearm, ReadToDelete, Rearm, Delete, execVars
  <2> QED BY <2>1
<1>7. CASE StartScheduler \/ StartJob \/ StopJob
  BY <1>7 DEF StartScheduler, StartJob, StopJob, execVars
<1>8. CASE StopWhenIdle
  BY <1>8 DEF StopWhenIdle, StopScheduler
<1>9. CASE Crash
  BY <1>9 DEF Crash
<1>10. CASE UNCHANGED vars
  BY <1>10 DEF vars, execVars
<1> QED BY <1>1, <1>2, <1>3, <1>4, <1>5, <1>6, <1>7, <1>8, <1>9, <1>10
        DEF SerialNext, CommonStep, JobStep

-----------------------------------------------------------------------------
(* What each kind of step does to the collection and the executions.       *)

\* The part of SerialInv that is about batches.
BatchInv ==
  /\ CursorIsFresh /\ ClaimIsHeld /\ ArmsAndChildren
  /\ AtMostOncePerArming /\ AtMostOneChild

\* No execution lists or holds a batch it did not before.
Onward ==
  \A v \in Worker :
    /\ todo'[v] \subseteq todo[v]
    /\ HandedOut(v)' => HandedOut(v) /\ cur'[v] = cur[v]
    /\ pc'[v] = "replay" => pc[v] = "replay"

\* No request to rearm is under way but for a batch that had failed.
RearmsFailed ==
  \A c \in Client : req'[c].op = "rearm" => req'[c].seen.doc.status = "failed"

\* Only the status of batch b changes, if anything of the collection does.
OnlyStatusOf(b) ==
  \A i \in BatchId :
    /\ batch'[i].parent = batch[i].parent
    /\ i # b => batch'[i].status = batch[i].status

\* What is held stays held, if the status of the held batches allows it.
LEMMA ClaimKept ==
  ASSUME SInv, Onward,
         \A i \in BatchId : batch'[i].parent = batch[i].parent,
         \A v \in Worker : HandedOut(v)' =>
           batch'[cur[v].id].status \in {"processing", "deleted"}
  PROVE  ClaimIsHeld'
<1> SUFFICES ASSUME NEW v \in Worker, HandedOut(v)'
             PROVE  /\ batch'[cur'[v].id].status \in {"processing", "deleted"}
                    /\ pc'[v] = "replay" =>
                         \A i \in BatchId : batch'[i].parent # cur'[v].id
  BY DEF ClaimIsHeld, HandedOut
<1>1. cur'[v] = cur[v] /\ (pc'[v] = "replay" => pc[v] = "replay")
  BY DEF Onward
<1> QED BY <1>1 DEF SInv, SerialInv, ClaimIsHeld

\* What is held is processing or removed.
LEMMA HeldStatus ==
  ASSUME SInv, Onward, NEW v \in Worker, HandedOut(v)'
  PROVE  cur[v].id \in BatchId /\ batch[cur[v].id].status \in {"processing", "deleted"}
  BY DEF SInv, SerialInv, ClaimIsHeld, Onward, SnapshotsAgree, Snapshot

\* The parents stay parents, and nothing is armed that was not.
LEMMA ParentsKept ==
  ASSUME SInv, RearmsFailed,
         \A i \in BatchId : batch'[i].parent = batch[i].parent,
         \A i \in BatchId : Armed(i)' => runs'[i] < arms'[i],
         \A i, j \in BatchId :
           batch[i].parent = j
             /\ batch[j].status \in {"processing", "processed", "deleted"} =>
               batch'[j].status \in {"processing", "processed", "deleted"}
  PROVE  ArmsAndChildren'
<1>1. ASSUME NEW i \in BatchId, batch'[i].parent # NoBatch
      PROVE  batch'[batch'[i].parent].status \in {"processing", "processed", "deleted"}
  BY <1>1 DEF SInv, SerialInv, ArmsAndChildren, TypeOK, Document
<1> QED BY <1>1 DEF ArmsAndChildren, RearmsFailed

\* A step that touches neither batches nor their counts keeps the serial invariant.
LEMMA QuietKeeps ==
  ASSUME SInv, Onward, RearmsFailed, UNCHANGED <<batch, runs, arms>>
  PROVE  BatchInv'
<1> USE DEF SInv, SerialInv
<1>1. CursorIsFresh'
  BY DEF CursorIsFresh, Onward
<1>2. ClaimIsHeld'
  BY ClaimKept, HeldStatus
<1>3. ArmsAndChildren'
  BY DEF ArmsAndChildren, RearmsFailed, Armed
<1>4. AtMostOncePerArming' /\ AtMostOneChild'
  BY DEF AtMostOncePerArming, AtMostOneChild
<1> QED BY <1>1, <1>2, <1>3, <1>4 DEF BatchInv

\* A batch that is held is settled by the execution that holds it, which lets
\* go of it; if it is set to failed, no child of it has been stored.
LEMMA SettleKeeps ==
  ASSUME SInv, Onward, RearmsFailed, UNCHANGED <<runs, arms>>,
         NEW b \in BatchId, OnlyStatusOf(b),
         batch[b].status \in {"processing", "deleted"},
         batch'[b].status \in {batch[b].status, "processed", "failed"},
         batch[b].status = "deleted" => batch'[b].status = "deleted",
         batch'[b].status = "failed" => \A i \in BatchId : batch[i].parent # b,
         \A v \in Worker : HandedOut(v)' => cur[v].id # b
  PROVE  BatchInv'
<1> USE DEF SInv, SerialInv, TypeOK, OnlyStatusOf
<1>1. CursorIsFresh'
  BY DEF CursorIsFresh, Onward, Snapshot
<1>2. ClaimIsHeld'
  BY ClaimKept, HeldStatus
<1>3. ArmsAndChildren'
  BY ParentsKept DEF ArmsAndChildren, Armed
<1>4. AtMostOncePerArming'
  BY DEF AtMostOncePerArming
<1>5. AtMostOneChild'
  BY DEF AtMostOneChild
<1> QED BY <1>1, <1>2, <1>3, <1>4, <1>5 DEF BatchInv

\* A DELETE, or a step that leaves every status alone, keeps it.
LEMMA DeleteKeeps ==
  ASSUME SInv, Onward, RearmsFailed, UNCHANGED <<runs, arms>>,
         NEW b \in BatchId, OnlyStatusOf(b),
         batch'[b].status \in {batch[b].status, "deleted"},
         batch[b].status = "absent" => batch'[b].status = "absent"
  PROVE  BatchInv'
<1> USE DEF SInv, SerialInv, TypeOK, OnlyStatusOf
<1>1. CursorIsFresh'
  BY DEF CursorIsFresh, Onward, Snapshot
<1>2. ClaimIsHeld'
  BY ClaimKept, HeldStatus
<1>3. ArmsAndChildren'
  BY ParentsKept DEF ArmsAndChildren, Armed
<1>4. AtMostOncePerArming'
  BY DEF AtMostOncePerArming
<1>5. AtMostOneChild'
  BY DEF AtMostOneChild
<1> QED BY <1>1, <1>2, <1>3, <1>4, <1>5 DEF BatchInv

\* A failed batch that is armed again may be run again.
LEMMA RearmKeeps ==
  ASSUME SInv, Onward, RearmsFailed, UNCHANGED runs,
         NEW b \in BatchId, OnlyStatusOf(b),
         batch[b].status = "failed", batch'[b].status = "reprocess",
         arms' = [arms EXCEPT ![b] = arms[b] + 1]
  PROVE  BatchInv'
<1> USE DEF SInv, SerialInv, TypeOK, OnlyStatusOf
<1>1. CursorIsFresh'
  BY DEF CursorIsFresh, Onward, Snapshot
<1>2. ClaimIsHeld'
  BY ClaimKept, HeldStatus
<1>3. ArmsAndChildren'
  <2>1. \A i \in BatchId : Armed(i)' => runs'[i] < arms'[i]
    BY DEF ArmsAndChildren, AtMostOncePerArming, Armed
  <2>2. \A j \in BatchId :
          batch[j].status \in {"processing", "processed", "deleted"} =>
            batch'[j].status = batch[j].status
    OBVIOUS
  <2> QED BY <2>1, <2>2, ParentsKept
<1>4. AtMostOncePerArming'
  BY DEF AtMostOncePerArming
<1>5. AtMostOneChild'
  BY DEF AtMostOneChild
<1> QED BY <1>1, <1>2, <1>3, <1>4, <1>5 DEF BatchInv

-----------------------------------------------------------------------------
(* The steps that list, claim or store a batch.                            *)

\* The cursor lists armed batches only, and an armed batch has no child.
LEMMA FireKeeps ==
  ASSUME SInv, NEW w \in Worker, FireJob(w)
  PROVE  BatchInv'
<1> USE DEF SInv, SerialInv, TypeOK
<1>1. /\ \A v \in Worker : pc[v] = "idle"
      /\ pc' = [pc EXCEPT ![w] = "next"]
      /\ todo' = [todo EXCEPT ![w] =
                    {[id |-> i, doc |-> batch[i]] : i \in {j \in BatchId : Armed(j)}}]
      /\ UNCHANGED <<batch, cur, req, arms, runs>>
  BY DEF FireJob, FireWith, Busy, OneExecution, history
<1>2. \A v \in Worker : ~HandedOut(v)'
  BY <1>1 DEF HandedOut
<1>3. CursorIsFresh'
  <2>1. \A v \in Worker : v # w => todo'[v] = {}
    BY <1>1 DEF OneExecution, Busy
  <2>2. ASSUME NEW snap \in todo'[w]
        PROVE  /\ snap.id \in BatchId /\ Armed(snap.id)
               /\ snap.doc = batch[snap.id]
               /\ \A other \in todo'[w] : other.id = snap.id => other = snap
    BY <1>1
  <2>3. ASSUME NEW i \in BatchId, NEW j \in BatchId, Armed(j)
        PROVE  batch[i].parent # j
    BY <2>3, BatchReplayAssumption DEF ArmsAndChildren, Armed
  <2> QED BY <1>1, <1>2, <2>1, <2>2, <2>3 DEF CursorIsFresh, ArmsAndChildren, Armed
<1>4. ClaimIsHeld'
  BY <1>1, <1>2 DEF ClaimIsHeld, HandedOut
<1>5. ArmsAndChildren'
  BY <1>1 DEF ArmsAndChildren, Armed
<1>6. AtMostOncePerArming' /\ AtMostOneChild'
  BY <1>1 DEF AtMostOncePerArming, AtMostOneChild
<1> QED BY <1>3, <1>4, <1>5, <1>6 DEF BatchInv

\* What the cursor lists still matches, unless it was removed; the claim makes
\* it the one batch that is held.
LEMMA ClaimKeeps ==
  ASSUME SInv, NEW w \in Worker, Claim(w)
  PROVE  BatchInv'
<1> USE DEF SInv, SerialInv, TypeOK
<1>1. PICK snap \in todo[w] : HandOut(w, snap) /\ UpdateStatus(snap, "processing")
  BY DEF Claim
<1> DEFINE b == snap.id
<1>2. /\ pc[w] = "next"
      /\ pc' = [pc EXCEPT ![w] = "replay"]
      /\ todo' = [todo EXCEPT ![w] = todo[w] \ {snap}]
      /\ cur' = [cur EXCEPT ![w] = snap]
      /\ runs' = [runs EXCEPT ![b] = runs[b] + 1]
      /\ UNCHANGED <<req, arms>>
  BY <1>1 DEF HandOut
<1>3. /\ b \in BatchId /\ snap \in Snapshot
      /\ snap.doc.status \in {"unset", "reprocess"}
      /\ batch[b].status \in {snap.doc.status, "deleted"}
      /\ runs[b] < arms[b]
      /\ \A i \in BatchId : batch[i].parent # b
      /\ \A other \in todo[w] : other # snap => other.id # b
  BY DEF CursorIsFresh, Snapshot
<1>4. /\ OnlyStatusOf(b)
      /\ batch'[b].status \in {"processing", "deleted"}
  <2>1. OnlyStatusOf(b)
    BY <1>1, UpdateStatusKeeps DEF OnlyStatusOf, Status
  <2>2. batch' = [batch EXCEPT ![b].status =
                    IF Matches(snap.doc, batch[b]) THEN "processing" ELSE batch[b].status]
    BY <1>1 DEF UpdateStatus
  <2>3. Matches(snap.doc, batch[b]) \/ batch[b].status = "deleted"
    BY <1>3 DEF Matches
  <2> QED BY <1>3, <2>1, <2>2, <2>3 DEF Document
<1>5. \A v \in Worker : v # w => pc[v] = "idle" /\ todo[v] = {}
  BY <1>2 DEF OneExecution, NoConcurrentExecution, Busy
<1>6. CursorIsFresh'
  BY <1>2, <1>3, <1>4, <1>5 DEF CursorIsFresh, OnlyStatusOf, HandedOut, Snapshot
<1>7. ClaimIsHeld'
  BY <1>2, <1>3, <1>4, <1>5 DEF ClaimIsHeld, OnlyStatusOf, HandedOut
<1>8. ArmsAndChildren'
  <2>1. \A i \in BatchId : Armed(i)' => runs'[i] < arms'[i]
    BY <1>2, <1>3, <1>4 DEF ArmsAndChildren, Armed, OnlyStatusOf
  <2>2. RearmsFailed
    BY <1>2 DEF ArmsAndChildren, RearmsFailed
  <2> QED BY <1>3, <1>4, <2>1, <2>2, ParentsKept DEF OnlyStatusOf
<1>9. AtMostOncePerArming'
  BY <1>2, <1>3 DEF AtMostOncePerArming
<1>10. AtMostOneChild'
  BY <1>3, <1>4 DEF AtMostOneChild, OnlyStatusOf
<1> QED BY <1>6, <1>7, <1>8, <1>9, <1>10 DEF BatchInv

\* A new document disturbs nothing: no cursor lists it, nobody holds it, and
\* it has no child.
LEMMA StoreKeeps ==
  ASSUME SInv, Onward, RearmsFailed, UNCHANGED runs,
         NEW b \in BatchId, NEW doc \in Document,
         batch[b].status = "absent",
         batch' = [batch EXCEPT ![b] = doc],
         \/ /\ doc.status = "unset" /\ doc.parent = NoBatch
            /\ arms' = [arms EXCEPT ![b] = arms[b] + 1]
         \/ /\ doc.status = "failed" /\ UNCHANGED arms
            /\ doc.parent \in BatchId
            /\ batch[doc.parent].status \in {"processing", "deleted"}
            /\ \A i \in BatchId : batch[i].parent # doc.parent
            /\ \A v \in Worker : \A snap \in todo[v] : snap.id # doc.parent
            /\ \A v \in Worker : pc'[v] # "replay"
  PROVE  BatchInv'
<1> USE DEF SInv, SerialInv, TypeOK
<1>1. \A i \in BatchId : i # b => batch'[i] = batch[i]
  OBVIOUS
<1>2. batch'[b] = doc
  OBVIOUS
<1>3. CursorIsFresh'
  <2>1. ASSUME NEW v \in Worker, NEW snap \in todo'[v]
        PROVE  /\ snap \in todo[v] /\ snap.id \in BatchId \ {b}
               /\ doc.parent # snap.id
    BY <2>1, BatchReplayAssumption DEF Onward, CursorIsFresh, Snapshot
  <2>2. \A v \in Worker : HandedOut(v)' => HandedOut(v) /\ cur'[v] = cur[v]
    BY DEF Onward
  <2>3. \A i \in BatchId : runs[i] < arms[i] => runs'[i] < arms'[i]
    OBVIOUS
  <2> QED BY <1>1, <1>2, <2>1, <2>2, <2>3 DEF CursorIsFresh, Onward
<1>4. ClaimIsHeld'
  <2> SUFFICES ASSUME NEW v \in Worker, HandedOut(v)'
               PROVE  /\ batch'[cur'[v].id].status \in {"processing", "deleted"}
                      /\ pc'[v] = "replay" =>
                           \A i \in BatchId : batch'[i].parent # cur'[v].id
    BY DEF ClaimIsHeld, HandedOut
  <2>1. /\ cur'[v] = cur[v] /\ HandedOut(v)
        /\ pc'[v] = "replay" => pc[v] = "replay"
    BY DEF Onward
  <2>2. cur[v].id \in BatchId /\ batch[cur[v].id].status \in {"processing", "deleted"}
    BY HeldStatus
  <2> QED BY <1>1, <1>2, <2>1, <2>2, BatchReplayAssumption DEF ClaimIsHeld
<1>5. ArmsAndChildren'
  <2>1. \A i \in BatchId : Armed(i)' => runs'[i] < arms'[i]
    BY <1>1, <1>2 DEF ArmsAndChildren, AtMostOncePerArming, Armed
  <2>2. ASSUME NEW i \in BatchId, batch'[i].parent # NoBatch
        PROVE  batch'[batch'[i].parent].status \in {"processing", "processed", "deleted"}
    BY <1>1, <1>2, <2>2 DEF ArmsAndChildren, Document
  <2> QED BY <2>1, <2>2 DEF ArmsAndChildren, RearmsFailed
<1>6. AtMostOncePerArming'
  BY DEF AtMostOncePerArming
<1>7. AtMostOneChild'
  BY <1>1, <1>2 DEF AtMostOneChild
<1> QED BY <1>3, <1>4, <1>5, <1>6, <1>7 DEF BatchInv

-----------------------------------------------------------------------------
(* Every serial step keeps SerialInv.                                      *)

\* A compare-and-set touches the status of the one document only.
LEMMA UpdateOnly ==
  ASSUME TypeOK, NEW seen, NEW status \in Status, UpdateStatus(seen, status)
  PROVE  OnlyStatusOf(seen.id)
  BY UpdateStatusKeeps DEF OnlyStatusOf, TypeOK

\* The held batch is marked, if it is still processing.
LEMMA MarkFacts ==
  ASSUME SInv, NEW w \in Worker, MarkProcessed(w), cur[w].id \in BatchId,
         batch[cur[w].id].status \in {"processing", "deleted"}
  PROVE  /\ OnlyStatusOf(cur[w].id)
         /\ \/ batch'[cur[w].id].status = batch[cur[w].id].status
            \/ /\ batch[cur[w].id].status = "processing"
               /\ batch'[cur[w].id].status = "processed"
<1> USE DEF SInv, TypeOK
<1> DEFINE b == cur[w].id
           doc == batch[b]
           renamed == [doc EXCEPT !.status = "processed"]
           marked == [renamed EXCEPT !.marks = doc.marks + 1]
<1>1. \/ batch' = batch
      \/ Matches(Processing(cur[w]).doc, doc) /\ batch' = [batch EXCEPT ![b] = marked]
  BY DEF MarkProcessed, MarkWhen
<1>2. marked.status = "processed" /\ marked.parent = doc.parent
  <2>1. doc \in Document
    OBVIOUS
  <2> HIDE DEF doc
  <2>2. renamed.status = "processed" /\ renamed.parent = doc.parent
    BY <2>1 DEF Document
  <2> HIDE DEF renamed
  <2> QED BY <2>2
<1>3. doc.status = "deleted" => ~Matches(Processing(cur[w]).doc, doc)
  BY DEF Matches
<1> HIDE DEF marked
<1> QED BY <1>1, <1>2, <1>3 DEF OnlyStatusOf

\* An execution that settles its batch keeps the serial invariant.
LEMMA SettleStep ==
  ASSUME SInv, NEW w \in Worker, ReplayThrows(w) \/ AllFailed(w) \/ MarkProcessed(w)
  PROVE  BatchInv'
<1> USE DEF SInv, SerialInv, TypeOK
<1> DEFINE b == cur[w].id
<1>1. /\ pc[w] \in {"replay", "mark"}
      /\ pc' = [pc EXCEPT ![w] = "next"]
      /\ UNCHANGED <<todo, cur, req, arms, runs>>
  BY DEF ReplayThrows, AllFailed, MarkProcessed, MarkWhen, Replayed, history
<1>2. b \in BatchId /\ batch[b].status \in {"processing", "deleted"}
  BY <1>1 DEF ClaimIsHeld, HandedOut, SnapshotsAgree, Snapshot
<1>3. Onward /\ RearmsFailed
  BY <1>1 DEF Onward, HandedOut, RearmsFailed, ArmsAndChildren
<1>4. \A v \in Worker : ~HandedOut(v)'
  BY <1>1 DEF OneExecution, NoConcurrentExecution, Busy, HandedOut
<1>5. CASE ReplayThrows(w) \/ AllFailed(w)
  <2>1. UpdateStatus(Processing(cur[w]), "failed") /\ pc[w] = "replay"
    BY <1>5 DEF ReplayThrows, AllFailed, Replayed
  <2>2. Processing(cur[w]).id = b /\ Processing(cur[w]).doc.status = "processing"
    <3>1. cur[w] \in Snapshot
      BY <1>1 DEF SnapshotsAgree, HandedOut
    <3> QED BY <3>1 DEF Processing, Snapshot, Document
  <2>3. OnlyStatusOf(b)
    BY <2>1, <2>2, UpdateOnly DEF Status
  <2>4. \/ batch'[b].status = batch[b].status
        \/ batch[b].status = "processing" /\ batch'[b].status = "failed"
    BY <1>2, <2>1, <2>2, UpdateStatusKeeps DEF Matches, Status
  <2>5. \A i \in BatchId : batch[i].parent # b
    BY <2>1 DEF ClaimIsHeld
  <2> QED BY <1>1, <1>2, <1>3, <1>4, <2>3, <2>4, <2>5, SettleKeeps
<1>6. CASE MarkProcessed(w)
  <2>1. /\ OnlyStatusOf(b)
        /\ \/ batch'[b].status = batch[b].status
           \/ batch[b].status = "processing" /\ batch'[b].status = "processed"
    BY <1>2, <1>6, MarkFacts
  <2> QED BY <1>1, <1>2, <1>3, <1>4, <2>1, SettleKeeps
<1> QED BY <1>5, <1>6

\* So does one that stores the failed audits.
LEMMA SomeFailedStep ==
  ASSUME SInv, NEW w \in Worker, SomeFailed(w)
  PROVE  BatchInv'
<1> USE DEF SInv, SerialInv, TypeOK
<1>1. /\ pc[w] = "replay"
      /\ pc' = [pc EXCEPT ![w] = "mark"]
      /\ UNCHANGED <<todo, cur, req, arms, runs>>
  BY DEF SomeFailed, InsertChild, Replayed, history
<1> DEFINE doc == [status |-> "failed", audits |-> failed[w], parent |-> cur[w].id,
                   dest |-> cur[w].doc.dest, marks |-> 0]
<1>2. PICK b \in BatchId : batch[b].status = "absent" /\ batch' = [batch EXCEPT ![b] = doc]
  BY DEF SomeFailed, InsertChild
<1>3. /\ cur[w] \in Snapshot /\ cur[w].id \in BatchId
      /\ batch[cur[w].id].status \in {"processing", "deleted"}
      /\ \A i \in BatchId : batch[i].parent # cur[w].id
  BY <1>1 DEF ClaimIsHeld, HandedOut, SnapshotsAgree, Snapshot
<1>4. doc \in Document
  BY <1>3 DEF Document, Snapshot, Status
<1>5. Onward /\ RearmsFailed
  BY <1>1 DEF Onward, HandedOut, RearmsFailed, ArmsAndChildren
<1>6. \A v \in Worker : v # w => pc[v] = "idle" /\ todo[v] = {}
  BY <1>1 DEF OneExecution, NoConcurrentExecution, Busy
<1>7. \A v \in Worker : \A snap \in todo[v] : snap.id # cur[w].id
  BY <1>1, <1>6 DEF CursorIsFresh, HandedOut
<1> QED BY <1>1, <1>2, <1>3, <1>4, <1>5, <1>6, <1>7, StoreKeeps

\* A request about batches keeps the serial invariant.
LEMMA ClientStepKeeps ==
  ASSUME SInv, ClientStep
  PROVE  BatchInv'
<1> USE DEF SInv, SerialInv, TypeOK
<1>1. ASSUME UNCHANGED <<pc, todo, cur>> PROVE Onward
  BY <1>1 DEF Onward, HandedOut
<1>2. ASSUME NEW i \in BatchId, NEW A \in SUBSET Audit \ {{}}, NEW d \in Dest,
             InsertBatch(i, A, d)
      PROVE  BatchInv'
  <2> DEFINE doc == [status |-> "unset", audits |-> A, parent |-> NoBatch,
                     dest |-> d, marks |-> 0]
  <2>1. /\ batch[i].status = "absent"
        /\ batch' = [batch EXCEPT ![i] = doc]
        /\ arms' = [arms EXCEPT ![i] = arms[i] + 1]
        /\ UNCHANGED <<pc, todo, cur, req, runs>>
    BY <1>2 DEF InsertBatch, execVars
  <2>2. doc \in Document
    BY DEF Document, Status
  <2>3. RearmsFailed
    BY <2>1 DEF RearmsFailed, ArmsAndChildren
  <2> QED BY <1>1, <2>1, <2>2, <2>3, StoreKeeps
<1>3. ASSUME NEW c \in Client, NEW i \in BatchId, ReadToRearm(c, i) \/ ReadToDelete(c, i)
      PROVE  BatchInv'
  <2>1. UNCHANGED <<pc, todo, cur, batch, runs, arms>>
    BY <1>3 DEF ReadToRearm, ReadToDelete, execVars, history
  <2>2. RearmsFailed
    BY <1>3 DEF ReadToRearm, ReadToDelete, RearmsFailed, ArmsAndChildren
  <2> QED BY <1>1, <2>1, <2>2, QuietKeeps
<1>4. ASSUME NEW c \in Client, Rearm(c) PROVE BatchInv'
  <2> DEFINE b == req[c].seen.id
             matched == Matches(req[c].seen.doc, batch[b])
  <2>1. /\ UpdateStatus(req[c].seen, "reprocess")
        /\ arms' = [arms EXCEPT ![b] = IF matched THEN arms[b] + 1 ELSE arms[b]]
        /\ req[c].seen.doc.status = "failed"
        /\ UNCHANGED <<pc, todo, cur, runs>>
    BY <1>4 DEF Rearm, execVars, ArmsAndChildren
  <2>2. RearmsFailed
    BY <1>4 DEF Rearm, NoReq, RearmsFailed, ArmsAndChildren
  <2>3. b \in BatchId
    BY <2>1 DEF NoSnapshot, Absent, Snapshot
  <2>4. OnlyStatusOf(b)
    BY <2>1, UpdateOnly DEF Status
  <2>5. CASE matched
    <3>1. batch[b].status = "failed" /\ batch'[b].status = "reprocess"
      BY <2>1, <2>3, <2>5 DEF UpdateStatus, Matches, Document
    <3> QED BY <1>1, <2>1, <2>2, <2>3, <2>4, <2>5, <3>1, RearmKeeps
  <2>6. CASE ~matched
    <3>1. batch' = batch /\ arms' = arms
      BY <2>1, <2>3, <2>6 DEF UpdateStatus, Document
    <3> QED BY <1>1, <2>1, <2>2, <3>1, QuietKeeps
  <2> QED BY <2>5, <2>6
<1>5. ASSUME NEW c \in Client, Delete(c) PROVE BatchInv'
  <2> DEFINE b == req[c].seen.id
  <2>1. /\ UpdateStatus(req[c].seen, "deleted")
        /\ UNCHANGED <<pc, todo, cur, runs, arms>>
    BY <1>5 DEF Delete, execVars, history
  <2>2. RearmsFailed
    BY <1>5 DEF Delete, NoReq, RearmsFailed, ArmsAndChildren
  <2>3. CASE b \in BatchId
    <3>1. OnlyStatusOf(b)
      BY <2>1, UpdateOnly DEF Status
    <3>2. /\ batch'[b].status \in {batch[b].status, "deleted"}
          /\ batch[b].status = "absent" => batch'[b].status = "absent"
      <4>1. \/ batch'[b].status = batch[b].status
            \/ Matches(req[c].seen.doc, batch[b]) /\ batch'[b].status = "deleted"
        BY <2>1, <2>3, UpdateStatusKeeps DEF Status
      <4> QED BY <4>1 DEF Matches
    <3> QED BY <1>1, <2>1, <2>2, <2>3, <3>1, <3>2, DeleteKeeps
  <2>4. CASE b \notin BatchId
    <3>1. batch' = batch
      BY <2>1, <2>4 DEF UpdateStatus
    <3> QED BY <1>1, <2>1, <2>2, <3>1, QuietKeeps
  <2> QED BY <2>3, <2>4
<1> QED BY <1>2, <1>3, <1>4, <1>5 DEF ClientStep

\* The steps that only move an execution.
LEMMA QuietJobStep ==
  ASSUME SInv, NEW w \in Worker,
         ReplayOne(w) \/ NoneFailed(w) \/ EndJob(w) \/ NullResult(w) \/ AbortJob(w)
  PROVE  BatchInv'
<1> USE DEF SInv, SerialInv, TypeOK, history
<1>1. UNCHANGED <<batch, runs, arms, req>>
  BY DEF ReplayOne, NoneFailed, EndJob, NullResult, AbortJob
<1>2. RearmsFailed
  BY <1>1 DEF RearmsFailed, ArmsAndChildren
<1>3. Onward
  <2>1. CASE ReplayOne(w)
    BY <2>1 DEF ReplayOne, Onward, HandedOut
  <2>2. CASE NoneFailed(w)
    BY <2>2 DEF NoneFailed, Replayed, Onward, HandedOut
  <2>3. CASE EndJob(w) \/ NullResult(w) \/ AbortJob(w)
    <3>1. /\ pc' = [pc EXCEPT ![w] = "idle"]
          /\ todo' = [todo EXCEPT ![w] = {}]
          /\ cur' = [cur EXCEPT ![w] = NoSnapshot]
      BY <2>3 DEF EndJob, NullResult, AbortJob, Idle
    <3> QED BY <3>1 DEF Onward, HandedOut
  <2> QED BY <2>1, <2>2, <2>3
<1> QED BY <1>1, <1>2, <1>3, QuietKeeps

\* The steps of the scheduler, and a crash.
LEMMA SystemStepKeeps ==
  ASSUME SInv,
         StartScheduler \/ StartJob \/ StopJob \/ StopScheduler \/ Crash \/ UNCHANGED vars
  PROVE  BatchInv'
<1> USE DEF SInv, SerialInv, TypeOK, history, execVars
<1>1. UNCHANGED <<batch, runs, arms>>
  BY DEF StartScheduler, StartJob, StopJob, StopScheduler, Crash, vars
<1>2. RearmsFailed
  BY DEF StartScheduler, StartJob, StopJob, StopScheduler, Crash, vars, NoReq,
         RearmsFailed, ArmsAndChildren
<1>3. Onward
  BY DEF StartScheduler, StartJob, StopJob, StopScheduler, Crash, vars, Onward, HandedOut
<1> QED BY <1>1, <1>2, <1>3, QuietKeeps

\* Every serial step keeps the serial invariant.
LEMMA SerialInvStep == SInv /\ [SerialNext]_vars => SInv'
<1> SUFFICES ASSUME SInv, [SerialNext]_vars PROVE SInv'
  OBVIOUS
<1>1. TypeOK' /\ SnapshotsAgree'
  BY SerialIsNext, TypeStep, SnapshotsAgreeStep DEF SInv
<1>2. OneExecution'
  BY OneExecutionStep DEF SInv, SerialInv
<1>3. BatchInv'
  <2>1. ASSUME NEW w \in Worker, FireJob(w) \/ JobStep(w) \/ AbortJob(w)
        PROVE  BatchInv'
    BY <2>1, FireKeeps, ClaimKeeps, SettleStep, SomeFailedStep, QuietJobStep DEF JobStep
  <2> QED BY <2>1, ClientStepKeeps, SystemStepKeeps DEF SerialNext, CommonStep, StopWhenIdle
<1> QED BY <1>1, <1>2, <1>3 DEF SInv, SerialInv, BatchInv

\* The serial invariant holds at first.
LEMMA SerialInit == Init => SInv
<1> SUFFICES ASSUME Init PROVE SInv
  OBVIOUS
<1>1. TypeOK
  BY TypeInit
<1>2. SnapshotsAgree
  BY AccountInit DEF AccountInv
<1>3. SerialInv
  BY DEF Init, SerialInv, OneExecution, NoConcurrentExecution, Busy, CursorIsFresh,
         ClaimIsHeld, HandedOut, ArmsAndChildren, Armed, AtMostOncePerArming,
         AtMostOneChild, Absent, NoReq
<1> QED BY <1>1, <1>2, <1>3 DEF SInv

\* The serial invariant holds of executions that do not overlap.
LEMMA SerialAlways == SerialSpec => []SInv
  BY SerialInit, SerialInvStep, PTL DEF SerialSpec

\* As long as executions do not overlap, a batch is handed to
\* batchHandleRequest at most once for each time it was stored or set to
\* reprocess, whatever crashes, aborts and requests come between.
THEOREM ReplayedOncePerArming == SerialSpec => []AtMostOncePerArming
<1>1. SInv => AtMostOncePerArming
  BY DEF SInv, SerialInv
<1> QED BY <1>1, SerialAlways, PTL

\* As long as executions do not overlap, the failed audits of a batch are
\* handed over to at most one document.
THEOREM OneChildPerBatch == SerialSpec => []AtMostOneChild
<1>1. SInv => AtMostOneChild
  BY DEF SInv, SerialInv
<1> QED BY <1>1, SerialAlways, PTL

-----------------------------------------------------------------------------
(* A processed batch is final.                                             *)

LEMMA FinalStep ==
  ASSUME SInv, [SerialNext]_vars, NEW i \in BatchId, batch[i].status = "processed"
  PROVE  batch'[i].status \in {"processed", "deleted"}
<1> USE DEF SInv, SerialInv, TypeOK
<1>1. ASSUME NEW b, OnlyStatusOf(b), b # i PROVE batch'[i].status = "processed"
  BY <1>1 DEF OnlyStatusOf
<1>2. ASSUME NEW w \in Worker, Claim(w) PROVE batch'[i].status = "processed"
  <2>1. PICK snap \in todo[w] : HandOut(w, snap) /\ UpdateStatus(snap, "processing")
    BY <1>2 DEF Claim
  <2>2. snap.id # i
    BY DEF CursorIsFresh, Snapshot
  <2> QED BY <1>1, <2>1, <2>2, UpdateOnly DEF Status
<1>3. ASSUME NEW w \in Worker, HandedOut(w) PROVE cur[w].id # i
  BY <1>3 DEF ClaimIsHeld
<1>4. ASSUME NEW w \in Worker, ReplayThrows(w) \/ AllFailed(w)
      PROVE  batch'[i].status = "processed"
  <2>1. UpdateStatus(Processing(cur[w]), "failed") /\ HandedOut(w)
    BY <1>4 DEF ReplayThrows, AllFailed, Replayed, HandedOut
  <2>2. Processing(cur[w]).id = cur[w].id
    BY <2>1 DEF Processing, SnapshotsAgree, Snapshot
  <2> QED BY <1>1, <1>3, <2>1, <2>2, UpdateOnly DEF Status
<1>5. ASSUME NEW w \in Worker, MarkProcessed(w) PROVE batch'[i].status = "processed"
  <2>1. cur[w].id # i
    BY <1>3, <1>5 DEF MarkProcessed, MarkWhen, HandedOut
  <2> QED BY <1>5, <2>1 DEF MarkProcessed, MarkWhen
<1>6. ASSUME NEW w \in Worker, SomeFailed(w) PROVE batch'[i].status = "processed"
  BY <1>6 DEF SomeFailed, InsertChild
<1>7. ASSUME NEW w \in Worker,
             FireJob(w) \/ ReplayOne(w) \/ NoneFailed(w) \/ EndJob(w)
               \/ NullResult(w) \/ AbortJob(w)
      PROVE  batch' = batch
  BY <1>7 DEF FireJob, FireWith, ReplayOne, NoneFailed, EndJob, NullResult, AbortJob
<1>8. ASSUME NEW c \in Client, Rearm(c) PROVE batch'[i].status = "processed"
  <2>1. /\ UpdateStatus(req[c].seen, "reprocess")
        /\ req[c].seen.doc.status = "failed"
    BY <1>8 DEF Rearm, ArmsAndChildren
  <2>2. ~Matches(req[c].seen.doc, batch[i])
    BY <2>1 DEF Matches
  <2> QED BY <2>1, <2>2, UpdateStatusKeeps DEF Status
<1>9. ASSUME NEW c \in Client, Delete(c) PROVE batch'[i].status \in {"processed", "deleted"}
  BY <1>9, UpdateStatusKeeps DEF Delete, Status
<1>10. ASSUME NEW j \in BatchId, NEW A \in SUBSET Audit \ {{}}, NEW d \in Dest,
              InsertBatch(j, A, d)
       PROVE  batch'[i].status = "processed"
  BY <1>10 DEF InsertBatch
<1>11. ASSUME NEW c \in Client, NEW j \in BatchId, ReadToRearm(c, j) \/ ReadToDelete(c, j)
       PROVE  batch' = batch
  BY <1>11 DEF ReadToRearm, ReadToDelete
<1>12. CASE StartScheduler \/ StartJob \/ StopJob \/ StopScheduler \/ Crash \/ UNCHANGED vars
  BY <1>12 DEF StartScheduler, StartJob, StopJob, StopScheduler, Crash, vars
<1> QED BY <1>2, <1>4, <1>5, <1>6, <1>7, <1>8, <1>9, <1>10, <1>11, <1>12
        DEF SerialNext, CommonStep, JobStep, ClientStep, StopWhenIdle

\* As long as executions do not overlap, nothing but a DELETE changes a batch
\* once it is processed.
THEOREM ProcessedStays == SerialSpec => ProcessedIsFinal
<1>1. SInv /\ [SerialNext]_vars =>
        [\A i \in BatchId : batch[i].status = "processed" =>
           batch'[i].status \in {"processed", "deleted"}]_vars
  BY FinalStep
<1> QED BY <1>1, SerialAlways, PTL DEF SerialSpec, ProcessedIsFinal

-----------------------------------------------------------------------------
(* BatchReplay implements BatchLifecycle, as long as executions do not     *)
(* overlap.                                                                *)

\* What BatchLifecycle sees of the collection.
Life == [i \in BatchId |-> LifeOf(batch[i].status)]

\* What each status is in the life of a batch.
LEMMA Lives ==
  /\ LifeOf("absent") = "none"
  /\ LifeOf("unset") = "armed" /\ LifeOf("reprocess") = "armed"
  /\ LifeOf("processing") = "claimed" /\ LifeOf("processed") = "done"
  /\ LifeOf("failed") = "failed" /\ LifeOf("deleted") = "removed"
  BY DEF LifeOf

\* A step that changes the status of one batch moves that batch.
LEMMA Moves ==
  ASSUME NEW b \in BatchId, OnlyStatusOf(b), NEW from, LifeOf(batch[b].status) \in from
  PROVE  Lifecycle!Move(b, from, LifeOf(batch'[b].status))
<1>1. \A i \in BatchId : i # b => LifeOf(batch'[i].status) = LifeOf(batch[i].status)
  BY DEF OnlyStatusOf
<1>2. Life' = [Life EXCEPT ![b] = LifeOf(batch'[b].status)]
  BY <1>1, Zenon DEF Life
<1>3. Life[b] \in from
  BY DEF Life
<1> QED BY <1>2, <1>3, Zenon DEF Lifecycle!Move, Life

\* A step that changes no status, arms and runs nothing is none.
LEMMA Stutters ==
  ASSUME \A i \in BatchId : batch'[i].status = batch[i].status, UNCHANGED <<arms, runs>>
  PROVE  UNCHANGED Lifecycle!vars
<1>1. Life' = Life
  BY DEF Life
<1> QED BY <1>1 DEF Lifecycle!vars, Life

\* A claim takes a batch that is armed, or runs one that was removed.
LEMMA ClaimLives ==
  ASSUME SInv, NEW w \in Worker, Claim(w)
  PROVE  Lifecycle!Next
<1> USE DEF SInv, SerialInv, TypeOK
<1>1. PICK snap \in todo[w] : HandOut(w, snap) /\ UpdateStatus(snap, "processing")
  BY DEF Claim
<1> DEFINE b == snap.id
<1>2. runs' = [runs EXCEPT ![b] = runs[b] + 1] /\ UNCHANGED arms
  BY <1>1 DEF HandOut
<1>3. /\ b \in BatchId
      /\ snap.doc.status \in {"unset", "reprocess"}
      /\ batch[b].status \in {snap.doc.status, "deleted"}
      /\ runs[b] < arms[b]
  BY DEF CursorIsFresh, Snapshot
<1>4. OnlyStatusOf(b)
  BY <1>1, UpdateOnly DEF Status
<1>5. batch' = [batch EXCEPT ![b].status =
                  IF Matches(snap.doc, batch[b]) THEN "processing" ELSE batch[b].status]
  BY <1>1 DEF UpdateStatus
<1>6. CASE batch[b].status = snap.doc.status
  <2>1. batch'[b].status = "processing"
    BY <1>3, <1>5, <1>6 DEF Matches, Document
  <2>2. Lifecycle!Move(b, {"armed"}, "claimed")
    BY <1>3, <1>4, <1>6, <2>1, Moves, Lives
  <2> QED BY <1>2, <1>3, <2>2 DEF Lifecycle!Next, Lifecycle!Claim
<1>7. CASE batch[b].status = "deleted"
  <2>1. batch'[b].status = "deleted"
    BY <1>3, <1>5, <1>7 DEF Matches, Document
  <2>2. Life' = Life
    BY <1>4, <1>7, <2>1 DEF Life, OnlyStatusOf
  <2>3. Life[b] = "removed"
    BY <1>3, <1>7, Lives DEF Life
  <2> QED BY <1>2, <1>3, <2>2, <2>3 DEF Lifecycle!Next, Lifecycle!RunRemoved, Life
<1> QED BY <1>3, <1>6, <1>7

\* What the execution holds is settled by the compare-and-set, or stays.
LEMMA SettleLives ==
  ASSUME SInv, NEW b \in BatchId, OnlyStatusOf(b), UNCHANGED <<arms, runs>>,
         \/ batch'[b].status = batch[b].status
         \/ batch[b].status = "processing" /\ batch'[b].status \in {"processed", "failed"}
  PROVE  [Lifecycle!Next]_(Lifecycle!vars)
<1>1. CASE batch'[b].status = batch[b].status
  BY <1>1, Stutters DEF OnlyStatusOf
<1>2. CASE batch[b].status = "processing" /\ batch'[b].status \in {"processed", "failed"}
  <2>1. \E to \in {"done", "failed"} : Lifecycle!Move(b, {"claimed"}, to)
    BY <1>2, Moves, Lives
  <2> QED BY <2>1 DEF Lifecycle!Next, Lifecycle!Settle
<1> QED BY <1>1, <1>2

\* The document of the failed audits is a batch that has failed already.
LEMMA SpawnLives ==
  ASSUME SInv, NEW w \in Worker, SomeFailed(w)
  PROVE  Lifecycle!Next
<1> USE DEF SInv, SerialInv, TypeOK
<1>1. pc[w] = "replay" /\ UNCHANGED <<arms, runs>>
  BY DEF SomeFailed, InsertChild, Replayed, history
<1> DEFINE doc == [status |-> "failed", audits |-> failed[w], parent |-> cur[w].id,
                   dest |-> cur[w].doc.dest, marks |-> 0]
<1>2. PICK b \in BatchId : batch[b].status = "absent" /\ batch' = [batch EXCEPT ![b] = doc]
  BY DEF SomeFailed, InsertChild
<1>3. cur[w].id \in BatchId /\ batch[cur[w].id].status \in {"processing", "deleted"}
  BY <1>1 DEF ClaimIsHeld, HandedOut, SnapshotsAgree, Snapshot
<1>4. Life[cur[w].id] \in {"claimed", "removed"} /\ Life[b] = "none"
  BY <1>2, <1>3, Lives DEF Life
<1>5. Life' = [Life EXCEPT ![b] = "failed"]
  BY <1>2, Lives DEF Life
<1> QED BY <1>1, <1>3, <1>4, <1>5 DEF Lifecycle!Next, Lifecycle!Spawn, Lifecycle!Move, Life

\* A request moves a batch as a user may, or does nothing to it any more.
LEMMA ClientLives ==
  ASSUME SInv, ClientStep
  PROVE  [Lifecycle!Next]_(Lifecycle!vars)
<1> USE DEF SInv, SerialInv, TypeOK
<1>1. ASSUME NEW i \in BatchId, NEW A \in SUBSET Audit \ {{}}, NEW d \in Dest,
             InsertBatch(i, A, d)
      PROVE  Lifecycle!Next
  <2>1. /\ batch[i].status = "absent"
        /\ batch' = [batch EXCEPT ![i] = [status |-> "unset", audits |-> A,
                                          parent |-> NoBatch, dest |-> d, marks |-> 0]]
        /\ arms' = [arms EXCEPT ![i] = arms[i] + 1] /\ UNCHANGED runs
    BY <1>1 DEF InsertBatch
  <2>2. Life[i] = "none" /\ Life' = [Life EXCEPT ![i] = "armed"]
    BY <2>1, Lives DEF Life
  <2> QED BY <2>1, <2>2 DEF Lifecycle!Next, Lifecycle!Store, Lifecycle!Move, Life
<1>2. ASSUME NEW c \in Client, NEW i \in BatchId, ReadToRearm(c, i) \/ ReadToDelete(c, i)
      PROVE  UNCHANGED Lifecycle!vars
  BY <1>2, Stutters DEF ReadToRearm, ReadToDelete, history
<1>3. ASSUME NEW c \in Client, Rearm(c)
      PROVE  [Lifecycle!Next]_(Lifecycle!vars)
  <2> DEFINE b == req[c].seen.id
             matched == Matches(req[c].seen.doc, batch[b])
  <2>1. /\ UpdateStatus(req[c].seen, "reprocess")
        /\ arms' = [arms EXCEPT ![b] = IF matched THEN arms[b] + 1 ELSE arms[b]]
        /\ req[c].seen.doc.status = "failed"
        /\ UNCHANGED runs
    BY <1>3 DEF Rearm, ArmsAndChildren
  <2>2. b \in BatchId
    BY <2>1 DEF NoSnapshot, Absent, Snapshot
  <2>3. OnlyStatusOf(b)
    BY <2>1, UpdateOnly DEF Status
  <2>4. CASE matched
    <3>1. batch[b].status = "failed" /\ batch'[b].status = "reprocess"
      BY <2>1, <2>2, <2>4 DEF UpdateStatus, Matches, Document
    <3>2. Lifecycle!Move(b, {"failed"}, "armed")
      BY <2>2, <2>3, <3>1, Moves, Lives
    <3> QED BY <2>1, <2>2, <2>4, <3>2 DEF Lifecycle!Next, Lifecycle!Rearm
  <2>5. CASE ~matched
    <3>1. batch' = batch /\ arms' = arms
      BY <2>1, <2>2, <2>5 DEF UpdateStatus, Document
    <3> QED BY <2>1, <3>1, Stutters
  <2> QED BY <2>4, <2>5
<1>4. ASSUME NEW c \in Client, Delete(c)
      PROVE  [Lifecycle!Next]_(Lifecycle!vars)
  <2> DEFINE b == req[c].seen.id
  <2>1. UpdateStatus(req[c].seen, "deleted") /\ UNCHANGED <<arms, runs>>
    BY <1>4 DEF Delete, history
  <2>2. CASE b \in BatchId /\ batch'[b].status # batch[b].status
    <3>1. OnlyStatusOf(b)
      BY <2>1, UpdateOnly DEF Status
    <3>2. /\ batch'[b].status = "deleted"
          /\ batch[b].status \in {"unset", "processing", "processed", "failed", "reprocess"}
      BY <2>1, <2>2, UpdateStatusKeeps DEF Matches, Status, Document
    <3>3. Lifecycle!Move(b, {"armed", "claimed", "done", "failed"}, "removed")
      BY <2>2, <3>1, <3>2, Moves, Lives
    <3> QED BY <2>1, <2>2, <3>3 DEF Lifecycle!Next, Lifecycle!Remove
  <2>3. CASE b \notin BatchId \/ batch'[b].status = batch[b].status
    <3>1. \A i \in BatchId : batch'[i].status = batch[i].status
      BY <2>1, <2>3, UpdateStatusKeeps DEF Status
    <3> QED BY <2>1, <3>1, Stutters
  <2> QED BY <2>2, <2>3
<1> QED BY <1>1, <1>2, <1>3, <1>4 DEF ClientStep

\* A step of the job is one of the life of the batches, or none.
LEMMA JobLives ==
  ASSUME SInv, NEW w \in Worker, FireJob(w) \/ JobStep(w) \/ AbortJob(w)
  PROVE  [Lifecycle!Next]_(Lifecycle!vars)
<1> USE DEF SInv, SerialInv, TypeOK
<1>1. CASE FireJob(w) \/ ReplayOne(w) \/ NoneFailed(w) \/ EndJob(w) \/ NullResult(w) \/ AbortJob(w)
  <2>1. UNCHANGED <<batch, arms, runs>>
    BY <1>1 DEF FireJob, FireWith, ReplayOne, NoneFailed, EndJob, NullResult, AbortJob, history
  <2> QED BY <2>1, Stutters
<1>2. CASE ReplayThrows(w) \/ AllFailed(w) \/ MarkProcessed(w)
  <2> DEFINE b == cur[w].id
  <2>1. HandedOut(w) /\ UNCHANGED <<arms, runs>>
    BY <1>2 DEF ReplayThrows, AllFailed, MarkProcessed, MarkWhen, Replayed, history, HandedOut
  <2>2. b \in BatchId /\ batch[b].status \in {"processing", "deleted"} /\ cur[w] \in Snapshot
    BY <2>1 DEF ClaimIsHeld, SnapshotsAgree, Snapshot
  <2>3. CASE ReplayThrows(w) \/ AllFailed(w)
    <3>1. UpdateStatus(Processing(cur[w]), "failed")
      BY <2>3 DEF ReplayThrows, AllFailed
    <3>2. Processing(cur[w]).id = b /\ Processing(cur[w]).doc.status = "processing"
      BY <2>2 DEF Processing, Snapshot, Document
    <3>3. OnlyStatusOf(b)
      BY <3>1, <3>2, UpdateOnly DEF Status
    <3>4. \/ batch'[b].status = batch[b].status
          \/ batch[b].status = "processing" /\ batch'[b].status = "failed"
      BY <2>2, <3>1, <3>2, UpdateStatusKeeps DEF Matches, Status
    <3> QED BY <2>1, <2>2, <3>3, <3>4, SettleLives
  <2>4. CASE MarkProcessed(w)
    BY <2>1, <2>2, <2>4, MarkFacts, SettleLives
  <2> QED BY <1>2, <2>3, <2>4
<1> QED BY <1>1, <1>2, ClaimLives, SpawnLives DEF JobStep

\* As long as executions do not overlap, every batch lives as BatchLifecycle
\* promises: claimed once per arming, settled by whoever claimed it, armed again
\* only when it has failed (BatchReplayJob.execute against the requests of
\* BatchReplayService).
THEOREM LifecycleImplemented == SerialSpec => ImplementsLifecycle
<1>1. Init => Lifecycle!Init
  BY Lives DEF Init, Lifecycle!Init, Absent
<1>2. SInv /\ [SerialNext]_vars => [Lifecycle!Next]_(Lifecycle!vars)
  <2> SUFFICES ASSUME SInv, [SerialNext]_vars PROVE [Lifecycle!Next]_(Lifecycle!vars)
    OBVIOUS
  <2>1. CASE StartScheduler \/ StartJob \/ StopJob \/ StopScheduler \/ Crash \/ UNCHANGED vars
    <3>1. UNCHANGED <<batch, arms, runs>>
      BY <2>1 DEF StartScheduler, StartJob, StopJob, StopScheduler, Crash, vars, history
    <3> QED BY <3>1, Stutters
  <2> QED BY <2>1, JobLives, ClientLives DEF SerialNext, CommonStep, StopWhenIdle
<1> QED BY <1>1, <1>2, SerialAlways, PTL DEF SerialSpec, ImplementsLifecycle, Lifecycle!Spec
=============================================================================
