--------------------------- MODULE ServicesProofs ---------------------------
(***************************************************************************)
(* Proofs about Intake, for any number of threads, inserts and replays and *)
(* any period, and about the jobs of the reports and the tokens.           *)
(***************************************************************************)
EXTENDS MCServices, TLAPS

-----------------------------------------------------------------------------
(* Type correctness.                                                       *)

LEMMA TypeInit == Init => TypeOK
  <1> SUFFICES ASSUME Init PROVE TypeOK  OBVIOUS
  <1>1. StoredOK /\ ClockOK  BY BoundsAreNaturals DEF Init, StoredOK, ClockOK
  <1>2. ThreadOK  BY BoundsAreNaturals DEF Init, ThreadOK, Idle, At, Place
  <1>3. MapOK  BY DEF Init, MapOK
  <1>4. NotifiedOK  BY DEF Init, NotifiedOK
  <1>5. HistoryOK  BY DEF Init, HistoryOK
  <1>. QED  BY <1>1, <1>2, <1>3, <1>4, <1>5 DEF TypeOK

\* A thread that goes elsewhere, or ends, stays well typed.
LEMMA ThreadGoes ==
  ASSUME ThreadOK, NEW t \in Thread, NEW p \in Place \ {"idle"}, NEW k \in Insert, NEW s \in Nat,
         thread' = [thread EXCEPT ![t] = At(p, k, s)]
  PROVE ThreadOK'
  BY BoundsAreNaturals DEF ThreadOK, At, Insert

\* A thread that ends has its type.
LEMMA ThreadEnds ==
  ASSUME ThreadOK, NEW t \in Thread, End(t) PROVE ThreadOK'
  BY BoundsAreNaturals DEF ThreadOK, End, Idle, At, Place

\* A thread on its way has an insert.
LEMMA HasInsert ==
  ASSUME ThreadOK, NEW t \in Thread, thread[t].at # "idle"
  PROVE thread[t].insert \in Insert /\ thread[t].seen \in Nat
  BY BoundsAreNaturals DEF ThreadOK, Insert

\* A step of an insert keeps the types.
LEMMA TypeThread ==
  ASSUME TypeOK, NEW t \in Thread, ThreadStep(t) PROVE TypeOK'
  <1> USE BoundsAreNaturals DEF TypeOK
  <1> DEFINE k == thread[t].insert
             s == thread[t].seen
  <1>0. thread[t].at # "idle" => k \in Insert /\ s \in Nat  BY HasInsert
  <1>1. CASE PayloadInsert(t)
    <2>1. thread' = [thread EXCEPT ![t] = At("audit", inserts + 1, 0)]  BY <1>1 DEF PayloadInsert, Goto
    <2>2. inserts + 1 \in Insert /\ 0 \in Nat  BY <1>0, <1>1 DEF PayloadInsert, Insert, StoredOK, ClockOK
    <2>3. ThreadOK'  BY <2>1, <2>2, ThreadGoes DEF Place
    <2>4. StoredOK'  BY <1>0, <1>1 DEF PayloadInsert, StoredOK, Insert
    <2>. QED
      BY <2>3, <2>4, <1>1
      DEF PayloadInsert, MapOK, NotifiedOK, HistoryOK, ClockOK, map, notified, history, clock
  <1>2. CASE AuditMalformed(t)
    <2>3. ThreadOK'  BY <1>2, ThreadEnds DEF AuditMalformed
    <2>4. StoredOK'  BY <1>0, <1>2 DEF AuditMalformed, StoredOK, Insert
    <2>. QED
      BY <2>3, <2>4, <1>2
      DEF AuditMalformed, MapOK, NotifiedOK, HistoryOK, ClockOK, map, notified, history, clock
  <1>3. CASE AuditInsert(t)
    <2>1. thread' = [thread EXCEPT ![t] = At("notify", k, s)]  BY <1>3 DEF AuditInsert, Goto
    <2>2. k \in Insert /\ s \in Nat  BY <1>0, <1>3 DEF AuditInsert, Insert, StoredOK, ClockOK
    <2>3. ThreadOK'  BY <2>1, <2>2, ThreadGoes DEF Place
    <2>4. StoredOK'  BY <1>0, <1>3 DEF AuditInsert, StoredOK, Insert
    <2>. QED
      BY <2>3, <2>4, <1>3
      DEF AuditInsert, MapOK, NotifiedOK, HistoryOK, ClockOK, map, notified, history, clock
  <1>4. CASE AuditThrows(t)
    <2>1. thread' = [thread EXCEPT ![t] = At("undo", k, s)]  BY <1>4 DEF AuditThrows, Goto
    <2>2. k \in Insert /\ s \in Nat  BY <1>0, <1>4 DEF AuditThrows, Insert, StoredOK, ClockOK
    <2>3. ThreadOK'  BY <2>1, <2>2, ThreadGoes DEF Place
    <2>. QED
      BY <2>3, <1>4
      DEF AuditThrows, StoredOK, MapOK, NotifiedOK, HistoryOK, ClockOK, stored, map, notified, history, clock
  <1>5. CASE ReadBackThrows(t)
    <2>1. thread' = [thread EXCEPT ![t] = At("undo", k, s)]  BY <1>5 DEF ReadBackThrows, Goto
    <2>2. k \in Insert /\ s \in Nat  BY <1>0, <1>5 DEF ReadBackThrows, Insert, StoredOK, ClockOK
    <2>3. ThreadOK'  BY <2>1, <2>2, ThreadGoes DEF Place
    <2>4. StoredOK'  BY <1>0, <1>5 DEF ReadBackThrows, StoredOK, Insert
    <2>. QED
      BY <2>3, <2>4, <1>5
      DEF ReadBackThrows, MapOK, NotifiedOK, HistoryOK, ClockOK, map, notified, history, clock
  <1>6. CASE RemovePayload(t)
    <2>3. ThreadOK'  BY <1>6, ThreadEnds DEF RemovePayload
    <2>4. StoredOK'  BY <1>0, <1>6 DEF RemovePayload, StoredOK, Insert
    <2>. QED
      BY <2>3, <2>4, <1>6
      DEF RemovePayload, MapOK, NotifiedOK, HistoryOK, ClockOK, map, notified, history, clock
  <1>7. CASE RemoveThrows(t)
    <2>3. ThreadOK'  BY <1>7, ThreadEnds DEF RemoveThrows
    <2>4. StoredOK'  BY <1>0, <1>7 DEF RemoveThrows, StoredOK, Insert
    <2>. QED
      BY <2>3, <2>4, <1>7
      DEF RemoveThrows, MapOK, NotifiedOK, HistoryOK, ClockOK, map, notified, history, clock
  <1>8. CASE NoMail(t)
    <2>3. ThreadOK'  BY <1>8, ThreadEnds DEF NoMail
    <2>. QED
      BY <2>3, <1>8
      DEF NoMail, StoredOK, MapOK, NotifiedOK, HistoryOK, ClockOK, stored, map, notified, history, clock
  <1>9. CASE Expired(t)
    <2>1. thread' = [thread EXCEPT ![t] = At("stamp", k, now)]  BY <1>9 DEF Expired, Goto
    <2>2. k \in Insert /\ now \in Nat  BY <1>0, <1>9 DEF Expired, Insert, StoredOK, ClockOK
    <2>3. ThreadOK'  BY <2>1, <2>2, ThreadGoes DEF Place
    <2>4. Together(t) \subseteq Insert  BY <1>0, <1>9, HasInsert DEF Expired, Together
    <2>5. NotifiedOK'  BY <2>4, <1>9 DEF Expired, NotifiedOK
    <2>. QED
      BY <2>3, <2>5, <1>9
      DEF Expired, StoredOK, MapOK, HistoryOK, ClockOK, stored, map, history, clock
  <1>10. CASE Stamp(t)
    <2>1. thread' = [thread EXCEPT ![t] = At("config", k, s)]  BY <1>10 DEF Stamp, Goto
    <2>2. k \in Insert /\ s \in Nat  BY <1>0, <1>10 DEF Stamp, Insert, StoredOK, ClockOK
    <2>3. ThreadOK'  BY <2>1, <2>2, ThreadGoes DEF Place
    <2>4. NotifiedOK'  BY <1>0, <1>10 DEF Stamp, NotifiedOK, Insert
    <2>. QED
      BY <2>3, <2>4, <1>10
      DEF Stamp, StoredOK, MapOK, HistoryOK, ClockOK, stored, map, history, clock
  <1>11. CASE Config(t)
    <2>1. ASSUME mapped PROVE ThreadOK'
      <3>1. thread' = [thread EXCEPT ![t] = At("send", k, s)]  BY <1>11, <2>1 DEF Config, Goto
      <3>2. k \in Insert /\ s \in Nat  BY <1>0, <1>11 DEF Config
      <3>. QED  BY <3>1, <3>2, ThreadGoes DEF Place
    <2>2. ASSUME ~mapped PROVE ThreadOK'  BY <1>11, <2>2, ThreadEnds DEF Config
    <2>3. ThreadOK'  BY <2>1, <2>2
    <2>. QED
      BY <2>3, <1>11
      DEF Config, StoredOK, MapOK, NotifiedOK, HistoryOK, ClockOK, stored, map, notified, history, clock
  <1>12. CASE SendEmail(t)
    <2>3. ThreadOK'  BY <1>12, ThreadEnds DEF SendEmail
    <2>4. NotifiedOK'  BY <1>0, <1>12 DEF SendEmail, NotifiedOK, ClockOK, Insert
    <2>. QED
      BY <2>3, <2>4, <1>12
      DEF SendEmail, StoredOK, MapOK, HistoryOK, ClockOK, stored, map, history, clock
  <1>13. CASE EmailFails(t)
    <2>3. ThreadOK'  BY <1>13, ThreadEnds DEF EmailFails
    <2>4. NotifiedOK'  BY <1>0, <1>13 DEF EmailFails, NotifiedOK, Insert
    <2>. QED
      BY <2>3, <2>4, <1>13
      DEF EmailFails, StoredOK, MapOK, HistoryOK, ClockOK, stored, map, history, clock
  <1>14. CASE ConfigThrows(t)
    <2>1. thread' = [thread EXCEPT ![t] = At("undo", k, s)]  BY <1>14 DEF ConfigThrows, Goto
    <2>2. k \in Insert /\ s \in Nat  BY <1>0, <1>14 DEF ConfigThrows, Insert, StoredOK, ClockOK
    <2>3. ThreadOK'  BY <2>1, <2>2, ThreadGoes DEF Place
    <2>4. StoredOK'  BY <1>0, <1>14 DEF ConfigThrows, StoredOK, Insert
    <2>5. NotifiedOK'  BY <1>0, <1>14 DEF ConfigThrows, NotifiedOK, Insert
    <2>. QED
      BY <2>3, <2>4, <2>5, <1>14
      DEF ConfigThrows, MapOK, HistoryOK, ClockOK, map, history, clock
  <1>15. CASE PayloadThrows(t)
    <2>1. inserts + 1 \in Insert  BY <1>15 DEF PayloadThrows, Insert, StoredOK
    <2>2. StoredOK'  BY <2>1, <1>15 DEF PayloadThrows, StoredOK, Insert
    <2>. QED
      BY <2>2, <1>15
      DEF PayloadThrows, ThreadOK, MapOK, NotifiedOK, HistoryOK, ClockOK, map, notified, history, clock
  <1>. QED  BY ThreadStep(t), <1>1, <1>2, <1>3, <1>4, <1>5, <1>6, <1>7, <1>8, <1>9, <1>10, <1>11, <1>12, <1>13, <1>14, <1>15 DEF ThreadStep

\* So do the job of the notifications, time and a restart.
LEMMA TypeOther ==
  ASSUME TypeOK, Clear \/ Fill \/ Tick \/ Restart \/ UNCHANGED vars PROVE TypeOK'
  <1> USE BoundsAreNaturals DEF TypeOK
  <1>1. CASE Clear
    <2>1. {thread[t].seen : t \in {u \in Thread : thread[u].at \in {"stamp", "config"}}} \subseteq Nat
      BY DEF ThreadOK
    <2>2. NotifiedOK' /\ MapOK'  BY <1>1, <2>1 DEF Clear, NotifiedOK, MapOK
    <2>. QED  BY <1>1, <2>2 DEF Clear, StoredOK, ThreadOK, HistoryOK, ClockOK, stored, history, clock
  <1>2. CASE Fill
    BY <1>2 DEF Fill, StoredOK, ThreadOK, MapOK, NotifiedOK, HistoryOK, ClockOK,
                stored, notified, history, clock
  <1>3. CASE Tick
    BY <1>3 DEF Tick, StoredOK, ThreadOK, MapOK, NotifiedOK, HistoryOK, ClockOK,
                stored, map, notified, history
  <1>4. CASE Restart
    <2>1. {thread[t].insert : t \in {u \in Thread : thread[u].at # "idle"}} \subseteq Insert
      BY HasInsert
    <2>2. StoredOK' /\ ClockOK'  BY <1>4, <2>1 DEF Restart, StoredOK, ClockOK
    <2>3. ThreadOK'  BY <1>4 DEF Restart, ThreadOK, Idle, At, Place
    <2>4. MapOK'  BY <1>4 DEF Restart, MapOK
    <2>5. NotifiedOK'  BY <1>4 DEF Restart, NotifiedOK
    <2>6. HistoryOK'  BY <1>4 DEF Restart, HistoryOK
    <2>. QED  BY <2>2, <2>3, <2>4, <2>5, <2>6
  <1>5. CASE UNCHANGED vars
    BY <1>5 DEF vars, StoredOK, ThreadOK, MapOK, NotifiedOK, HistoryOK, ClockOK,
                stored, map, notified, history, clock
  <1>. QED  BY <1>1, <1>2, <1>3, <1>4, <1>5

\* The steps of a replay.
ReplayStep(r) == ReadHistory(r) \/ WriteHistory(r) \/ HistoryFails(r)

\* So does a replay.
LEMMA TypeReplay ==
  ASSUME TypeOK, NEW r \in Replay, ReplayStep(r) PROVE TypeOK'
  <1> USE DEF TypeOK, StoredOK, ThreadOK, MapOK, NotifiedOK, ClockOK, stored, map, notified, clock
  <1>1. CASE ReadHistory(r)  BY <1>1 DEF ReadHistory, HistoryOK
  <1>2. CASE WriteHistory(r)  BY <1>2 DEF WriteHistory, HistoryOK
  <1>3. CASE HistoryFails(r)  BY <1>3 DEF HistoryFails, HistoryOK
  <1>. QED  BY <1>1, <1>2, <1>3 DEF ReplayStep

\* The steps of Next, for the proofs by cases below.
LEMMA NextSteps ==
  ASSUME [Next]_vars
  PROVE \/ \E t \in Thread : ThreadStep(t)
        \/ \E r \in Replay : ReplayStep(r)
        \/ Clear \/ Fill \/ Tick \/ Restart \/ UNCHANGED vars
  BY DEF Next, ReplayStep

\* Every variable keeps its type.
THEOREM TypeCorrect == Spec => []TypeOK
  <1>1. TypeOK /\ [Next]_vars => TypeOK'
    BY NextSteps, TypeThread, TypeReplay, TypeOther
  <1>. QED  BY TypeInit, <1>1, PTL DEF Spec

-----------------------------------------------------------------------------
(* The history of replays.                                                 *)

\* What a replay has read, but for what was overtaken, is all that was recorded.
ReadAll ==
  \A r, s \in Replay :
    replay[r].at = "read" /\ replay[s].at = "recorded" => s \in replay[r].seen \cup overtaken

HistoryInv == HistoryKept /\ ReadAll

\* A replay keeps the histories.
LEMMA HistoryReplay ==
  ASSUME TypeOK, HistoryInv, NEW r \in Replay, ReplayStep(r) PROVE HistoryInv'
  <1> USE DEF TypeOK, HistoryOK, HistoryInv, HistoryKept, ReadAll
  <1>1. CASE ReadHistory(r)  BY <1>1 DEF ReadHistory
  <1>2. CASE WriteHistory(r)
    <2>1. ASSUME NEW s \in Replay, replay'[s].at = "recorded" PROVE s \in replayInfo' \cup overtaken'
      BY <1>2, <2>1 DEF WriteHistory
    <2>2. ASSUME NEW q \in Replay, NEW s \in Replay, replay'[q].at = "read", replay'[s].at = "recorded"
          PROVE s \in replay'[q].seen \cup overtaken'
      BY <1>2, <2>2 DEF WriteHistory
    <2>. QED  BY <2>1, <2>2
  <1>3. CASE HistoryFails(r)  BY <1>3 DEF HistoryFails
  <1>. QED  BY <1>1, <1>2, <1>3 DEF ReplayStep

\* No other step touches them.
LEMMA HistoryOther ==
  ASSUME TypeOK, HistoryInv,
         (\E t \in Thread : ThreadStep(t)) \/ Clear \/ Fill \/ Tick \/ Restart \/ UNCHANGED vars
  PROVE HistoryInv'
  <1> USE DEF TypeOK, HistoryOK, HistoryInv, HistoryKept, ReadAll
  <1>1. ASSUME UNCHANGED history PROVE HistoryInv'  BY <1>1 DEF history
  <1>2. ASSUME NEW t \in Thread, ThreadStep(t) PROVE UNCHANGED history
    BY <1>2 DEF ThreadStep, PayloadInsert, PayloadThrows, AuditMalformed, AuditInsert, AuditThrows, ReadBackThrows,
       RemovePayload, RemoveThrows, NoMail, Expired, Stamp, Config, SendEmail, EmailFails, ConfigThrows
  <1>3. CASE Restart  BY <1>3 DEF Restart
  <1>4. ASSUME Clear \/ Fill \/ Tick \/ UNCHANGED vars PROVE UNCHANGED history
    BY <1>4 DEF Clear, Fill, Tick, vars
  <1>. QED  BY <1>1, <1>2, <1>3, <1>4

\* A recorded replay stays in the history of its audit unless it was overtaken
\* (updateAudit reads the list and writes the whole of it back).
THEOREM HistoryIsKept == Spec => []HistoryKept
  <1>1. Init => HistoryInv  BY DEF Init, HistoryInv, HistoryKept, ReadAll
  <1>2. TypeOK /\ HistoryInv /\ [Next]_vars => HistoryInv'
    BY NextSteps, HistoryReplay, HistoryOther
  <1>3. HistoryInv => HistoryKept  BY DEF HistoryInv
  <1>. QED  BY <1>1, <1>2, <1>3, TypeCorrect, PTL DEF Spec

-----------------------------------------------------------------------------
(* Payloads and audits.                                                    *)

\* Where the audit of a thread's insert is stored.
Told == {"notify", "stamp", "config", "send"}

\* No two threads are at the same insert.
OwnInserts ==
  \A t \in Thread : thread[t].at # "idle" =>
    /\ thread[t].insert <= inserts
    /\ \A u \in Thread \ {t} : thread[u].at # "idle" => thread[u].insert # thread[t].insert

\* Nothing is stored of an insert to come.
NoneToCome == \A k \in payloads \cup audits : k <= inserts

\* What is stored of a thread's insert, by its place.
PlacesLinked ==
  \A t \in Thread :
    /\ thread[t].at # "idle" => thread[t].insert \in payloads
    /\ thread[t].at = "audit" => thread[t].insert \notin audits
    /\ thread[t].at \in Told => thread[t].insert \in audits
    /\ thread[t].at = "undo" => (thread[t].insert \in audits => thread[t].insert \in late)

AuditsLinked == \A k \in audits : k \in payloads \/ k \in late
PayloadsLinked ==
  \A k \in payloads :
    \/ k \in audits \/ k \in malformed \/ k \in interrupted
    \/ \E t \in Thread : thread[t].at \in {"audit", "undo"} /\ thread[t].insert = k

LinkInv == OwnInserts /\ NoneToCome /\ PlacesLinked /\ AuditsLinked /\ PayloadsLinked

\* Of the threads, a step changes t's alone.
OnlyThread(t, p, k, s) == thread' = [thread EXCEPT ![t] = At(p, k, s)]

\* A step of one thread is where it says, and moves no other.
LEMMA OneMoves ==
  ASSUME ThreadOK, NEW t \in Thread, NEW p, NEW k, NEW s, OnlyThread(t, p, k, s)
  PROVE /\ thread'[t].at = p /\ thread'[t].insert = k /\ thread'[t].seen = s
        /\ \A u \in Thread \ {t} : thread'[u] = thread[u]
  BY DEF ThreadOK, OnlyThread, At

\* A thread whose audit is stored goes on, or ends.
LEMMA LinkTold ==
  ASSUME TypeOK, LinkInv, UNCHANGED stored,
         NEW t \in Thread, thread[t].at \in Told,
         NEW p \in Told \cup {"idle"}, NEW j, NEW m, OnlyThread(t, p, j, m),
         p # "idle" => j = thread[t].insert
  PROVE LinkInv'
  <1> USE DEF LinkInv
  <1>0. ThreadOK /\ StoredOK  BY DEF TypeOK
  <1>1. \A u \in Thread : thread[u].at # "idle" => thread[u].insert \in Insert  BY <1>0, HasInsert
  <1>2. /\ thread'[t].at = p /\ thread'[t].insert = j
        /\ \A u \in Thread \ {t} : thread'[u] = thread[u]
    BY <1>0, OneMoves
  <1>3. OwnInserts' /\ NoneToCome'  BY <1>0, <1>1, <1>2 DEF OwnInserts, NoneToCome, stored, StoredOK, Insert, Told
  <1>4. PlacesLinked'  BY <1>0, <1>1, <1>2 DEF PlacesLinked, OwnInserts, NoneToCome, stored, StoredOK, Insert, Told
  <1>5. AuditsLinked'  BY <1>0, <1>1, <1>2 DEF PlacesLinked, AuditsLinked, stored, StoredOK, Insert, Told
  <1>6. PayloadsLinked'
    <2>1. \A u \in Thread : thread[u].at \in {"audit", "undo"} => thread'[u] = thread[u]
      BY <1>2 DEF Told
    <2>. QED  BY <2>1 DEF PayloadsLinked, stored
  <1>. QED  BY <1>3, <1>4, <1>5, <1>6

\* A step of an insert keeps audits and payloads linked.
LEMMA LinkThread ==
  ASSUME TypeOK, LinkInv, NEW t \in Thread, ThreadStep(t) PROVE LinkInv'
  <1> DEFINE k == thread[t].insert
             s == thread[t].seen
  <1> USE DEF LinkInv
  <1>0. ThreadOK /\ StoredOK  BY DEF TypeOK
  <1>a. \A u \in Thread : thread[u].at # "idle" => thread[u].insert \in Insert  BY <1>0, HasInsert
  <1>1. CASE PayloadInsert(t)
    <2>1. OnlyThread(t, "audit", inserts + 1, 0)  BY <1>1 DEF PayloadInsert, OnlyThread, Goto, End, Idle
    <2>2. /\ thread'[t].at = "audit" /\ thread'[t].insert = inserts + 1
          /\ \A u \in Thread \ {t} : thread'[u] = thread[u]
      BY <1>0, <2>1, OneMoves
    <2>3. OwnInserts' /\ NoneToCome'  BY <1>0, <1>a, <1>1, <2>2 DEF OwnInserts, NoneToCome, PayloadInsert, stored, StoredOK, Insert, Told
    <2>4. PlacesLinked'  BY <1>0, <1>a, <1>1, <2>2 DEF PlacesLinked, OwnInserts, NoneToCome, PayloadInsert, stored, StoredOK, Insert, Told
    <2>5. AuditsLinked'  BY <1>0, <1>a, <1>1, <2>2 DEF PlacesLinked, AuditsLinked, PayloadInsert, stored, StoredOK, Insert, Told
    <2>6. PayloadsLinked'  BY <1>0, <1>a, <1>1, <2>2 DEF PlacesLinked, PayloadsLinked, PayloadInsert, stored, StoredOK, Insert, Told
    <2>. QED  BY <2>3, <2>4, <2>5, <2>6
  <1>2. CASE AuditMalformed(t)
    <2>1. OnlyThread(t, "idle", 0, 0)  BY <1>2 DEF AuditMalformed, OnlyThread, Goto, End, Idle
    <2>2. /\ thread'[t].at = "idle" /\ thread'[t].insert = 0
          /\ \A u \in Thread \ {t} : thread'[u] = thread[u]
      BY <1>0, <2>1, OneMoves
    <2>3. OwnInserts' /\ NoneToCome'  BY <1>0, <1>a, <1>2, <2>2 DEF OwnInserts, NoneToCome, AuditMalformed, stored, StoredOK, Insert, Told
    <2>4. PlacesLinked'  BY <1>0, <1>a, <1>2, <2>2 DEF PlacesLinked, OwnInserts, NoneToCome, AuditMalformed, stored, StoredOK, Insert, Told
    <2>5. AuditsLinked'  BY <1>0, <1>a, <1>2, <2>2 DEF PlacesLinked, AuditsLinked, AuditMalformed, stored, StoredOK, Insert, Told
    <2>6. PayloadsLinked'  BY <1>0, <1>a, <1>2, <2>2 DEF PlacesLinked, PayloadsLinked, AuditMalformed, stored, StoredOK, Insert, Told
    <2>. QED  BY <2>3, <2>4, <2>5, <2>6
  <1>3. CASE AuditInsert(t)
    <2>1. OnlyThread(t, "notify", k, s)  BY <1>3 DEF AuditInsert, OnlyThread, Goto, End, Idle
    <2>2. /\ thread'[t].at = "notify" /\ thread'[t].insert = k
          /\ \A u \in Thread \ {t} : thread'[u] = thread[u]
      BY <1>0, <2>1, OneMoves
    <2>3. OwnInserts' /\ NoneToCome'  BY <1>0, <1>a, <1>3, <2>2 DEF OwnInserts, NoneToCome, AuditInsert, stored, StoredOK, Insert, Told
    <2>4. PlacesLinked'  BY <1>0, <1>a, <1>3, <2>2 DEF PlacesLinked, OwnInserts, NoneToCome, AuditInsert, stored, StoredOK, Insert, Told
    <2>5. AuditsLinked'  BY <1>0, <1>a, <1>3, <2>2 DEF PlacesLinked, AuditsLinked, AuditInsert, stored, StoredOK, Insert, Told
    <2>6. PayloadsLinked'  BY <1>0, <1>a, <1>3, <2>2 DEF PlacesLinked, PayloadsLinked, AuditInsert, stored, StoredOK, Insert, Told
    <2>. QED  BY <2>3, <2>4, <2>5, <2>6
  <1>4. CASE AuditThrows(t)
    <2>1. OnlyThread(t, "undo", k, s)  BY <1>4 DEF AuditThrows, OnlyThread, Goto, End, Idle
    <2>2. /\ thread'[t].at = "undo" /\ thread'[t].insert = k
          /\ \A u \in Thread \ {t} : thread'[u] = thread[u]
      BY <1>0, <2>1, OneMoves
    <2>3. OwnInserts' /\ NoneToCome'  BY <1>0, <1>a, <1>4, <2>2 DEF OwnInserts, NoneToCome, AuditThrows, stored, StoredOK, Insert, Told
    <2>4. PlacesLinked'  BY <1>0, <1>a, <1>4, <2>2 DEF PlacesLinked, OwnInserts, NoneToCome, AuditThrows, stored, StoredOK, Insert, Told
    <2>5. AuditsLinked'  BY <1>0, <1>a, <1>4, <2>2 DEF PlacesLinked, AuditsLinked, AuditThrows, stored, StoredOK, Insert, Told
    <2>6. PayloadsLinked'  BY <1>0, <1>a, <1>4, <2>2 DEF PlacesLinked, PayloadsLinked, AuditThrows, stored, StoredOK, Insert, Told
    <2>. QED  BY <2>3, <2>4, <2>5, <2>6
  <1>5. CASE ReadBackThrows(t)
    <2>1. OnlyThread(t, "undo", k, s)  BY <1>5 DEF ReadBackThrows, OnlyThread, Goto, End, Idle
    <2>2. /\ thread'[t].at = "undo" /\ thread'[t].insert = k
          /\ \A u \in Thread \ {t} : thread'[u] = thread[u]
      BY <1>0, <2>1, OneMoves
    <2>3. OwnInserts' /\ NoneToCome'  BY <1>0, <1>a, <1>5, <2>2 DEF OwnInserts, NoneToCome, ReadBackThrows, stored, StoredOK, Insert, Told
    <2>4. PlacesLinked'  BY <1>0, <1>a, <1>5, <2>2 DEF PlacesLinked, OwnInserts, NoneToCome, ReadBackThrows, stored, StoredOK, Insert, Told
    <2>5. AuditsLinked'  BY <1>0, <1>a, <1>5, <2>2 DEF PlacesLinked, AuditsLinked, ReadBackThrows, stored, StoredOK, Insert, Told
    <2>6. PayloadsLinked'  BY <1>0, <1>a, <1>5, <2>2 DEF PlacesLinked, PayloadsLinked, ReadBackThrows, stored, StoredOK, Insert, Told
    <2>. QED  BY <2>3, <2>4, <2>5, <2>6
  <1>6. CASE RemovePayload(t)
    <2>1. OnlyThread(t, "idle", 0, 0)  BY <1>6 DEF RemovePayload, OnlyThread, Goto, End, Idle
    <2>2. /\ thread'[t].at = "idle" /\ thread'[t].insert = 0
          /\ \A u \in Thread \ {t} : thread'[u] = thread[u]
      BY <1>0, <2>1, OneMoves
    <2>3. OwnInserts' /\ NoneToCome'  BY <1>0, <1>a, <1>6, <2>2 DEF OwnInserts, NoneToCome, RemovePayload, stored, StoredOK, Insert, Told
    <2>4. PlacesLinked'  BY <1>0, <1>a, <1>6, <2>2 DEF PlacesLinked, OwnInserts, NoneToCome, RemovePayload, stored, StoredOK, Insert, Told
    <2>5. AuditsLinked'  BY <1>0, <1>a, <1>6, <2>2 DEF PlacesLinked, AuditsLinked, RemovePayload, stored, StoredOK, Insert, Told
    <2>6. PayloadsLinked'  BY <1>0, <1>a, <1>6, <2>2 DEF PlacesLinked, PayloadsLinked, RemovePayload, stored, StoredOK, Insert, Told
    <2>. QED  BY <2>3, <2>4, <2>5, <2>6
  <1>7. CASE RemoveThrows(t)
    <2>1. OnlyThread(t, "idle", 0, 0)  BY <1>7 DEF RemoveThrows, OnlyThread, Goto, End, Idle
    <2>2. /\ thread'[t].at = "idle" /\ thread'[t].insert = 0
          /\ \A u \in Thread \ {t} : thread'[u] = thread[u]
      BY <1>0, <2>1, OneMoves
    <2>3. OwnInserts' /\ NoneToCome'  BY <1>0, <1>a, <1>7, <2>2 DEF OwnInserts, NoneToCome, RemoveThrows, stored, StoredOK, Insert, Told
    <2>4. PlacesLinked'  BY <1>0, <1>a, <1>7, <2>2 DEF PlacesLinked, OwnInserts, NoneToCome, RemoveThrows, stored, StoredOK, Insert, Told
    <2>5. AuditsLinked'  BY <1>0, <1>a, <1>7, <2>2 DEF PlacesLinked, AuditsLinked, RemoveThrows, stored, StoredOK, Insert, Told
    <2>6. PayloadsLinked'  BY <1>0, <1>a, <1>7, <2>2 DEF PlacesLinked, PayloadsLinked, RemoveThrows, stored, StoredOK, Insert, Told
    <2>. QED  BY <2>3, <2>4, <2>5, <2>6
  <1>8. CASE ConfigThrows(t)
    <2>1. OnlyThread(t, "undo", k, s)  BY <1>8 DEF ConfigThrows, OnlyThread, Goto, End, Idle
    <2>2. /\ thread'[t].at = "undo" /\ thread'[t].insert = k
          /\ \A u \in Thread \ {t} : thread'[u] = thread[u]
      BY <1>0, <2>1, OneMoves
    <2>3. OwnInserts' /\ NoneToCome'  BY <1>0, <1>a, <1>8, <2>2 DEF OwnInserts, NoneToCome, ConfigThrows, stored, StoredOK, Insert, Told
    <2>4. PlacesLinked'  BY <1>0, <1>a, <1>8, <2>2 DEF PlacesLinked, OwnInserts, NoneToCome, ConfigThrows, stored, StoredOK, Insert, Told
    <2>5. AuditsLinked'  BY <1>0, <1>a, <1>8, <2>2 DEF PlacesLinked, AuditsLinked, ConfigThrows, stored, StoredOK, Insert, Told
    <2>6. PayloadsLinked'  BY <1>0, <1>a, <1>8, <2>2 DEF PlacesLinked, PayloadsLinked, ConfigThrows, stored, StoredOK, Insert, Told
    <2>. QED  BY <2>3, <2>4, <2>5, <2>6
  <1>9. CASE NoMail(t)
    <2>1. OnlyThread(t, "idle", 0, 0)  BY <1>9 DEF NoMail, OnlyThread, Goto, End, Idle
    <2>2. UNCHANGED stored /\ thread[t].at \in Told  BY <1>9 DEF NoMail, Told
    <2>. QED  BY <2>1, <2>2, LinkTold DEF Told
  <1>10. CASE Expired(t)
    <2>1. OnlyThread(t, "stamp", k, now)  BY <1>10 DEF Expired, OnlyThread, Goto, End, Idle
    <2>2. UNCHANGED stored /\ thread[t].at \in Told  BY <1>10 DEF Expired, Told
    <2>. QED  BY <2>1, <2>2, LinkTold DEF Told
  <1>11. CASE Stamp(t)
    <2>1. OnlyThread(t, "config", k, s)  BY <1>11 DEF Stamp, OnlyThread, Goto, End, Idle
    <2>2. UNCHANGED stored /\ thread[t].at \in Told  BY <1>11 DEF Stamp, Told
    <2>. QED  BY <2>1, <2>2, LinkTold DEF Told
  <1>12. CASE SendEmail(t)
    <2>1. OnlyThread(t, "idle", 0, 0)  BY <1>12 DEF SendEmail, OnlyThread, Goto, End, Idle
    <2>2. UNCHANGED stored /\ thread[t].at \in Told  BY <1>12 DEF SendEmail, Told
    <2>. QED  BY <2>1, <2>2, LinkTold DEF Told
  <1>13. CASE EmailFails(t)
    <2>1. OnlyThread(t, "idle", 0, 0)  BY <1>13 DEF EmailFails, OnlyThread, Goto, End, Idle
    <2>2. UNCHANGED stored /\ thread[t].at \in Told  BY <1>13 DEF EmailFails, Told
    <2>. QED  BY <2>1, <2>2, LinkTold DEF Told
  <1>14. CASE Config(t)
    <2>1. OnlyThread(t, "send", k, s) \/ OnlyThread(t, "idle", 0, 0)
      BY <1>14 DEF Config, OnlyThread, Goto, End, Idle
    <2>2. UNCHANGED stored /\ thread[t].at \in Told  BY <1>14 DEF Config, Told
    <2>3. ASSUME OnlyThread(t, "send", k, s) PROVE LinkInv'  BY <2>2, <2>3, LinkTold DEF Told
    <2>4. ASSUME OnlyThread(t, "idle", 0, 0) PROVE LinkInv'  BY <2>2, <2>4, LinkTold
    <2>. QED  BY <2>1, <2>3, <2>4
  <1>15. CASE PayloadThrows(t)
    <2>1. /\ thread[t].at = "idle" /\ inserts' = inserts + 1
          /\ payloads \subseteq payloads' /\ payloads' \subseteq payloads \cup {inserts + 1}
          /\ interrupted' = interrupted \cup {inserts + 1}
          /\ UNCHANGED <<thread, audits, malformed, late>>
      BY <1>15 DEF PayloadThrows
    <2>2. inserts \in Nat /\ \A u \in Thread : thread[u].insert \in Nat
      BY <1>0, BoundsAreNaturals DEF StoredOK, ThreadOK
    <2>3. OwnInserts'  BY <2>1, <2>2 DEF OwnInserts
    <2>4. NoneToCome'  BY <1>0, <2>1, <2>2 DEF NoneToCome, StoredOK, Insert
    <2>5. PlacesLinked'  BY <2>1 DEF PlacesLinked
    <2>6. AuditsLinked'  BY <2>1 DEF AuditsLinked
    <2>7. PayloadsLinked'  BY <2>1 DEF PayloadsLinked
    <2>. QED  BY <2>3, <2>4, <2>5, <2>6, <2>7
  <1>. QED  BY <1>1, <1>2, <1>3, <1>4, <1>5, <1>6, <1>7, <1>8, <1>9, <1>10, <1>11, <1>12, <1>13, <1>14, <1>15 DEF ThreadStep

\* No other step separates them.
LEMMA LinkOther ==
  ASSUME TypeOK, LinkInv,
         (\E r \in Replay : ReplayStep(r)) \/ Clear \/ Fill \/ Tick \/ Restart \/ UNCHANGED vars
  PROVE LinkInv'
  <1> USE DEF LinkInv, OwnInserts, NoneToCome, PlacesLinked, AuditsLinked, PayloadsLinked
  <1>1. ASSUME UNCHANGED <<stored, thread>> PROVE LinkInv'  BY <1>1 DEF stored
  <1>2. ASSUME NEW r \in Replay, ReplayStep(r) PROVE UNCHANGED <<stored, thread>>
    BY <1>2 DEF ReplayStep, ReadHistory, WriteHistory, HistoryFails
  <1>3. ASSUME Clear \/ Fill \/ Tick \/ UNCHANGED vars PROVE UNCHANGED <<stored, thread>>
    BY <1>3 DEF Clear, Fill, Tick, vars
  <1>4. CASE Restart
    <2>1. \A t \in Thread : thread'[t].at = "idle"  BY <1>4 DEF Restart, Idle, At
    <2>2. OwnInserts' /\ NoneToCome' /\ AuditsLinked'  BY <1>4, <2>1 DEF Restart
    <2>3. PlacesLinked'  BY <2>1 DEF Told
    <2>4. ASSUME NEW t \in Thread, thread[t].at # "idle" PROVE thread[t].insert \in interrupted'
      BY <1>4, <2>4 DEF Restart
    <2>5. PayloadsLinked'  BY <1>4, <2>4 DEF Restart
    <2>. QED  BY <2>2, <2>3, <2>5
  <1>. QED  BY <1>1, <1>2, <1>3, <1>4

\* A payload lacks its audit, and an audit its payload, only where an insert
\* was cut off, was refused, is on its way, or failed late (insertService's
\* order of writes and what its catches undo).
THEOREM AuditsAreLinked == Spec => []Linked
  <1>1. Init => LinkInv
    BY DEF Init, LinkInv, OwnInserts, NoneToCome, PlacesLinked, AuditsLinked, PayloadsLinked, Idle, At, Told
  <1>2. TypeOK /\ LinkInv /\ [Next]_vars => LinkInv'
    BY NextSteps, LinkThread, LinkOther
  <1>3. LinkInv => Linked  BY DEF LinkInv, AuditsLinked, PayloadsLinked, Linked
  <1>. QED  BY <1>1, <1>2, <1>3, TypeCorrect, PTL DEF Spec

-----------------------------------------------------------------------------
(* The e-mails.                                                            *)

\* Where a thread has read the time.
Noted == {"stamp", "config", "send"}

Spaced(a, b) == a + Period < b \/ b + Period < a

\* The threads that have stamped and the e-mails sent since the start, but for
\* those whose insert met another one.
Bound == {t \in Thread : thread[t].at \in Stamped /\ thread[t].insert \notin raced}
Sent == {m \in mails : m.life = restarts /\ m.insert \notin raced}

\* Times are no zeros: zero stands for no stamp.  No e-mail is of a life to come.
Positive ==
  /\ 1 <= now
  /\ \A t \in Thread : thread[t].at \in Noted => 1 <= thread[t].seen
  /\ \A m \in mails : 1 <= m.decided /\ m.life <= restarts

\* Who is about to stamp with another one has met it.
Alone ==
  \A t, u \in Thread :
    t # u /\ thread[t].at = "stamp" /\ thread[u].at = "stamp" => thread[t].insert \in raced

\* Who is about to stamp is a period later than all that was decided on before.
Later ==
  \A t \in Thread : thread[t].at = "stamp" =>
    /\ \A u \in Bound : thread[u].seen + Period < thread[t].seen
    /\ \A m \in Sent : m.decided + Period < thread[t].seen

\* The times of the e-mails, sent or to be, lie apart and none is after the last stamp.
NoneAfter ==
  /\ \A t \in Bound : thread[t].seen <= lastTime
  /\ \A m \in Sent : m.decided <= lastTime
ThreadsApart == \A t, u \in Bound : t # u => Spaced(thread[t].seen, thread[u].seen)
SentApart == \A t \in Bound, m \in Sent : Spaced(thread[t].seen, m.decided)
MailsApart ==
  \A m, n \in mails :
    m # n /\ m.life = n.life /\ m.insert \notin raced /\ n.insert \notin raced =>
      Spaced(m.decided, n.decided)

RateInv == Positive /\ Alone /\ Later /\ NoneAfter /\ ThreadsApart /\ SentApart /\ MailsApart

\* A thread that has sent nothing goes where it has no time.
Leaves(t) ==
  /\ thread'[t].at \notin Noted
  /\ \A u \in Thread \ {t} : thread'[u] = thread[u]

\* But for four, the steps of an insert leave the stamps and the e-mails alone.
LEMMA StepLeaves ==
  ASSUME ThreadOK, NEW t \in Thread, ThreadStep(t),
         ~Expired(t), ~Stamp(t), ~Config(t), ~SendEmail(t)
  PROVE Leaves(t) /\ UNCHANGED <<lastTime, mails, raced, now, restarts>>
  <1>1. CASE PayloadInsert(t)
    <2>1. OnlyThread(t, "audit", inserts + 1, 0)  BY <1>1 DEF PayloadInsert, OnlyThread, Goto, End, Idle
    <2>2. Leaves(t)  BY <2>1, OneMoves DEF Leaves, Noted
    <2>. QED  BY <1>1, <2>2 DEF PayloadInsert, notified, clock
  <1>2. CASE AuditMalformed(t)
    <2>1. OnlyThread(t, "idle", 0, 0)  BY <1>2 DEF AuditMalformed, OnlyThread, Goto, End, Idle
    <2>2. Leaves(t)  BY <2>1, OneMoves DEF Leaves, Noted
    <2>. QED  BY <1>2, <2>2 DEF AuditMalformed, notified, clock
  <1>3. CASE AuditInsert(t)
    <2>1. OnlyThread(t, "notify", thread[t].insert, thread[t].seen)  BY <1>3 DEF AuditInsert, OnlyThread, Goto, End, Idle
    <2>2. Leaves(t)  BY <2>1, OneMoves DEF Leaves, Noted
    <2>. QED  BY <1>3, <2>2 DEF AuditInsert, notified, clock
  <1>4. CASE AuditThrows(t)
    <2>1. OnlyThread(t, "undo", thread[t].insert, thread[t].seen)  BY <1>4 DEF AuditThrows, OnlyThread, Goto, End, Idle
    <2>2. Leaves(t)  BY <2>1, OneMoves DEF Leaves, Noted
    <2>. QED  BY <1>4, <2>2 DEF AuditThrows, notified, clock
  <1>5. CASE ReadBackThrows(t)
    <2>1. OnlyThread(t, "undo", thread[t].insert, thread[t].seen)  BY <1>5 DEF ReadBackThrows, OnlyThread, Goto, End, Idle
    <2>2. Leaves(t)  BY <2>1, OneMoves DEF Leaves, Noted
    <2>. QED  BY <1>5, <2>2 DEF ReadBackThrows, notified, clock
  <1>6. CASE RemovePayload(t)
    <2>1. OnlyThread(t, "idle", 0, 0)  BY <1>6 DEF RemovePayload, OnlyThread, Goto, End, Idle
    <2>2. Leaves(t)  BY <2>1, OneMoves DEF Leaves, Noted
    <2>. QED  BY <1>6, <2>2 DEF RemovePayload, notified, clock
  <1>7. CASE RemoveThrows(t)
    <2>1. OnlyThread(t, "idle", 0, 0)  BY <1>7 DEF RemoveThrows, OnlyThread, Goto, End, Idle
    <2>2. Leaves(t)  BY <2>1, OneMoves DEF Leaves, Noted
    <2>. QED  BY <1>7, <2>2 DEF RemoveThrows, notified, clock
  <1>8. CASE NoMail(t)
    <2>1. OnlyThread(t, "idle", 0, 0)  BY <1>8 DEF NoMail, OnlyThread, Goto, End, Idle
    <2>2. Leaves(t)  BY <2>1, OneMoves DEF Leaves, Noted
    <2>. QED  BY <1>8, <2>2 DEF NoMail, notified, clock
  <1>9. CASE EmailFails(t)
    <2>1. OnlyThread(t, "idle", 0, 0)  BY <1>9 DEF EmailFails, OnlyThread, Goto, End, Idle
    <2>2. Leaves(t)  BY <2>1, OneMoves DEF Leaves, Noted
    <2>. QED  BY <1>9, <2>2 DEF EmailFails, notified, clock
  <1>10. CASE ConfigThrows(t)
    <2>1. OnlyThread(t, "undo", thread[t].insert, thread[t].seen)  BY <1>10 DEF ConfigThrows, OnlyThread, Goto, End, Idle
    <2>2. Leaves(t)  BY <2>1, OneMoves DEF Leaves, Noted
    <2>. QED  BY <1>10, <2>2 DEF ConfigThrows, notified, clock
  <1>11. CASE PayloadThrows(t)
    <2>1. thread[t].at = "idle" /\ thread' = thread  BY <1>11 DEF PayloadThrows
    <2>2. Leaves(t)  BY <2>1 DEF Leaves, Noted
    <2>. QED  BY <1>11, <2>2 DEF PayloadThrows, notified, clock
  <1>. QED  BY <1>1, <1>2, <1>3, <1>4, <1>5, <1>6, <1>7, <1>8, <1>9, <1>10, <1>11 DEF ThreadStep

\* The types the arithmetic below needs.
LEMMA TimesAreNaturals ==
  ASSUME TypeOK
  PROVE /\ \A t \in Thread : thread[t].seen \in Nat
        /\ \A m \in mails : m.decided \in Nat /\ m.life \in Nat
        /\ lastTime \in Nat /\ now \in Nat /\ Period \in Nat /\ restarts \in Nat
  BY BoundsAreNaturals DEF TypeOK, ThreadOK, NotifiedOK, ClockOK

\* The inserts that meet are those between their check and their stamp.
LEMMA TogetherMeet ==
  ASSUME NEW t \in Thread
  PROVE /\ \A u \in Thread : thread[u].at = "stamp" =>
             {thread[t].insert, thread[u].insert} \subseteq Together(t)
        /\ \A k \in Together(t) :
             k = thread[t].insert \/ \E u \in Thread : thread[u].at = "stamp" /\ k = thread[u].insert
  BY DEF Together

\* If no more is bound, sent or about to stamp than before, and all the rest is
\* as it was, the e-mails stay apart.
LEMMA RateStays ==
  ASSUME TypeOK, RateInv, UNCHANGED <<lastTime, raced, restarts>>, now <= now', now' \in Nat,
         mails' = mails,
         \A u \in Thread : thread'[u].at \in Noted =>
           /\ thread[u].at \in Noted
           /\ thread'[u].seen = thread[u].seen /\ thread'[u].insert = thread[u].insert
           /\ thread'[u].at = "stamp" <=> thread[u].at = "stamp"
  PROVE RateInv'
  <1> USE DEF RateInv
  <1>1. \A u \in Thread : thread'[u].at \in Stamped => thread[u].at \in Stamped  BY DEF Noted, Stamped
  <1>2. \A u \in Bound' : u \in Bound /\ u \in Thread /\ thread'[u].seen = thread[u].seen
    BY <1>1 DEF Bound, Noted, Stamped
  <1>3. Sent' = Sent  BY DEF Sent
  <1>4. Positive'  BY TimesAreNaturals DEF Positive
  <1>5. Alone'  BY DEF Alone, Noted
  <1>6. Later'  BY <1>2, <1>3 DEF Later, Noted
  <1>7. NoneAfter'  BY <1>2, <1>3 DEF NoneAfter
  <1>8. ThreadsApart'  BY <1>2 DEF ThreadsApart
  <1>9. SentApart'  BY <1>2, <1>3 DEF SentApart
  <1>10. MailsApart'  BY DEF MailsApart
  <1>. QED  BY <1>4, <1>5, <1>6, <1>7, <1>8, <1>9, <1>10

\* The check of the last time.
LEMMA RateExpired ==
  ASSUME TypeOK, RateInv, NEW t \in Thread, Expired(t) PROVE RateInv'
  <1> USE DEF RateInv
  <1>0. ThreadOK  BY DEF TypeOK
  <1>n. /\ \A u \in Thread : thread[u].seen \in Nat
        /\ \A m \in mails : m.decided \in Nat /\ m.life \in Nat
        /\ lastTime \in Nat /\ now \in Nat /\ Period \in Nat /\ restarts \in Nat
    BY TimesAreNaturals
  <1>1. OnlyThread(t, "stamp", thread[t].insert, now)  BY DEF Expired, OnlyThread
  <1>2. /\ thread'[t].at = "stamp" /\ thread'[t].insert = thread[t].insert /\ thread'[t].seen = now
        /\ \A u \in Thread \ {t} : thread'[u] = thread[u]
    BY <1>0, <1>1, OneMoves
  <1>3. /\ thread[t].at = "notify" /\ raced' = raced \cup Together(t)
        /\ UNCHANGED <<lastTime, mails, now, restarts>>
    BY DEF Expired, clock
  <1>4. lastTime = 0 \/ lastTime + Period < now  BY <1>n DEF Expired, Recent
  <1>5. \A u \in Bound' : u \in Bound /\ u # t /\ u \in Thread /\ thread'[u] = thread[u]
    BY <1>2, <1>3 DEF Bound, Stamped
  <1>6. \A m \in Sent' : m \in Sent  BY <1>3 DEF Sent
  <1>7. Positive'  BY <1>2, <1>3 DEF Positive
  <1>8. Alone'
    <2> SUFFICES ASSUME NEW u \in Thread, NEW v \in Thread, u # v,
                        thread'[u].at = "stamp", thread'[v].at = "stamp"
                 PROVE thread'[u].insert \in raced'
      BY DEF Alone
    <2>1. CASE u = t  BY <1>2, <1>3, <2>1, TogetherMeet
    <2>2. CASE u # t  BY <1>2, <1>3, <2>2, TogetherMeet
    <2>. QED  BY <2>1, <2>2
  <1>9. Later'
    <2>1. \A u \in Bound : 1 <= thread[u].seen /\ thread[u].seen <= lastTime /\ u \in Thread
      BY DEF Bound, Positive, NoneAfter, Noted, Stamped
    <2>2. \A m \in Sent : 1 <= m.decided /\ m.decided <= lastTime /\ m \in mails
      BY DEF Sent, Positive, NoneAfter
    <2>3. ASSUME NEW u \in Bound PROVE thread[u].seen + Period < now
      <3>1. thread[u].seen \in Nat /\ 1 <= thread[u].seen /\ thread[u].seen <= lastTime  BY <1>n, <2>1
      <3>. QED  BY <1>n, <1>4, <3>1
    <2>4. ASSUME NEW m \in Sent PROVE m.decided + Period < now
      <3>1. m.decided \in Nat /\ 1 <= m.decided /\ m.decided <= lastTime  BY <1>n, <2>2
      <3>. QED  BY <1>n, <1>4, <3>1
    <2>5. ASSUME NEW u \in Thread, thread'[u].at = "stamp"
          PROVE /\ \A v \in Bound' : thread'[v].seen + Period < thread'[u].seen
                /\ \A m \in Sent' : m.decided + Period < thread'[u].seen
      <3>1. CASE u = t  BY <1>2, <1>5, <1>6, <2>3, <2>4, <3>1
      <3>2. CASE u # t  BY <1>2, <1>5, <1>6, <2>5, <3>2 DEF Later
      <3>. QED  BY <3>1, <3>2
    <2>. QED  BY <2>5 DEF Later
  <1>10. NoneAfter'  BY <1>3, <1>5, <1>6 DEF NoneAfter
  <1>11. ThreadsApart'  BY <1>5 DEF ThreadsApart
  <1>12. SentApart'  BY <1>5, <1>6 DEF SentApart
  <1>13. MailsApart'  BY <1>3 DEF MailsApart
  <1>. QED  BY <1>7, <1>8, <1>9, <1>10, <1>11, <1>12, <1>13

\* The stamp.
LEMMA RateStamp ==
  ASSUME TypeOK, RateInv, NEW t \in Thread, Stamp(t) PROVE RateInv'
  <1> USE DEF RateInv
  <1>0. ThreadOK  BY DEF TypeOK
  <1>n. /\ \A u \in Thread : thread[u].seen \in Nat
        /\ \A m \in mails : m.decided \in Nat /\ m.life \in Nat
        /\ lastTime \in Nat /\ now \in Nat /\ Period \in Nat /\ restarts \in Nat
    BY TimesAreNaturals
  <1>1. OnlyThread(t, "config", thread[t].insert, thread[t].seen)  BY DEF Stamp, OnlyThread, Goto
  <1>2. /\ thread'[t].at = "config" /\ thread'[t].insert = thread[t].insert
        /\ thread'[t].seen = thread[t].seen
        /\ \A u \in Thread \ {t} : thread'[u] = thread[u]
    BY <1>0, <1>1, OneMoves
  <1>3. /\ thread[t].at = "stamp" /\ lastTime' = thread[t].seen
        /\ UNCHANGED <<mails, raced, now, restarts>>
    BY DEF Stamp, clock
  <1>4. \A u \in Bound' : u \in Thread /\ (u # t => u \in Bound /\ thread'[u] = thread[u])
    BY <1>2, <1>3 DEF Bound
  <1>5. Sent' = Sent  BY <1>3 DEF Sent
  <1>6. /\ \A u \in Bound : thread[u].seen + Period < thread[t].seen
        /\ \A m \in Sent : m.decided + Period < thread[t].seen /\ m.decided \in Nat
    BY <1>n, <1>3 DEF Later, Sent
  <1>7. t \in Bound' => \A u \in Thread \ {t} : thread[u].at # "stamp"
    BY <1>2, <1>3 DEF Alone, Bound
  <1>8. Positive'  BY <1>2, <1>3 DEF Positive, Noted
  <1>9. Alone'  BY <1>2, <1>3 DEF Alone
  <1>10. Later'
    <2>1. ASSUME NEW u \in Thread, thread'[u].at = "stamp"
          PROVE u # t /\ thread[u].at = "stamp" /\ thread'[u] = thread[u] /\ t \notin Bound'
      BY <1>2, <1>7, <2>1
    <2>. QED  BY <1>4, <1>5, <2>1 DEF Later
  <1>11. NoneAfter'  BY <1>n, <1>2, <1>3, <1>4, <1>5, <1>6 DEF NoneAfter
  <1>12. ThreadsApart'  BY <1>2, <1>4, <1>6 DEF ThreadsApart, Spaced
  <1>13. SentApart'  BY <1>2, <1>4, <1>5, <1>6 DEF SentApart, Spaced
  <1>14. MailsApart'  BY <1>3 DEF MailsApart
  <1>. QED  BY <1>8, <1>9, <1>10, <1>11, <1>12, <1>13, <1>14

\* The e-mail.
LEMMA RateSend ==
  ASSUME TypeOK, RateInv, NEW t \in Thread, SendEmail(t) PROVE RateInv'
  <1> USE DEF RateInv
  <1>0. ThreadOK  BY DEF TypeOK
  <1>n. restarts \in Nat  BY TimesAreNaturals
  <1>1. OnlyThread(t, "idle", 0, 0)  BY DEF SendEmail, OnlyThread, End, Idle
  <1>2. thread'[t].at = "idle" /\ \A u \in Thread \ {t} : thread'[u] = thread[u]
    BY <1>0, <1>1, OneMoves
  <1>3. thread[t].at = "send" /\ UNCHANGED <<lastTime, raced, now, restarts>>  BY DEF SendEmail, clock
  <1>4. PICK n : /\ n.insert = thread[t].insert /\ n.decided = thread[t].seen /\ n.life = restarts
                 /\ mails' = mails \cup {n}
    BY DEF SendEmail
  <1>5. \A u \in Thread : thread'[u].at \in Noted => u # t /\ thread'[u] = thread[u]
    BY <1>2 DEF Noted
  <1>6. \A u \in Bound' : u \in Bound /\ u # t /\ thread'[u] = thread[u]
    BY <1>3, <1>5 DEF Bound, Noted, Stamped
  <1>7. \A m \in Sent' : m \in Sent \/ (m = n /\ t \in Bound)
    BY <1>3, <1>4 DEF Sent, Bound, Stamped
  <1>8. Positive'  BY <1>n, <1>3, <1>4, <1>5 DEF Positive, Noted
  <1>9. Alone'  BY <1>3, <1>5 DEF Alone, Noted
  <1>10. Later'
    <2>1. ASSUME NEW u \in Thread, thread'[u].at = "stamp"
          PROVE thread[u].at = "stamp" /\ thread'[u] = thread[u]
      BY <1>5, <2>1 DEF Noted
    <2>. QED  BY <1>4, <1>6, <1>7, <2>1 DEF Later
  <1>11. NoneAfter'  BY <1>3, <1>4, <1>6, <1>7 DEF NoneAfter
  <1>12. ThreadsApart'  BY <1>6 DEF ThreadsApart
  <1>13. SentApart'  BY <1>4, <1>6, <1>7 DEF SentApart, ThreadsApart
  <1>14. MailsApart'
    <2>1. ASSUME NEW m \in mails, m.life = restarts, m.insert \notin raced, n.insert \notin raced
          PROVE Spaced(n.decided, m.decided)
      BY <1>3, <1>4, <2>1 DEF SentApart, Sent, Bound, Stamped
    <2>. QED  BY <1>3, <1>4, <2>1 DEF MailsApart, Spaced
  <1>. QED  BY <1>8, <1>9, <1>10, <1>11, <1>12, <1>13, <1>14

\* A step of an insert keeps the e-mails apart.
LEMMA RateThread ==
  ASSUME TypeOK, RateInv, NEW t \in Thread, ThreadStep(t) PROVE RateInv'
  <1>0. ThreadOK /\ now \in Nat  BY TimesAreNaturals DEF TypeOK
  <1>1. ASSUME Leaves(t), UNCHANGED <<lastTime, mails, raced, now, restarts>> PROVE RateInv'
    <2>1. \A u \in Thread : thread'[u].at \in Noted => u # t /\ thread'[u] = thread[u]
      BY <1>1 DEF Leaves
    <2>. QED  BY <1>0, <1>1, <2>1, RateStays
  <1>2. CASE Config(t)
    <2>1. OnlyThread(t, "send", thread[t].insert, thread[t].seen) \/ OnlyThread(t, "idle", 0, 0)
      BY <1>2 DEF Config, OnlyThread, Goto, End, Idle
    <2>2. thread[t].at = "config" /\ UNCHANGED <<lastTime, mails, raced, now, restarts>>
      BY <1>2 DEF Config, notified, clock
    <2>3. ASSUME OnlyThread(t, "idle", 0, 0) PROVE Leaves(t)  BY <1>0, <2>3, OneMoves DEF Leaves, Noted
    <2>4. ASSUME OnlyThread(t, "send", thread[t].insert, thread[t].seen) PROVE RateInv'
      <3>1. /\ thread'[t].at = "send" /\ thread'[t].insert = thread[t].insert
            /\ thread'[t].seen = thread[t].seen
            /\ \A u \in Thread \ {t} : thread'[u] = thread[u]
        BY <1>0, <2>4, OneMoves
      <3>. QED  BY <1>0, <2>2, <3>1, RateStays DEF Noted
    <2>. QED  BY <1>1, <2>1, <2>2, <2>3, <2>4
  <1>3. ASSUME ~Expired(t), ~Stamp(t), ~Config(t), ~SendEmail(t) PROVE RateInv'
    BY <1>0, <1>1, <1>3, StepLeaves
  <1>. QED  BY <1>2, <1>3, RateExpired, RateStamp, RateSend

\* No other step brings them together.
LEMMA RateOther ==
  ASSUME TypeOK, RateInv,
         (\E r \in Replay : ReplayStep(r)) \/ Clear \/ Fill \/ Tick \/ Restart \/ UNCHANGED vars
  PROVE RateInv'
  <1>0. now \in Nat  BY TimesAreNaturals
  <1>1. ASSUME UNCHANGED <<thread, lastTime, mails, raced, restarts>>, now' \in {now, now + 1}
        PROVE RateInv'
    BY <1>0, <1>1, RateStays
  <1>2. ASSUME NEW r \in Replay, ReplayStep(r)
        PROVE UNCHANGED <<thread, lastTime, mails, raced, restarts, now>>
    BY <1>2 DEF ReplayStep, ReadHistory, WriteHistory, HistoryFails, notified, clock
  <1>3. ASSUME Clear \/ Fill \/ UNCHANGED vars
        PROVE UNCHANGED <<thread, lastTime, mails, raced, restarts, now>>
    BY <1>3 DEF Clear, Fill, vars, notified, clock
  <1>4. CASE Tick  BY <1>1, <1>4 DEF Tick, notified
  <1>5. CASE Restart
    <2>1. \A t \in Thread : thread'[t].at = "idle"  BY <1>5 DEF Restart, Idle, At
    <2>2. restarts' = restarts + 1 /\ UNCHANGED <<mails, raced, now>>  BY <1>5 DEF Restart
    <2>3. Positive'  BY <2>1, <2>2, TimesAreNaturals DEF RateInv, Positive, Noted
    <2>4. Bound' = {}  BY <2>1 DEF Bound, Stamped
    <2>5. Sent' = {}  BY <2>2, TimesAreNaturals DEF RateInv, Positive, Sent
    <2>6. Alone' /\ Later'  BY <2>1 DEF Alone, Later
    <2>7. NoneAfter' /\ ThreadsApart' /\ SentApart'  BY <2>4, <2>5 DEF NoneAfter, ThreadsApart, SentApart
    <2>8. MailsApart'  BY <2>2 DEF RateInv, MailsApart
    <2>. QED  BY <2>3, <2>6, <2>7, <2>8 DEF RateInv
  <1>. QED  BY <1>1, <1>2, <1>3, <1>4, <1>5

\* Two e-mails of a notification are decided on more than its period apart,
\* whatever the number of threads, unless the insert of one met another between
\* the check and the stamp or the process was restarted between them
\* (getExpiredNotificationDetail, whose times are in memory).
THEOREM RateIsKept == Spec => []RateKept
  <1>1. Init => RateInv
    BY DEF Init, RateInv, Positive, Alone, Later, NoneAfter, ThreadsApart, SentApart, MailsApart,
           Bound, Sent, Idle, At, Noted, Stamped
  <1>2. TypeOK /\ RateInv /\ [Next]_vars => RateInv'
    BY NextSteps, RateThread, RateOther
  <1>3. RateInv => RateKept  BY DEF RateInv, MailsApart, Spaced, RateKept
  <1>. QED  BY <1>1, <1>2, <1>3, TypeCorrect, PTL DEF Spec

-----------------------------------------------------------------------------
(* What a stamp stands for.                                                *)

\* A thread that will look at the map again finds the notification there,
\* unless a refresh has come across it.
Crossed ==
  \A t \in Thread : thread[t].at \in {"stamp", "config"} => mapped \/ thread[t].seen \in crossed

StampInv == StampHonoured /\ Crossed

\* A thread that had stamped nothing leaves the stamps alone.
LEMMA StampLeaves ==
  ASSUME StampInv, NEW t \in Thread, Leaves(t), thread[t].at \notin Stamped,
         UNCHANGED <<lastTime, mails, restarts, mapped, crossed, unsent>>
  PROVE StampInv'
  <1> USE DEF StampInv
  <1>1. \A u \in Thread : thread[u].at \in Stamped => thread'[u] = thread[u]  BY DEF Leaves
  <1>2. StampHonoured'  BY <1>1 DEF StampHonoured
  <1>3. \A u \in Thread : thread'[u].at \in Noted => u # t /\ thread'[u] = thread[u]  BY DEF Leaves
  <1>4. Crossed'  BY <1>3 DEF Crossed, Noted
  <1>. QED  BY <1>2, <1>4

\* A step of an insert keeps the stamps honoured.
LEMMA StampThread ==
  ASSUME TypeOK, StampInv, NEW t \in Thread, ThreadStep(t) PROVE StampInv'
  <1> USE DEF StampInv
  <1>0. ThreadOK  BY DEF TypeOK
  <1>1. CASE Expired(t)
    <2>1. OnlyThread(t, "stamp", thread[t].insert, now)  BY <1>1 DEF Expired, OnlyThread
    <2>2. thread'[t].at = "stamp" /\ \A u \in Thread \ {t} : thread'[u] = thread[u]
      BY <1>0, <2>1, OneMoves
    <2>3. /\ thread[t].at = "notify" /\ mapped
          /\ UNCHANGED <<lastTime, mails, restarts, mapped, crossed, unsent>>
      BY <1>1 DEF Expired, map, clock
    <2>4. StampHonoured'  BY <2>2, <2>3 DEF StampHonoured, Stamped
    <2>5. Crossed'  BY <2>3 DEF Crossed
    <2>. QED  BY <2>4, <2>5
  <1>2. CASE Stamp(t)
    <2>1. OnlyThread(t, "config", thread[t].insert, thread[t].seen)
      BY <1>2 DEF Stamp, OnlyThread, Goto
    <2>2. /\ thread'[t].at = "config" /\ thread'[t].seen = thread[t].seen
          /\ \A u \in Thread \ {t} : thread'[u] = thread[u]
      BY <1>0, <2>1, OneMoves
    <2>3. /\ thread[t].at = "stamp" /\ lastTime' = thread[t].seen
          /\ UNCHANGED <<mails, restarts, mapped, crossed, unsent>>
      BY <1>2 DEF Stamp, map, clock
    <2>4. StampHonoured'  BY <2>2, <2>3 DEF StampHonoured, Stamped
    <2>5. Crossed'  BY <2>2, <2>3 DEF Crossed
    <2>. QED  BY <2>4, <2>5
  <1>3. CASE Config(t)
    <2>0. thread[t].at = "config" /\ UNCHANGED <<lastTime, mails, restarts, mapped, crossed, unsent>>
      BY <1>3 DEF Config, map, notified, clock
    <2>1. ASSUME mapped PROVE StampInv'
      <3>1. OnlyThread(t, "send", thread[t].insert, thread[t].seen)
        BY <1>3, <2>1 DEF Config, OnlyThread, Goto
      <3>2. /\ thread'[t].at = "send" /\ thread'[t].seen = thread[t].seen
            /\ \A u \in Thread \ {t} : thread'[u] = thread[u]
        BY <1>0, <3>1, OneMoves
      <3>3. StampHonoured'  BY <2>0, <3>2 DEF StampHonoured, Stamped
      <3>4. Crossed'  BY <2>0, <2>1 DEF Crossed
      <3>. QED  BY <3>3, <3>4
    <2>2. ASSUME ~mapped PROVE StampInv'
      <3>1. OnlyThread(t, "idle", 0, 0)  BY <1>3, <2>2 DEF Config, OnlyThread, End, Idle
      <3>2. thread'[t].at = "idle" /\ \A u \in Thread \ {t} : thread'[u] = thread[u]
        BY <1>0, <3>1, OneMoves
      <3>3. thread[t].seen \in crossed  BY <2>0, <2>2 DEF Crossed
      <3>4. StampHonoured'  BY <2>0, <3>2, <3>3 DEF StampHonoured
      <3>5. Crossed'  BY <2>0, <3>2 DEF Crossed
      <3>. QED  BY <3>4, <3>5
    <2>. QED  BY <2>1, <2>2
  <1>4. ASSUME SendEmail(t) \/ EmailFails(t) \/ ConfigThrows(t) PROVE StampInv'
    <2>1. OnlyThread(t, "idle", 0, 0) \/ OnlyThread(t, "undo", thread[t].insert, thread[t].seen)
      BY <1>4 DEF SendEmail, EmailFails, ConfigThrows, OnlyThread, Goto, End, Idle
    <2>2. Leaves(t)  BY <1>0, <2>1, OneMoves DEF Leaves, Noted
    <2>3. UNCHANGED <<lastTime, restarts, mapped, crossed>>
      BY <1>4 DEF SendEmail, EmailFails, ConfigThrows, map, clock
    <2>4. mails \subseteq mails' /\ unsent \subseteq unsent'
      BY <1>4 DEF SendEmail, EmailFails, ConfigThrows
    <2>5. (\E n \in mails' : n.decided = thread[t].seen /\ n.life = restarts) \/ thread[t].seen \in unsent'
      <3> DEFINE n == [insert |-> thread[t].insert, decided |-> thread[t].seen, life |-> restarts]
      <3>1. n.decided = thread[t].seen /\ n.life = restarts  OBVIOUS
      <3>2. SendEmail(t) => n \in mails'  BY DEF SendEmail
      <3>3. ~SendEmail(t) => thread[t].seen \in unsent'  BY <1>4 DEF EmailFails, ConfigThrows
      <3>. QED  BY <3>1, <3>2, <3>3
    <2>6. \A u \in Thread \ {t} : thread'[u] = thread[u]  BY <2>2 DEF Leaves
    <2>7. StampHonoured'  BY <2>3, <2>4, <2>5, <2>6 DEF StampHonoured
    <2>8. \A u \in Thread : thread'[u].at \in Noted => u # t /\ thread'[u] = thread[u]
      BY <2>2 DEF Leaves
    <2>9. Crossed'  BY <2>3, <2>8 DEF Crossed, Noted
    <2>. QED  BY <2>7, <2>9
  <1>5. ASSUME ~Expired(t), ~Stamp(t), ~Config(t),
               ~SendEmail(t), ~EmailFails(t), ~ConfigThrows(t)
        PROVE StampInv'
    <2>1. Leaves(t)  BY <1>0, <1>5, StepLeaves
    <2>2. thread[t].at \notin Stamped /\ UNCHANGED <<lastTime, mails, restarts, mapped, crossed, unsent>>
      BY <1>5 DEF ThreadStep, PayloadInsert, PayloadThrows, AuditMalformed, AuditInsert, AuditThrows, ReadBackThrows,
         RemovePayload, RemoveThrows, NoMail, Stamped, map, notified, clock
    <2>. QED  BY <2>1, <2>2, StampLeaves
  <1>. QED  BY <1>1, <1>2, <1>3, <1>4, <1>5

\* No other step dishonours them but those named.
LEMMA StampOther ==
  ASSUME TypeOK, StampInv,
         (\E r \in Replay : ReplayStep(r)) \/ Clear \/ Fill \/ Tick \/ Restart \/ UNCHANGED vars
  PROVE StampInv'
  <1> USE DEF StampInv, StampHonoured, Crossed
  <1>1. ASSUME UNCHANGED <<thread, map, notified, restarts>> PROVE StampInv'  BY <1>1 DEF map, notified
  <1>2. ASSUME NEW r \in Replay, ReplayStep(r) PROVE UNCHANGED <<thread, map, notified, restarts>>
    BY <1>2 DEF ReplayStep, ReadHistory, WriteHistory, HistoryFails, clock
  <1>3. ASSUME Tick \/ UNCHANGED vars PROVE UNCHANGED <<thread, map, notified, restarts>>
    BY <1>3 DEF Tick, vars, clock
  <1>4. CASE Clear
    <2>1. \A t \in Thread : thread[t].at \in {"stamp", "config"} => thread[t].seen \in crossed'
      BY <1>4 DEF Clear
    <2>2. crossed \subseteq crossed' /\ UNCHANGED <<thread, lastTime, mails, restarts, unsent>>
      BY <1>4 DEF Clear, clock
    <2>. QED  BY <2>1, <2>2
  <1>5. CASE Fill
    <2>1. (mapped => mapped') /\ UNCHANGED <<thread, notified, restarts>>  BY <1>5 DEF Fill, clock
    <2>. QED  BY <2>1 DEF notified
  <1>6. CASE Restart
    <2>1. lastTime' = 0 /\ \A t \in Thread : thread'[t].at = "idle"  BY <1>6 DEF Restart, Idle, At
    <2>. QED  BY <2>1
  <1>. QED  BY <1>1, <1>2, <1>3, <1>4, <1>5, <1>6

\* The last stamp stands for an e-mail that went out or is about to, unless the
\* e-mail failed or a refresh emptied the map in between.
THEOREM StampsAreHonoured == Spec => []StampHonoured
  <1>1. Init => StampInv  BY DEF Init, StampInv, StampHonoured, Crossed, Idle, At
  <1>2. TypeOK /\ StampInv /\ [Next]_vars => StampInv'
    BY NextSteps, StampThread, StampOther
  <1>3. StampInv => StampHonoured  BY DEF StampInv
  <1>. QED  BY <1>1, <1>2, <1>3, TypeCorrect, PTL DEF Spec


-----------------------------------------------------------------------------
(* Tokens: the cache of tokens keeps what the answers promise.             *)

\* The place of one thread changes, those of the others stay.
LEMMA TokenGoto ==
  ASSUME T!TypeOK, NEW t \in Thread, NEW q, T!Goto(t, q)
  PROVE  client'[t] = q /\ \A u \in Thread \ {t} : client'[u] = client[u]
  BY DEF T!TypeOK, T!Goto

\* Where a thread may be.
TokenPlace == {"idle", "compare", "inject", "put", "answer"}
TokenThread ==
  [at : TokenPlace, credential : T!Credential, token : 0..MaxTokens, read : 0..MaxMinutes]

\* The values a token may have, zero among them.
LEMMA TokenPlaces ==
  ASSUME TokensAssumption, T!TypeOK
  PROVE  /\ 0 \in T!Credential /\ 0 \in 0..MaxTokens /\ 0 \in 0..MaxMinutes
         /\ T!Cached \in 0..MaxTokens /\ minutes \in 0..MaxMinutes
         /\ T!Token \subseteq 0..MaxTokens
  BY DEF TokensAssumption, T!TypeOK, T!At, T!Credential, T!Token, T!Cached

\* A step that sends one thread elsewhere keeps the type of the threads.
LEMMA TokenGotoType ==
  ASSUME T!TypeOK, NEW t \in Thread, NEW place \in TokenPlace,
         NEW c \in T!Credential, NEW k \in 0..MaxTokens, NEW time \in 0..MaxMinutes,
         T!Goto(t, T!At(place, c, k, time))
  PROVE  client' \in [Thread -> TokenThread]
  <1> DEFINE q == T!At(place, c, k, time)
  <1>1. q \in TokenThread BY DEF T!At, TokenThread
  <1> HIDE DEF q
  <1>2. client' = [client EXCEPT ![t] = q] BY DEF T!Goto, q
  <1> QED BY <1>1, <1>2 DEF T!TypeOK, TokenThread, TokenPlace

\* The types of the tokens, of the next state.
LEMMA TokenTypeParts ==
  ASSUME token' \in 0..MaxTokens, touched' \in 0..MaxMinutes, issued' \in 0..MaxTokens,
         minutes' \in 0..MaxMinutes, client' \in [Thread -> TokenThread],
         stated' \in [T!Token -> 0..MaxMinutes + Ttl],
         refused' \subseteq T!Token, revoked' \subseteq T!Token, rivals' \subseteq T!Token,
         slow' \subseteq T!Token
  PROVE  T!TypeOK'
  BY DEF T!TypeOK, TokenThread, TokenPlace, T!Credential, T!Token

\* The types of the tokens, of this state.
LEMMA TokenParts ==
  ASSUME T!TypeOK
  PROVE  /\ token \in 0..MaxTokens /\ touched \in 0..MaxMinutes /\ issued \in 0..MaxTokens
         /\ minutes \in 0..MaxMinutes /\ client \in [Thread -> TokenThread]
         /\ stated \in [T!Token -> 0..MaxMinutes + Ttl]
         /\ refused \subseteq T!Token /\ revoked \subseteq T!Token /\ rivals \subseteq T!Token
         /\ slow \subseteq T!Token
  BY DEF T!TypeOK, TokenThread, TokenPlace

\* Every step of the tokens keeps their types.
LEMMA TokenTypes ==
  ASSUME TokensAssumption, T!TypeOK, T!OnlyIssued, [T!Next]_(T!vars)
  PROVE  T!TypeOK'
  <1> USE TokenPlaces, TokenParts DEF TokenPlace
  <1>1. ASSUME NEW t \in Thread, NEW c \in T!Credential, T!OnlyPassword(t, c)
        PROVE  client' \in [Thread -> TokenThread] /\ refused' \subseteq T!Token
    <2>1. client' \in [Thread -> TokenThread] BY <1>1, TokenGotoType DEF T!OnlyPassword, T!End, T!Idle
    <2>2. refused' \subseteq T!Token BY <1>1 DEF T!OnlyPassword, T!Refuse
    <2> QED BY <2>1, <2>2
  <1>2. T!Touch => touched' \in 0..MaxMinutes BY DEF T!Touch
  <1>3. ASSUME NEW t \in Thread, NEW c \in {Password} \cup 1..issued, T!Verify(t, c)
        PROVE  T!TypeOK'
    <2>1. c \in T!Credential BY DEF T!Credential, T!Token, TokensAssumption
    <2>2. client' \in [Thread -> TokenThread] /\ refused' \subseteq T!Token
      <3>1. CASE T!Cached = 0 BY <1>1, <1>3, <2>1, <3>1 DEF T!Verify
      <3>2. CASE T!Cached # 0
        BY <1>3, <2>1, <3>2, TokenGotoType DEF T!Verify
      <3> QED BY <3>1, <3>2
    <2>3. T!Touch /\ UNCHANGED <<token, issued, minutes, stated, revoked, rivals, slow>>
      BY <1>3 DEF T!Verify
    <2> QED BY <1>2, <2>2, <2>3, TokenTypeParts
  <1>4. ASSUME NEW t \in Thread, T!VerifyToken(t) PROVE T!TypeOK'
    <2> DEFINE c == client[t].credential
    <2>1. c \in T!Credential BY DEF TokenThread
    <2> HIDE DEF c
    <2>2. /\ T!Touch /\ UNCHANGED <<token, issued, minutes, stated, revoked, rivals, slow>>
          /\ \/ T!End(t) /\ T!Refuse(c)
             \/ T!Goto(t, T!At("inject", 0, 0, 0)) /\ UNCHANGED refused
             \/ T!OnlyPassword(t, c)
      BY <1>4 DEF T!VerifyToken, c
    <2>3. client' \in [Thread -> TokenThread] /\ refused' \subseteq T!Token
      <3>1. CASE T!OnlyPassword(t, c) BY <1>1, <2>1, <3>1
      <3>2. CASE T!End(t) /\ T!Refuse(c)
        BY <3>2, TokenGotoType DEF T!End, T!Idle, T!Refuse
      <3>3. CASE T!Goto(t, T!At("inject", 0, 0, 0)) /\ UNCHANGED refused
        BY <3>3, TokenGotoType
      <3> QED BY <2>2, <3>1, <3>2, <3>3
    <2> QED BY <1>2, <2>2, <2>3, TokenTypeParts
  <1>5. ASSUME NEW t \in Thread, T!CacheSessionToken(t) PROVE T!TypeOK'
    <2>1. client' \in [Thread -> TokenThread]
      <3>1. CASE T!Cached = 0 BY <1>5, <3>1, TokenGotoType DEF T!CacheSessionToken
      <3>2. CASE T!Cached # 0 BY <1>5, <3>2, TokenGotoType DEF T!CacheSessionToken
      <3> QED BY <3>1, <3>2
    <2>2. T!Touch /\ UNCHANGED <<token, issued, minutes, stated, refused, revoked, rivals, slow>>
      BY <1>5 DEF T!CacheSessionToken, T!history
    <2> QED BY <1>2, <2>1, <2>2, TokenTypeParts
  <1>6. ASSUME NEW t \in Thread, T!Put(t) PROVE T!TypeOK'
    <2>1. issued' \in 1..MaxTokens BY <1>6 DEF T!Put, TokensAssumption
    <2>2. client' \in [Thread -> TokenThread] BY <1>6, <2>1, TokenGotoType DEF T!Put
    <2>3. rivals' \subseteq T!Token BY <1>6, <2>1 DEF T!Put, T!Token
    <2>4. token' = issued' /\ touched' = minutes /\ UNCHANGED <<minutes, stated, refused, revoked, slow>>
      BY <1>6 DEF T!Put
    <2> QED BY <2>1, <2>2, <2>3, <2>4, TokenTypeParts
  <1>7. ASSUME NEW t \in Thread, T!InjectTokenHeaders(t) PROVE T!TypeOK'
    <2>1. client' \in [Thread -> TokenThread]
      BY <1>7, TokenGotoType DEF T!InjectTokenHeaders, T!End, T!Idle
    <2>2. client[t].token \in T!Token
      BY <1>7 DEF T!InjectTokenHeaders, T!OnlyIssued, T!Token, TokensAssumption
    <2>3. stated' \in [T!Token -> 0..MaxMinutes + Ttl]
      <3>1. minutes + Ttl \in 0..MaxMinutes + Ttl BY DEF TokensAssumption
      <3> QED BY <1>7, <3>1 DEF T!InjectTokenHeaders
    <2>4. slow' \subseteq T!Token BY <1>7, <2>2 DEF T!InjectTokenHeaders
    <2>5. UNCHANGED <<token, touched, issued, minutes, refused, revoked, rivals>>
      BY <1>7 DEF T!InjectTokenHeaders
    <2> QED BY <2>1, <2>3, <2>4, <2>5, TokenTypeParts
  <1>8. ASSUME NEW t \in Thread, T!Invalidate(t) PROVE T!TypeOK'
    <2>1. client' \in [Thread -> TokenThread] BY <1>8, TokenGotoType DEF T!Invalidate, T!End, T!Idle
    <2>2. revoked' \subseteq T!Token BY <1>8 DEF T!Invalidate, T!Token, TokensAssumption
    <2>3. token' = 0 /\ UNCHANGED <<touched, issued, minutes, stated, refused, rivals, slow>>
      BY <1>8 DEF T!Invalidate
    <2> QED BY <2>1, <2>2, <2>3, TokenTypeParts
  <1>9. CASE T!Tick
    <2>1. minutes' \in 0..MaxMinutes BY <1>9 DEF T!Tick, TokensAssumption
    <2>2. UNCHANGED <<token, touched, issued, client, stated, refused, revoked, rivals, slow>>
      BY <1>9 DEF T!Tick, T!history
    <2> QED BY <2>1, <2>2, TokenTypeParts
  <1>10. CASE T!Restart
    <2>1. T!Idle \in TokenThread BY DEF T!Idle, T!At, TokenThread
    <2>2. client' \in [Thread -> TokenThread] BY <1>10, <2>1 DEF T!Restart
    <2>3. revoked' \subseteq T!Token BY <1>10 DEF T!Restart, T!Token, TokensAssumption
    <2>4. token' = 0 /\ UNCHANGED <<touched, issued, minutes, stated, refused, rivals, slow>>
      BY <1>10 DEF T!Restart
    <2> QED BY <2>2, <2>3, <2>4, TokenTypeParts
  <1>11. CASE UNCHANGED T!vars
    BY <1>11, TokenTypeParts DEF T!vars, T!history
  <1> QED BY <1>3, <1>4, <1>5, <1>6, <1>7, <1>8, <1>9, <1>10, <1>11 DEF T!Next
TokenFacts ==
  T!OnlyIssued /\ T!StatedIsCached /\ T!ReadIsCached /\ T!StorerFoundNone /\ T!TokensHonoured

\* Look-ups: an entry that is read expires later, and a credential is refused
\* that is not the cached one.
LEMMA TouchKeeps ==
  ASSUME TokensAssumption, T!TypeOK, TokenFacts, NEW t \in Thread, T!Touch,
         UNCHANGED <<token, issued, minutes, stated, revoked, rivals, slow>>,
         \A u \in Thread \ {t} : client'[u] = client[u],
         client'[t].at = "put" => T!Cached = 0,
         client'[t].at = "answer" =>
           client'[t].token = T!Cached /\ T!Cached # 0 /\ client'[t].read = minutes,
         \A k \in refused' \ refused : k \in T!Token /\ minutes < stated[k] /\ k # T!Cached
  PROVE  TokenFacts'
  <1> USE TokenParts DEF TokenFacts, TokensAssumption
  <1>1. /\ touched' \in 0..MaxMinutes /\ touched <= touched' /\ touched' <= minutes
        /\ T!Cached # 0 => token = T!Cached /\ touched' = minutes
        /\ T!Cached = 0 => touched' = touched
    BY DEF T!Touch, T!Cached, T!OnlyIssued
  <1>2. T!Cached' = T!Cached
    BY <1>1 DEF T!Cached
  <1>3. T!OnlyIssued'
    <2>1. \A u \in Thread : client'[u].at = "answer" =>
            client'[u].token \in 1..issued /\ client'[u].read <= minutes
      BY <1>1 DEF T!OnlyIssued
    <2> QED BY <1>1, <2>1 DEF T!OnlyIssued, T!Token
  <1>4. T!StatedIsCached'
    BY <1>1 DEF T!StatedIsCached, T!Token
  <1>5. T!ReadIsCached'
    BY <1>1 DEF T!ReadIsCached, T!OnlyIssued
  <1>6. T!StorerFoundNone'
    BY <1>2 DEF T!StorerFoundNone
  <1>7. T!TokensHonoured'
    <2>1. ASSUME NEW k \in T!Token \ (revoked \cup rivals \cup slow), minutes < stated[k]
          PROVE  k = T!Cached
      BY <2>1 DEF T!StatedIsCached, T!Cached
    <2> QED BY <2>1 DEF T!TokensHonoured
  <1> QED BY <1>3, <1>4, <1>5, <1>6, <1>7
\* A request that does not find the token cached leaves what is known of tokens.
LEMMA PasswordKeeps ==
  ASSUME TokensAssumption, T!TypeOK, TokenFacts, NEW t \in Thread, NEW c, T!Touch,
         UNCHANGED <<token, issued, minutes, stated, revoked, rivals, slow>>,
         \/ T!OnlyPassword(t, c) /\ c # T!Cached
         \/ T!End(t) /\ T!Refuse(c) /\ c # T!Cached
         \/ T!Goto(t, T!At("inject", 0, 0, 0)) /\ UNCHANGED refused
         \/ T!Goto(t, T!At("compare", c, 0, 0)) /\ UNCHANGED refused
  PROVE  TokenFacts'
  <1>1. PICK q : T!Goto(t, q) /\ q.at \in {"idle", "inject", "compare"}
    BY DEF T!OnlyPassword, T!End, T!Idle, T!At
  <1>2. client'[t].at \notin {"put", "answer"} /\ \A u \in Thread \ {t} : client'[u] = client[u]
    BY <1>1, TokenGoto
  <1>3. \A k \in refused' \ refused : k \in T!Token /\ minutes < stated[k] /\ k # T!Cached
    BY DEF T!OnlyPassword, T!Refuse
  <1> QED BY <1>2, <1>3, TouchKeeps

\* The look-ups of a request keep what is known of tokens.
LEMMA LookUpKeeps ==
  ASSUME TokensAssumption, T!TypeOK, TokenFacts, NEW t \in Thread,
         \/ \E c \in {Password} \cup 1..issued : T!Verify(t, c)
         \/ T!VerifyToken(t) \/ T!CacheSessionToken(t)
  PROVE  TokenFacts'
  <1>1. ASSUME NEW c \in {Password} \cup 1..issued, T!Verify(t, c) PROVE TokenFacts'
    <2>1. T!Touch /\ UNCHANGED <<token, issued, minutes, stated, revoked, rivals, slow>>
      BY <1>1 DEF T!Verify
    <2>2. CASE T!Cached = 0 /\ c = 0
      <3>1. c = Password BY <2>2, TokenParts
      <3>2. T!Goto(t, T!At("inject", 0, 0, 0)) /\ UNCHANGED refused
        BY <1>1, <2>2, <3>1 DEF T!Verify, T!OnlyPassword
      <3> QED BY <2>1, <3>2, PasswordKeeps
    <2>3. CASE T!Cached = 0 /\ c # 0
      <3>1. T!OnlyPassword(t, c) /\ c # T!Cached BY <1>1, <2>3 DEF T!Verify
      <3> QED BY <2>1, <3>1, PasswordKeeps
    <2>4. CASE T!Cached # 0
      <3>1. T!Goto(t, T!At("compare", c, 0, 0)) /\ UNCHANGED refused BY <1>1, <2>4 DEF T!Verify
      <3> QED BY <2>1, <3>1, PasswordKeeps
    <2> QED BY <2>2, <2>3, <2>4
  <1>2. CASE T!VerifyToken(t)
    <2> DEFINE c == client[t].credential
    <2>1. /\ T!Touch /\ UNCHANGED <<token, issued, minutes, stated, revoked, rivals, slow>>
          /\ \/ T!End(t) /\ T!Refuse(c) /\ T!Cached = 0
             \/ T!Goto(t, T!At("inject", 0, 0, 0)) /\ UNCHANGED refused
             \/ T!OnlyPassword(t, c) /\ c # T!Cached
      BY <1>2 DEF T!VerifyToken
    <2> HIDE DEF c
    <2>2. CASE T!End(t) /\ T!Refuse(c) /\ T!Cached = 0 /\ c = 0
      <3>1. refused' = refused
        <4>1. 0 \notin T!Token BY DEF T!Token
        <4> QED BY <2>2, <4>1 DEF T!Refuse
      <3>2. T!Goto(t, T!Idle) BY <2>2 DEF T!End
      <3>3. client'[t].at = "idle" /\ \A u \in Thread \ {t} : client'[u] = client[u]
        BY <3>2, TokenGoto DEF T!Idle, T!At
      <3> QED BY <2>1, <3>1, <3>3, TouchKeeps
    <2>3. CASE T!End(t) /\ T!Refuse(c) /\ T!Cached = 0 /\ c # 0
      BY <2>1, <2>3, PasswordKeeps
    <2> QED BY <2>1, <2>2, <2>3, PasswordKeeps
  <1>3. CASE T!CacheSessionToken(t)
    <2>1. /\ T!Touch /\ UNCHANGED <<token, issued, minutes, stated, refused, revoked, rivals, slow>>
          /\ T!Goto(t, T!At(IF T!Cached = 0 THEN "put" ELSE "answer", 0, T!Cached, minutes))
      BY <1>3 DEF T!CacheSessionToken, T!history
    <2>2. /\ client'[t] = T!At(IF T!Cached = 0 THEN "put" ELSE "answer", 0, T!Cached, minutes)
          /\ \A u \in Thread \ {t} : client'[u] = client[u]
      BY <2>1, TokenGoto
    <2>3. /\ client'[t].at = "put" => T!Cached = 0
          /\ client'[t].at = "answer" =>
               client'[t].token = T!Cached /\ T!Cached # 0 /\ client'[t].read = minutes
      BY <2>2 DEF T!At
    <2> QED BY <2>1, <2>2, <2>3, TouchKeeps
  <1> QED BY <1>1, <1>2, <1>3

\* A token is stored where none was found; it is the only one valid by then.
LEMMA PutKeeps ==
  ASSUME TokensAssumption, T!TypeOK, TokenFacts, NEW t \in Thread, T!Put(t)
  PROVE  TokenFacts'
  <1> USE TokenParts DEF TokenFacts, TokensAssumption
  <1>1. /\ client[t].at = "put" /\ issued' = issued + 1 /\ token' = issued'
        /\ touched' = minutes /\ UNCHANGED <<minutes, stated, refused, revoked, slow>>
        /\ rivals' = rivals \cup {k \in {issued'} : \E u \in Thread \ {t} : client[u].at = "put"}
        /\ T!Goto(t, T!At("answer", 0, issued', minutes)) /\ issued < MaxTokens
    BY DEF T!Put
  <1>2. /\ client'[t] = T!At("answer", 0, issued', minutes)
        /\ \A u \in Thread \ {t} : client'[u] = client[u]
    BY <1>1, TokenGoto
  <1>3. client'[t].at = "answer" /\ client'[t].token = issued' /\ client'[t].read = minutes
    BY <1>2 DEF T!At
  <1>4. T!Cached \in rivals \cup {0}
    BY <1>1 DEF T!StorerFoundNone
  <1>5. \A k \in T!Token \ (revoked \cup rivals \cup slow) : ~(minutes < stated[k])
    BY <1>4 DEF T!StatedIsCached, T!Cached, T!Token
  <1>6. T!OnlyIssued'
    <2>1. \A u \in Thread : client'[u].at = "answer" =>
            client'[u].token \in 1..issued' /\ client'[u].read <= minutes
      BY <1>1, <1>2, <1>3 DEF T!OnlyIssued
    <2>2. revoked' \subseteq 1..issued' BY <1>1 DEF T!OnlyIssued
    <2>3. \A k \in T!Token : k > issued' => stated'[k] = 0
      BY <1>1 DEF T!OnlyIssued, T!Token
    <2> QED BY <1>1, <2>1, <2>2, <2>3 DEF T!OnlyIssued, T!Token
  <1>7. T!StatedIsCached'
    BY <1>1, <1>5 DEF T!StatedIsCached, T!Token
  <1>8. T!ReadIsCached'
    <2>1. ASSUME NEW u \in Thread \ {t}, client[u].at = "answer", client[u].read = minutes,
                 client[u].token \notin revoked \cup rivals
          PROVE  FALSE
      BY <1>4, <2>1 DEF T!ReadIsCached, T!OnlyIssued, T!Cached
    <2> QED BY <1>1, <1>2, <1>3, <2>1 DEF T!ReadIsCached
  <1>9. T!StorerFoundNone'
    <2>1. T!Cached' \in {0, issued'}
      BY <1>1 DEF T!Cached
    <2>2. (\E u \in Thread : client'[u].at = "put") => issued' \in rivals'
      BY <1>1, <1>2, <1>3
    <2> QED BY <2>1, <2>2 DEF T!StorerFoundNone
  <1>10. T!TokensHonoured'
    BY <1>1 DEF T!TokensHonoured
  <1> QED BY <1>6, <1>7, <1>8, <1>9, <1>10
\* What an answer states is what the cache does, if the token is cached still and no
\* time has passed.
LEMMA AnswerKeeps ==
  ASSUME TokensAssumption, T!TypeOK, TokenFacts, NEW t \in Thread,
         T!InjectTokenHeaders(t) \/ T!Invalidate(t)
  PROVE  TokenFacts'
  <1> USE TokenParts DEF TokenFacts, TokensAssumption
  <1>1. /\ client[t].at = "answer" /\ T!Goto(t, T!Idle)
        /\ UNCHANGED <<touched, issued, minutes, refused, rivals>>
    BY DEF T!InjectTokenHeaders, T!Invalidate, T!End
  <1>2. /\ client'[t].at = "idle"
        /\ \A u \in Thread \ {t} : client'[u] = client[u]
    BY <1>1, TokenGoto DEF T!Idle, T!At
  <1>3. \A u \in Thread : client'[u].at = "answer" =>
            client'[u].token \in 1..issued /\ client'[u].read <= minutes
    BY <1>2 DEF T!OnlyIssued
  <1>4. CASE T!InjectTokenHeaders(t)
    <2> DEFINE k == client[t].token
    <2>1. k \in 1..issued /\ k \in T!Token /\ client[t].read <= minutes
      BY <1>1 DEF T!OnlyIssued, T!Token
    <2>2. /\ stated' = [stated EXCEPT ![k] = minutes + Ttl]
          /\ slow' = slow \cup {j \in {k} : client[t].read < minutes}
          /\ UNCHANGED <<token, revoked>>
      BY <1>4 DEF T!InjectTokenHeaders
    <2>3. client[t].read \in 0..MaxMinutes
      BY DEF TokenThread
    <2>4. k \in revoked \cup rivals \cup slow' \/ (token = k /\ touched = minutes)
      BY <1>1, <2>1, <2>2, <2>3 DEF T!ReadIsCached
    <2> HIDE DEF k
    <2>5. stated'[k] = minutes + Ttl /\ \A j \in T!Token \ {k} : stated'[j] = stated[j]
      BY <2>1, <2>2
    <2>6. T!OnlyIssued'
      <3>1. \A j \in T!Token : j > issued' => stated'[j] = 0
        BY <1>1, <2>1, <2>5 DEF T!OnlyIssued, T!Token
      <3> QED BY <1>1, <1>3, <2>2, <3>1 DEF T!OnlyIssued, T!Token
    <2>7. T!StatedIsCached'
      <3>1. ASSUME NEW j \in T!Token \ (revoked \cup rivals \cup slow'), minutes < stated'[j]
            PROVE  token = j /\ stated'[j] <= touched + Ttl
        <4>1. CASE j = k BY <2>4, <2>5, <3>1, <4>1
        <4>2. CASE j # k BY <2>2, <2>5, <3>1, <4>2 DEF T!StatedIsCached
        <4> QED BY <4>1, <4>2
      <3> QED BY <1>1, <2>2, <3>1 DEF T!StatedIsCached, T!Token
    <2>8. T!ReadIsCached'
      BY <1>1, <1>2, <2>2 DEF T!ReadIsCached
    <2>9. T!StorerFoundNone'
      BY <1>1, <1>2, <2>2 DEF T!StorerFoundNone, T!Cached
    <2>10. T!TokensHonoured'
      BY <1>1, <2>2 DEF T!TokensHonoured
    <2> QED BY <2>6, <2>7, <2>8, <2>9, <2>10
  <1>5. CASE T!Invalidate(t)
    <2>1. token' = 0 /\ revoked' = revoked \cup ({token} \ {0}) /\ UNCHANGED <<stated, slow>>
      BY <1>5 DEF T!Invalidate
    <2>2. T!OnlyIssued'
      <3>1. revoked' \subseteq 1..issued
        <4>1. revoked \subseteq 1..issued /\ (token # 0 => token \in 1..issued)
          BY DEF T!OnlyIssued
        <4> QED BY <2>1, <4>1
      <3>2. touched <= minutes /\ \A k \in T!Token : k > issued => stated[k] = 0
        BY DEF T!OnlyIssued
      <3>3. 0 <= issued OBVIOUS
      <3> QED BY <1>1, <1>3, <2>1, <3>1, <3>2, <3>3 DEF T!OnlyIssued, T!Token
    <2>3. T!StatedIsCached'
      BY <1>1, <2>1 DEF T!StatedIsCached, T!Token
    <2>4. T!ReadIsCached'
      <3>1. ASSUME NEW u \in Thread \ {t}, client[u].at = "answer", client[u].read = minutes,
                   client[u].token \notin revoked' \cup rivals
            PROVE  FALSE
        BY <2>1, <3>1 DEF T!ReadIsCached, T!OnlyIssued
      <3> QED BY <1>1, <1>2, <3>1 DEF T!ReadIsCached
    <2>5. T!StorerFoundNone'
      BY <2>1 DEF T!StorerFoundNone, T!Cached
    <2>6. T!TokensHonoured'
      BY <1>1, <2>1 DEF T!TokensHonoured
    <2> QED BY <2>2, <2>3, <2>4, <2>5, <2>6
  <1> QED BY <1>4, <1>5

\* Time passes, or the process ends and the cache with it.
LEMMA TokenSystemKeeps ==
  ASSUME TokensAssumption, T!TypeOK, TokenFacts, T!Tick \/ T!Restart \/ UNCHANGED T!vars
  PROVE  TokenFacts'
  <1> USE TokenParts DEF TokenFacts, TokensAssumption
  <1>1. CASE T!Tick
    <2>1. minutes' = minutes + 1 /\ UNCHANGED <<token, touched, issued, client, stated, refused, revoked, rivals, slow>>
      BY <1>1 DEF T!Tick, T!history
    <2>2. T!OnlyIssued'
      <3>1. \A u \in Thread : client[u].at = "answer" =>
              client[u].token \in 1..issued /\ client[u].read <= minutes + 1
        BY DEF T!OnlyIssued, TokenThread
      <3>2. touched <= minutes + 1 /\ token <= issued /\ revoked \subseteq 1..issued
        BY DEF T!OnlyIssued
      <3>3. \A k \in T!Token : k > issued => stated[k] = 0
        BY DEF T!OnlyIssued
      <3>4. \A u \in Thread : client'[u].at = "answer" =>
              client'[u].token \in 1..issued' /\ client'[u].read <= minutes'
        BY <2>1, <3>1
      <3> QED BY <2>1, <3>2, <3>3, <3>4 DEF T!OnlyIssued, T!Token
    <2>3. T!StatedIsCached'
      BY <2>1 DEF T!StatedIsCached, T!Token
    <2>4. T!ReadIsCached'
      <3>1. ASSUME NEW u \in Thread, client[u].at = "answer" PROVE client[u].read # minutes + 1
        BY <3>1 DEF T!OnlyIssued, TokenThread
      <3> QED BY <2>1, <3>1 DEF T!ReadIsCached
    <2>5. T!Cached' \in {0, T!Cached}
      BY <2>1 DEF T!Cached
    <2>6. T!StorerFoundNone' /\ T!TokensHonoured'
      BY <2>1, <2>5 DEF T!StorerFoundNone, T!TokensHonoured
    <2> QED BY <2>2, <2>3, <2>4, <2>6
  <1>2. CASE T!Restart
    <2>1. /\ token' = 0 /\ client' = [u \in Thread |-> T!Idle] /\ revoked' = 1..issued
          /\ UNCHANGED <<touched, issued, minutes, stated, refused, rivals, slow>>
      BY <1>2 DEF T!Restart
    <2>2. \A u \in Thread : client'[u].at = "idle"
      BY <2>1 DEF T!Idle, T!At
    <2>3. T!OnlyIssued'
      BY <2>1, <2>2 DEF T!OnlyIssued, T!Token
    <2>4. T!StatedIsCached'
      <3>1. \A k \in T!Token \ revoked' : stated[k] = 0
        BY <2>1 DEF T!OnlyIssued, T!Token
      <3> QED BY <2>1, <3>1 DEF T!StatedIsCached, T!Token
    <2>5. T!ReadIsCached' /\ T!StorerFoundNone'
      BY <2>2 DEF T!ReadIsCached, T!StorerFoundNone
    <2>6. T!TokensHonoured'
      BY <2>1 DEF T!TokensHonoured, T!OnlyIssued
    <2> QED BY <2>3, <2>4, <2>5, <2>6
  <1>3. CASE UNCHANGED T!vars
    <2>1. UNCHANGED <<token, touched, issued, client, minutes, stated, refused, revoked, rivals, slow>>
      BY <1>3 DEF T!vars, T!history
    <2> QED BY <2>1 DEF T!OnlyIssued, T!StatedIsCached, T!ReadIsCached, T!StorerFoundNone,
                        T!TokensHonoured, T!Token, T!Cached
  <1> QED BY <1>1, <1>2, <1>3

\* Every step of the tokens keeps their invariant.
LEMMA TokenInvStep ==
  ASSUME TokensAssumption, T!TypeOK, TokenFacts, [T!Next]_(T!vars)
  PROVE  T!TypeOK' /\ TokenFacts'
  <1>1. T!TypeOK' BY TokenTypes DEF TokenFacts
  <1>2. TokenFacts'
    <2>1. ASSUME NEW t \in Thread, T!Put(t) PROVE TokenFacts' BY <2>1, PutKeeps
    <2>2. ASSUME NEW t \in Thread, T!InjectTokenHeaders(t) \/ T!Invalidate(t) PROVE TokenFacts'
      BY <2>2, AnswerKeeps
    <2>3. ASSUME NEW t \in Thread,
                 \/ \E c \in {Password} \cup 1..issued : T!Verify(t, c)
                 \/ T!VerifyToken(t) \/ T!CacheSessionToken(t)
          PROVE TokenFacts'
      BY <2>3, LookUpKeeps
    <2> QED BY <2>1, <2>2, <2>3, TokenSystemKeeps DEF T!Next
  <1> QED BY <1>1, <1>2

\* It holds at first.
LEMMA TokenInvInit == ASSUME TokensAssumption, T!Init PROVE T!TypeOK /\ TokenFacts
  <1> USE DEF T!Init, TokensAssumption
  <1>1. T!Idle \in TokenThread BY DEF T!Idle, T!At, TokenThread, TokenPlace, T!Credential
  <1>2. T!TypeOK BY <1>1 DEF T!TypeOK, TokenThread, TokenPlace, T!Token
  <1>3. \A u \in Thread : client[u].at = "idle" BY DEF T!Idle, T!At
  <1>4. T!OnlyIssued BY <1>3 DEF T!OnlyIssued, T!Token
  <1>5. T!StatedIsCached BY DEF T!StatedIsCached, T!Token
  <1>6. T!ReadIsCached /\ T!StorerFoundNone /\ T!TokensHonoured
    BY <1>3 DEF T!ReadIsCached, T!StorerFoundNone, T!TokensHonoured
  <1> QED BY <1>2, <1>4, <1>5, <1>6 DEF TokenFacts

TokensInv == T!TypeOK /\ TokenFacts

\* It holds in every behaviour.
LEMMA TokensAlways == MCSpec => []TokensInv
  <1>1. MCInit => TokensInv
    BY TokenInvInit, TokensAssumption DEF MCInit, TokensInv
  <1>2. TokensInv /\ [MCNext]_<<busy, vars, jobVars, tokenVars>> => TokensInv'
    <2> SUFFICES ASSUME TokensInv, [MCNext]_<<busy, vars, jobVars, tokenVars>> PROVE TokensInv'
      OBVIOUS
    <2>1. [T!Next]_(T!vars)
      BY DEF MCNext, tokenVars, T!vars, T!history
    <2> QED BY <2>1, TokenInvStep, TokensAssumption DEF TokensInv
  <1> QED BY <1>1, <1>2, PTL DEF MCSpec

\* For any number of threads and any time to live a token is accepted as long as its
\* answers stated, unless it was revoked, lost in a restart, stored in a race or
\* answered late (AuthTokenIdentityManager, AuthTokenInjecterHandler).
THEOREM TokensAreHonoured == MCSpec => []TokensHonoured
  <1>1. TokensInv => TokensHonoured BY DEF TokensInv, TokenFacts, TokensHonoured
  <1> QED BY <1>1, TokensAlways, PTL

-----------------------------------------------------------------------------
(* ReportJobs: the scheduler mails what is stored.                         *)

JobPlace == {"idle", "find", "insert", "update", "delete", "check", "replace", "schedule",
             "start", "read", "stopped"}
JobRequest ==
  [at : JobPlace, job : [report : Report \cup {NoReport}, version : R!Version],
   found : R!Version, todo : SUBSET [report : Report, version : R!Version]]

\* The types of the reports and their jobs, of this state.
LEMMA JobParts ==
  ASSUME R!TypeOK
  PROVE  /\ docs \in [Report -> R!Version] /\ jobs \in [Report -> R!Version]
         /\ up \in BOOLEAN /\ scheduler \in BOOLEAN /\ versions \in R!Version
         /\ met \subseteq Report /\ request \in [Replay -> JobRequest]
  BY DEF R!TypeOK, JobRequest, JobPlace

\* The same, of the next state.
LEMMA JobTypeParts ==
  ASSUME docs' \in [Report -> R!Version], jobs' \in [Report -> R!Version],
         up' \in BOOLEAN, scheduler' \in BOOLEAN, versions' \in R!Version,
         met' \subseteq Report, request' \in [Replay -> JobRequest]
  PROVE  R!TypeOK'
  BY DEF R!TypeOK, JobRequest, JobPlace, R!Version

\* A request that goes on is where it says, and the others stay.
LEMMA JobGoto ==
  ASSUME R!TypeOK, NEW t \in Replay, NEW q, R!Goto(t, q)
  PROVE  /\ request'[t] = q /\ \A u \in Replay \ {t} : request'[u] = request[u]
         /\ q \in JobRequest => request' \in [Replay -> JobRequest]
  BY JobParts DEF R!Goto

\* The places a request may be at.
LEMMA JobPlaces ==
  ASSUME ReportsAssumption
  PROVE  /\ R!Idle \in JobRequest /\ R!Nothing \in [Report -> R!Version] /\ 0 \in R!Version
         /\ \A place \in JobPlace : \A todo \in SUBSET [report : Report, version : R!Version] :
              \A job \in [report : Report \cup {NoReport}, version : R!Version] :
                \A found \in R!Version : R!At(place, job, found, todo) \in JobRequest
         /\ \A place \in JobPlace : \A q \in JobRequest : [q EXCEPT !.at = place] \in JobRequest
  BY DEF ReportsAssumption, R!Idle, R!NoJob, R!Job, R!At, R!Nothing, R!Version, JobRequest, JobPlace

\* Going on with the loop, or to its end.
LEMMA JobContinue ==
  ASSUME ReportsAssumption, R!TypeOK, NEW t \in Replay, R!Continue(t)
  PROVE  request' \in [Replay -> JobRequest]
  <1> DEFINE todo == request[t].todo
  <1>1. todo \subseteq [report : Report, version : R!Version] BY JobParts DEF JobRequest
  <1>2. CASE todo = {}
    <2>1. R!Goto(t, R!Idle) BY <1>2 DEF R!Continue, R!End
    <2> QED BY <2>1, JobGoto, JobPlaces
  <1>3. CASE todo # {}
    <2>1. PICK j \in todo : R!Goto(t, R!At("check", j, 0, todo \ {j}))
      BY <1>3 DEF R!Continue
    <2>2. j \in [report : Report \cup {NoReport}, version : R!Version]
      BY <1>1
    <2>3. R!At("check", j, 0, todo \ {j}) \in JobRequest
      BY <1>1, <2>2, JobPlaces DEF JobPlace
    <2> QED BY <2>1, <2>3, JobGoto
  <1> QED BY <1>2, <1>3
\* The reports of all threads are reports.
LEMMA JobOthers ==
  ASSUME R!TypeOK, R!Placed, NEW t \in Replay
  PROVE  R!Others(t) \subseteq Report /\ R!Left(t) \subseteq Report \cup {request[t].job.report}
  <1>1. ASSUME NEW u \in Replay PROVE R!About(u) \subseteq Report
    BY DEF R!About, R!Busy, R!Starting, R!Placed
  <1>2. R!Others(t) \subseteq Report BY <1>1 DEF R!Others
  <1>3. request[t].todo \subseteq [report : Report, version : R!Version] BY JobParts DEF JobRequest
  <1>4. R!Left(t) \subseteq Report \cup {request[t].job.report} BY <1>3 DEF R!Left
  <1> QED BY <1>2, <1>4

\* Every step of the reports keeps their types.
LEMMA JobTypes ==
  ASSUME ReportsAssumption, R!TypeOK, R!Placed, [R!Next]_(R!vars)
  PROVE  R!TypeOK'
  <1> USE JobParts, JobPlaces
  <1>1. ASSUME NEW t \in Replay, NEW r \in Report, R!Post(t, r) PROVE R!TypeOK'
    <2>1. versions' \in R!Version BY <1>1 DEF R!Post, R!Version, ReportsAssumption
    <2>2. R!Job(r, versions') \in [report : Report \cup {NoReport}, version : R!Version]
      BY <2>1 DEF R!Job
    <2>3. \E place \in JobPlace : R!Goto(t, R!At(place, R!Job(r, versions'), 0, {}))
      BY <1>1 DEF R!Post, JobPlace
    <2>4. request' \in [Replay -> JobRequest] BY <2>2, <2>3, JobGoto
    <2>5. met' \subseteq Report /\ UNCHANGED <<docs, jobs, up, scheduler>> BY <1>1 DEF R!Post
    <2> QED BY <2>1, <2>4, <2>5, JobTypeParts
  <1>2. ASSUME NEW t \in Replay, NEW r \in Report, NEW v \in R!Version, R!Delete(t, r, v)
        PROVE  R!TypeOK'
    <2>1. R!Job(r, v) \in [report : Report \cup {NoReport}, version : R!Version] BY DEF R!Job
    <2>2. R!Goto(t, R!At("delete", R!Job(r, v), 0, {})) BY <1>2 DEF R!Delete
    <2>3. request' \in [Replay -> JobRequest] BY <2>1, <2>2, JobGoto DEF JobPlace
    <2>4. /\ met' \subseteq Report /\ docs' \in [Report -> R!Version]
          /\ UNCHANGED <<jobs, up, scheduler, versions>>
      BY <1>2 DEF R!Delete
    <2> QED BY <2>3, <2>4, JobTypeParts
  <1>3. ASSUME NEW t \in Replay, R!Find(t) \/ R!Update(t) \/ R!Insert(t) \/ R!DeleteJob(t)
        PROVE  R!TypeOK'
    <2>1. /\ request[t].job \in [report : Report \cup {NoReport}, version : R!Version]
          /\ request[t].job.version \in R!Version /\ request[t].job.report \in Report
      BY <1>3 DEF JobRequest, R!Find, R!Update, R!Insert, R!DeleteJob, R!Placed
    <2>2. docs[request[t].job.report] \in R!Version BY <2>1
    <2>3. \/ R!Goto(t, R!Idle)
          \/ R!Goto(t, R!At("update", request[t].job, docs[request[t].job.report], {}))
          \/ R!Goto(t, R!At("check", request[t].job, 0, {}))
      BY <1>3 DEF R!Find, R!Update, R!Insert, R!DeleteJob, R!End, R!Schedule
    <2>4. request' \in [Replay -> JobRequest] BY <2>1, <2>2, <2>3, JobGoto DEF JobPlace
    <2>5. docs' \in [Report -> R!Version]
      BY <1>3, <2>1 DEF R!Find, R!Update, R!Insert, R!DeleteJob
    <2>6. jobs' \in [Report -> R!Version]
      BY <1>3, <2>1 DEF R!Find, R!Update, R!Insert, R!DeleteJob
    <2>7. UNCHANGED <<up, scheduler, versions, met>>
      BY <1>3 DEF R!Find, R!Update, R!Insert, R!DeleteJob
    <2> QED BY <2>4, <2>5, <2>6, <2>7, JobTypeParts
  <1>4. ASSUME NEW t \in Replay, R!Check(t) \/ R!Replace(t) \/ R!ScheduleJob(t) \/ R!Malformed(t)
        PROVE  R!TypeOK'
    <2>1. request[t] \in JobRequest /\ request[t].job.version \in R!Version
      BY DEF JobRequest
    <2>2. \/ R!Goto(t, R!Idle) \/ R!Continue(t)
          \/ \E place \in JobPlace : R!Goto(t, [request[t] EXCEPT !.at = place])
      BY <1>4 DEF R!Check, R!Replace, R!ScheduleJob, R!Malformed, R!Throw, R!End, JobPlace
    <2>3. request' \in [Replay -> JobRequest] BY <2>1, <2>2, JobGoto, JobContinue
    <2>4. jobs' \in [Report -> R!Version]
      BY <1>4, <2>1 DEF R!Check, R!Replace, R!ScheduleJob, R!Malformed
    <2>5. met' \subseteq Report
      <3>1. request[t].todo \subseteq [report : Report, version : R!Version]
        BY DEF JobRequest
      <3>2. CASE R!Throw(t)
        <4>1. request[t].at = "read" => R!Left(t) = Report BY DEF R!Left
        <4>2. request[t].at # "read" => request[t].job.report \in Report
          BY <1>4, <3>2 DEF R!Check, R!Replace, R!ScheduleJob, R!Malformed, R!Placed
        <4>3. R!Left(t) \subseteq Report BY <4>1, <4>2, JobOthers
        <4> QED BY <3>2, <4>3 DEF R!Throw
      <3>3. CASE met' = met \cup {k.report : k \in request[t].todo} BY <3>1, <3>3
      <3>4. CASE met' = met BY <3>4
      <3> QED BY <1>4, <3>2, <3>3, <3>4 DEF R!Check, R!Replace, R!ScheduleJob, R!Malformed
    <2>6. UNCHANGED <<docs, up, scheduler, versions>>
      BY <1>4 DEF R!Check, R!Replace, R!ScheduleJob, R!Malformed
    <2> QED BY <2>3, <2>4, <2>5, <2>6, JobTypeParts
  <1>5. ASSUME NEW t \in Replay, R!Start(t) \/ R!GetScheduler(t) \/ R!Shutdown(t) \/ R!SetNull(t)
        PROVE  R!TypeOK'
    <2>1. R!NoJob \in [report : Report \cup {NoReport}, version : R!Version]
      BY DEF R!NoJob, R!Job
    <2>2. request[t] \in JobRequest OBVIOUS
    <2>3. \/ R!Goto(t, R!Idle) \/ R!Goto(t, R!At("start", R!NoJob, 0, {}))
          \/ R!Goto(t, R!At("stopped", R!NoJob, 0, {}))
          \/ R!Goto(t, [request[t] EXCEPT !.at = "read"])
      BY <1>5 DEF R!Start, R!GetScheduler, R!Shutdown, R!SetNull, R!End
    <2>4. request' \in [Replay -> JobRequest] BY <2>1, <2>2, <2>3, JobGoto DEF JobPlace
    <2>5. met' \subseteq Report
      BY <1>5, JobOthers DEF R!Start, R!GetScheduler, R!Shutdown, R!SetNull
    <2>6. /\ up' \in BOOLEAN /\ scheduler' \in BOOLEAN /\ jobs' \in [Report -> R!Version]
          /\ UNCHANGED <<docs, versions>>
      BY <1>5 DEF R!Start, R!GetScheduler, R!Shutdown, R!SetNull
    <2> QED BY <2>4, <2>5, <2>6, JobTypeParts
  <1>6. ASSUME NEW t \in Replay, R!GetReports(t) PROVE R!TypeOK'
    <2> DEFINE waiting == {R!Job(r, docs[r]) : r \in {r \in Report : docs[r] # 0}}
    <2>1. waiting \subseteq [report : Report, version : R!Version] BY DEF R!Job
    <2>2. \/ R!Goto(t, R!Idle)
          \/ \E j \in waiting : R!Goto(t, R!At("check", j, 0, waiting \ {j}))
      BY <1>6 DEF R!GetReports, R!End
    <2>3. UNCHANGED <<docs, jobs, up, scheduler, versions, met>> BY <1>6 DEF R!GetReports
    <2> HIDE DEF waiting
    <2>4. \A j \in waiting : R!At("check", j, 0, waiting \ {j}) \in JobRequest
      <3> SUFFICES ASSUME NEW j \in waiting PROVE R!At("check", j, 0, waiting \ {j}) \in JobRequest
        OBVIOUS
      <3>1. j \in [report : Report \cup {NoReport}, version : R!Version] BY <2>1
      <3>2. waiting \ {j} \in SUBSET [report : Report, version : R!Version] BY <2>1
      <3> QED BY <3>1, <3>2 DEF JobPlace
    <2>5. request' \in [Replay -> JobRequest] BY <2>2, <2>4, JobGoto
    <2> QED BY <2>3, <2>5, JobTypeParts
  <1>7. CASE R!Restart BY <1>7, JobTypeParts DEF R!Restart
  <1>8. CASE UNCHANGED R!vars BY <1>8, JobTypeParts DEF R!vars
  <1> QED BY <1>1, <1>2, <1>3, <1>4, <1>5, <1>6, <1>7, <1>8 DEF R!Next

JobFacts == R!Named /\ R!Placed /\ R!OneAbout /\ R!AllDue /\ R!Mailed

\* About and Due, of a request and the versions stored and mailed.
AboutOf(q) ==
  IF q.at \in {"idle", "stopped"} THEN {}
  ELSE IF q.at \in {"start", "read"} \/ q.todo # {} THEN Report ELSE {q.job.report}
DueOf(q, doc, job, r) ==
  IF q.at = "read" THEN job = 0
  ELSE /\ \A k \in q.todo : k.report = r => k.version = doc
       /\ r \notin {k.report : k \in q.todo \cup {q.job}} => job = doc
       /\ r = q.job.report =>
            /\ q.at \in {"find", "insert", "update"} => job = doc
            /\ q.at = "update" => q.found = doc
            /\ q.at = "delete" => doc = 0
            /\ q.at \in {"check", "replace", "schedule"} => q.job.version = doc
            /\ q.at = "schedule" => job = 0

\* What a request is about, and what it still has to do, in both states.
LEMMA JobViews ==
  ASSUME NEW t, NEW r
  PROVE  /\ R!About(t) = AboutOf(request[t]) /\ R!About(t)' = AboutOf(request'[t])
         /\ R!Due(t, r) <=> DueOf(request[t], docs[r], jobs[r], r)
         /\ R!Due(t, r)' <=> DueOf(request'[t], docs'[r], jobs'[r], r)
  BY DEF R!About, R!Busy, R!Starting, AboutOf, R!Due, DueOf

\* The facts, in these terms.
LEMMA JobFactsParts ==
  /\ R!OneAbout <=> \A r \in R!Sure : \A t, u \in Replay :
       r \in AboutOf(request[t]) /\ r \in AboutOf(request[u]) => t = u
  /\ R!AllDue <=> \A r \in R!Sure : \A t \in Replay :
       r \in AboutOf(request[t]) => DueOf(request[t], docs[r], jobs[r], r)
  /\ R!Mailed <=> \A r \in R!Sure :
       (\A t \in Replay : r \notin AboutOf(request[t])) => jobs[r] = docs[r]
  /\ \A t : R!Others(t) = UNION {AboutOf(request[u]) : u \in Replay \ {t}}
  <1>1. \A t : R!About(t) = AboutOf(request[t]) BY JobViews
  <1>2. \A t, r : R!Due(t, r) <=> DueOf(request[t], docs[r], jobs[r], r) BY JobViews
  <1>3. \A t : R!Others(t) = UNION {AboutOf(request[u]) : u \in Replay \ {t}}
    BY <1>1 DEF R!Others
  <1> QED BY <1>1, <1>2, <1>3 DEF R!OneAbout, R!AllDue, R!Mailed

\* The invariant of the reports, of the next state.
LEMMA JobFactsNext ==
  /\ R!OneAbout' <=> \A r \in R!Sure' : \A t, u \in Replay :
       r \in AboutOf(request'[t]) /\ r \in AboutOf(request'[u]) => t = u
  /\ R!AllDue' <=> \A r \in R!Sure' : \A t \in Replay :
       r \in AboutOf(request'[t]) => DueOf(request'[t], docs'[r], jobs'[r], r)
  /\ R!Mailed' <=> \A r \in R!Sure' :
       (\A t \in Replay : r \notin AboutOf(request'[t])) => jobs'[r] = docs'[r]
  <1>1. \A t : R!About(t)' = AboutOf(request'[t]) BY JobViews
  <1>2. \A t, r : R!Due(t, r)' <=> DueOf(request'[t], docs'[r], jobs'[r], r) BY JobViews
  <1> QED BY <1>1, <1>2 DEF R!OneAbout, R!AllDue, R!Mailed
\* What a thread does is about reports that no other thread is about, and it leaves
\* each of them settled, or knows what is due.
LEMMA JobStep ==
  ASSUME R!TypeOK, JobFacts, NEW t \in Replay,
         \A u \in Replay \ {t} : request'[u] = request[u],
         UNCHANGED <<up, scheduler>>, met \subseteq met', ~up => jobs' = R!Nothing,
         request'[t].at = "start" => request[t].at = "start" \/ ~(up /\ scheduler),
         request'[t].at \notin {"check", "replace", "schedule"} => request'[t].todo = {},
         request'[t].at \notin {"idle", "start", "read", "stopped"} =>
           request'[t].job.report \in Report,
         \A r \in R!Sure \ met' :
           /\ r \in AboutOf(request'[t]) => r \in AboutOf(request[t]) \/ r \notin R!Others(t)
           /\ r \notin AboutOf(request[t]) \cup AboutOf(request'[t]) =>
                docs'[r] = docs[r] /\ jobs'[r] = jobs[r]
           /\ r \in AboutOf(request'[t]) => DueOf(request'[t], docs'[r], jobs'[r], r)
           /\ r \in AboutOf(request[t]) \ AboutOf(request'[t]) => jobs'[r] = docs'[r]
  PROVE  JobFacts'
  <1> USE DEF JobFacts
  <1>1. R!Sure' \subseteq R!Sure \ met' BY DEF R!Sure
  <1>2. R!Named'
    <2>1. CASE up /\ (~scheduler \/ \E u \in Replay : request'[u].at = "start")
      <3>1. ~scheduler \/ \E u \in Replay : request[u].at = "start" BY <2>1
      <3>2. Report \subseteq met' BY <2>1, <3>1 DEF R!Named
      <3> QED BY <2>1, <3>2 DEF R!Named
    <2>2. CASE ~(up /\ (~scheduler \/ \E u \in Replay : request'[u].at = "start"))
      BY <2>2 DEF R!Named, R!Nothing
    <2> QED BY <2>1, <2>2
  <1>3. R!Placed'
    <2>1. \A u \in Replay :
            /\ request'[u].at \notin {"check", "replace", "schedule"} => request'[u].todo = {}
            /\ request'[u].at \notin {"idle", "start", "read", "stopped"} =>
                 request'[u].job.report \in Report
      BY DEF R!Placed
    <2> QED BY <2>1 DEF R!Placed
  <1>4. ASSUME NEW r \in R!Sure', NEW u \in Replay \ {t}, r \in AboutOf(request'[u])
        PROVE  /\ r \notin AboutOf(request[t]) /\ r \notin AboutOf(request'[t])
               /\ docs'[r] = docs[r] /\ jobs'[r] = jobs[r]
    <2>1. r \in AboutOf(request[u]) /\ r \in R!Sure \ met' BY <1>1, <1>4
    <2>2. r \in R!Others(t) BY <2>1, JobFactsParts
    <2>3. r \notin AboutOf(request[t]) BY <2>1, JobFactsParts
    <2> QED BY <2>1, <2>2, <2>3
  <1>5. R!OneAbout'
    <2>1. ASSUME NEW r \in R!Sure', NEW u \in Replay, NEW v \in Replay,
                 r \in AboutOf(request'[u]), r \in AboutOf(request'[v])
          PROVE  u = v
      <3>1. CASE u = t \/ v = t BY <1>4, <2>1, <3>1
      <3>2. CASE u # t /\ v # t BY <1>1, <2>1, <3>2, JobFactsParts
      <3> QED BY <3>1, <3>2
    <2> QED BY <2>1, JobFactsNext
  <1>6. R!AllDue'
    <2>1. ASSUME NEW r \in R!Sure', NEW u \in Replay, r \in AboutOf(request'[u])
          PROVE  DueOf(request'[u], docs'[r], jobs'[r], r)
      <3>1. CASE u = t BY <1>1, <2>1, <3>1
      <3>2. CASE u # t BY <1>1, <1>4, <2>1, <3>2, JobFactsParts
      <3> QED BY <3>1, <3>2
    <2> QED BY <2>1, JobFactsNext
  <1>7. R!Mailed'
    <2>1. ASSUME NEW r \in R!Sure', \A u \in Replay : r \notin AboutOf(request'[u])
          PROVE  jobs'[r] = docs'[r]
      <3>1. CASE r \in AboutOf(request[t]) BY <1>1, <2>1, <3>1
      <3>2. CASE r \notin AboutOf(request[t])
        <4>1. \A u \in Replay : r \notin AboutOf(request[u]) BY <2>1, <3>2
        <4>2. jobs[r] = docs[r] BY <1>1, <4>1, JobFactsParts
        <4> QED BY <1>1, <2>1, <3>2, <4>2
      <3> QED BY <3>1, <3>2
    <2> QED BY <2>1, JobFactsNext
  <1> QED BY <1>2, <1>3, <1>5, <1>6, <1>7

\* Where the scheduler is stopped, or vouches for nothing, nothing is due.
LEMMA JobVacuous ==
  ASSUME ~up' \/ Report \subseteq met', ~up' => jobs' = R!Nothing, R!Placed'
  PROVE  JobFacts'
  <1>1. R!Sure' = {} BY DEF R!Sure
  <1>2. R!Named' BY DEF R!Named, R!Nothing
  <1> QED BY <1>1, <1>2, JobFactsNext DEF JobFacts
\* What the invariant says of a request and of a report it does not touch.
LEMMA JobMine ==
  ASSUME JobFacts, NEW t \in Replay, NEW r \in R!Sure
  PROVE  /\ r \in AboutOf(request[t]) => DueOf(request[t], docs[r], jobs[r], r)
         /\ r \notin AboutOf(request[t]) /\ r \notin R!Others(t) => jobs[r] = docs[r]
  BY JobFactsParts DEF JobFacts

\* A POST or DELETE makes a report the thread's own, or meets another one.
LEMMA JobBegins ==
  ASSUME ReportsAssumption, R!TypeOK, JobFacts, NEW t \in Replay, NEW r \in Report,
         R!Post(t, r) \/ \E v \in R!Version : R!Delete(t, r, v)
  PROVE  JobFacts'
  <1> USE JobParts
  <1>1. /\ request[t] = R!Idle /\ met' = met \cup ({r} \cap R!Others(t))
        /\ UNCHANGED <<jobs, up, scheduler>>
    BY DEF R!Post, R!Delete
  <1>2. AboutOf(request[t]) = {} BY <1>1 DEF AboutOf, R!Idle, R!At
  <1>3. PICK v, place : /\ R!Goto(t, R!At(place, R!Job(r, v), 0, {}))
                        /\ \/ place \in {"find", "insert"} /\ docs' = docs
                           \/ place = "delete" /\ docs' = [docs EXCEPT ![r] = 0]
    BY DEF R!Post, R!Delete
  <1>4. /\ request'[t] = R!At(place, R!Job(r, v), 0, {})
        /\ \A u \in Replay \ {t} : request'[u] = request[u]
    BY <1>3, JobGoto
  <1>5. /\ request'[t].at = place /\ request'[t].todo = {} /\ request'[t].job = R!Job(r, v)
        /\ request'[t].job.report = r
    BY <1>4 DEF R!At, R!Job
  <1>6. AboutOf(request'[t]) = {r} BY <1>3, <1>5 DEF AboutOf
  <1>7. r \in R!Sure \ met' => r \notin R!Others(t) /\ jobs[r] = docs[r]
    BY <1>1, <1>2, JobMine
  <1>8. \A s \in R!Sure \ met' : s # r => docs'[s] = docs[s]
    BY <1>3 DEF R!Sure
  <1>9. r \in R!Sure \ met' => DueOf(request'[t], docs'[r], jobs'[r], r)
    BY <1>1, <1>3, <1>5, <1>7 DEF DueOf, R!Sure
  <1>10. ~up => jobs' = R!Nothing BY <1>1 DEF JobFacts, R!Named
  <1> QED BY <1>1, <1>2, <1>3, <1>4, <1>5, <1>6, <1>7, <1>8, <1>9, <1>10, JobStep

\* The database steps of a POST, and the end of a DELETE.
LEMMA JobDatabase ==
  ASSUME ReportsAssumption, R!TypeOK, JobFacts, NEW t \in Replay,
         R!Find(t) \/ R!Update(t) \/ R!Insert(t) \/ R!DeleteJob(t)
  PROVE  JobFacts'
  <1> USE JobParts
  <1> DEFINE q == request[t]
             r == q.job.report
  <1>1. /\ q.at \in {"find", "update", "insert", "delete"} /\ met' = met
        /\ UNCHANGED <<up, scheduler>>
    BY DEF R!Find, R!Update, R!Insert, R!DeleteJob
  <1>2. r \in Report /\ q.todo = {} BY <1>1 DEF JobFacts, R!Placed
  <1>3. AboutOf(q) = {r} BY <1>1, <1>2 DEF AboutOf
  <1>4. \A s \in Report \ {r} : docs'[s] = docs[s] /\ jobs'[s] = jobs[s]
    BY DEF R!Find, R!Update, R!Insert, R!DeleteJob
  <1>5. r \in R!Sure => DueOf(q, docs[r], jobs[r], r)
    BY <1>3, JobMine
  <1>6. \/ R!Goto(t, R!Idle)
        \/ R!Goto(t, R!At("update", q.job, docs[r], {}))
        \/ R!Goto(t, R!At("check", q.job, 0, {}))
    BY DEF R!Find, R!Update, R!Insert, R!DeleteJob, R!End, R!Schedule
  <1>7. \A u \in Replay \ {t} : request'[u] = request[u] BY <1>6, JobGoto
  <1>8. \/ request'[t] = R!Idle /\ AboutOf(request'[t]) = {}
        \/ /\ request'[t].at = "update" /\ request'[t].job = q.job /\ request'[t].found = docs[r]
           /\ request'[t].todo = {} /\ AboutOf(request'[t]) = {r}
        \/ /\ request'[t].at = "check" /\ request'[t].job = q.job
           /\ request'[t].todo = {} /\ AboutOf(request'[t]) = {r}
    <2>1. \/ request'[t] = R!Idle
          \/ request'[t] = R!At("update", q.job, docs[r], {})
          \/ request'[t] = R!At("check", q.job, 0, {})
      BY <1>6, JobGoto
    <2> HIDE DEF q
    <2> QED BY <2>1 DEF R!Idle, R!At, AboutOf
  <1>9. ~up => jobs' = R!Nothing
    BY DEF R!Find, R!Update, R!Insert, R!DeleteJob, R!Started, JobFacts, R!Named
  <1>10. ASSUME r \in R!Sure
         PROVE  /\ AboutOf(request'[t]) = {r} => DueOf(request'[t], docs'[r], jobs'[r], r)
                /\ AboutOf(request'[t]) = {} => jobs'[r] = docs'[r]
    <2>1. up /\ scheduler BY <1>10 DEF R!Sure, JobFacts, R!Named
    <2>2. /\ q.at \in {"find", "update", "insert"} => jobs[r] = docs[r]
          /\ q.at = "update" => q.found = docs[r]
          /\ q.at = "delete" => docs[r] = 0
      BY <1>1, <1>5, <1>10 DEF DueOf
    <2>3. CASE R!Find(t)
      <3>1. request'[t] = R!Idle \/ request'[t].at = "update"
        BY <2>3, JobGoto DEF R!Find, R!End, R!At
      <3> QED BY <1>8, <2>2, <2>3, <3>1 DEF R!Find, R!Idle, R!At, DueOf, AboutOf
    <2>4. CASE R!Update(t)
      <3>1. request'[t].at = "check" BY <2>4, JobGoto DEF R!Update, R!Schedule, R!At
      <3>2. docs'[r] = q.job.version BY <1>2, <2>2, <2>4 DEF R!Update
      <3>3. /\ request'[t].job = q.job /\ request'[t].todo = {}
            /\ AboutOf(request'[t]) = {r}
        BY <1>8, <3>1 DEF R!Idle, R!At
      <3>4. DueOf(request'[t], docs'[r], jobs'[r], r)
        BY <3>1, <3>2, <3>3 DEF DueOf
      <3> QED BY <3>3, <3>4
    <2>5. CASE R!Insert(t)
      <3>1. CASE docs[r] = 0
        <4>1. request'[t].at = "check" BY <2>5, <3>1, JobGoto DEF R!Insert, R!Schedule, R!At
        <4>2. docs'[r] = q.job.version BY <1>2, <2>5, <3>1 DEF R!Insert
        <4> QED BY <1>8, <2>5, <4>1, <4>2 DEF R!Insert, R!Idle, R!At, DueOf
      <3>2. CASE docs[r] # 0
        <4>1. request'[t] = R!Idle BY <2>5, <3>2, JobGoto DEF R!Insert, R!End
        <4> QED BY <1>8, <2>2, <2>5, <3>2, <4>1 DEF R!Insert, R!Idle, R!At
      <3> QED BY <3>1, <3>2
    <2>6. CASE R!DeleteJob(t)
      <3>1. request'[t] = R!Idle BY <2>6, JobGoto DEF R!DeleteJob, R!End
      <3>2. jobs'[r] = 0 /\ docs'[r] = 0
        BY <1>2, <2>1, <2>2, <2>6 DEF R!DeleteJob, R!Started
      <3> QED BY <1>8, <3>1, <3>2 DEF R!Idle, R!At
    <2> QED BY <2>3, <2>4, <2>5, <2>6
  <1>11. /\ request'[t].at \notin {"start"}
         /\ request'[t].todo = {}
         /\ request'[t].at # "idle" => request'[t].job.report \in Report
    BY <1>2, <1>8 DEF R!Idle, R!At
  <1>12. \A s \in R!Sure \ met' :
           /\ s \in AboutOf(request'[t]) => s \in AboutOf(request[t]) \/ s \notin R!Others(t)
           /\ s \notin AboutOf(request[t]) \cup AboutOf(request'[t]) =>
                docs'[s] = docs[s] /\ jobs'[s] = jobs[s]
           /\ s \in AboutOf(request'[t]) => DueOf(request'[t], docs'[s], jobs'[s], s)
           /\ s \in AboutOf(request[t]) \ AboutOf(request'[t]) => jobs'[s] = docs'[s]
    <2>1. \A s \in R!Sure : s \in Report BY DEF R!Sure
    <2>2. AboutOf(request'[t]) \in {{}, {r}} BY <1>8
    <2> QED BY <1>3, <1>4, <1>10, <2>1, <2>2
  <1> QED BY <1>1, <1>7, <1>9, <1>11, <1>12, JobStep

\* A thread with reports left to schedule goes on with one of them: what is due for
\* all of them is due after.
LEMMA JobGoesOn ==
  ASSUME NEW todo, NEW q, NEW doc, NEW job, NEW r \in Report,
         \/ todo = {} /\ q = R!Idle
         \/ \E j \in todo : q = R!At("check", j, 0, todo \ {j}),
         \A k \in todo : k.report = r => k.version = doc,
         (\A k \in todo : k.report # r) => job = doc
  PROVE  /\ r \in AboutOf(q) => DueOf(q, doc, job, r)
         /\ r \notin AboutOf(q) => job = doc
  <1>1. CASE todo = {} /\ q = R!Idle BY <1>1 DEF R!Idle, R!At, AboutOf
  <1>2. ASSUME NEW j \in todo, q = R!At("check", j, 0, todo \ {j})
        PROVE  /\ r \in AboutOf(q) => DueOf(q, doc, job, r)
               /\ r \notin AboutOf(q) => job = doc
    <2>1. q.at = "check" /\ q.job = j /\ q.todo = todo \ {j} BY <1>2 DEF R!At
    <2>2. \A k \in q.todo : k.report = r => k.version = doc BY <2>1
    <2>3. r \notin {k.report : k \in q.todo \cup {q.job}} => job = doc BY <2>1
    <2>4. r = q.job.report => q.job.version = doc BY <2>1
    <2>5. DueOf(q, doc, job, r) BY <2>1, <2>2, <2>3, <2>4 DEF DueOf
    <2>6. AboutOf(q) = IF q.todo = {} THEN {j.report} ELSE Report BY <2>1 DEF AboutOf
    <2> QED BY <2>1, <2>3, <2>5, <2>6
  <1> QED BY <1>1, <1>2

\* The steps of scheduleReport, and what is thrown there.
LEMMA JobLoop ==
  ASSUME ReportsAssumption, R!TypeOK, JobFacts, NEW t \in Replay,
         R!Check(t) \/ R!Replace(t) \/ R!ScheduleJob(t) \/ R!Malformed(t)
  PROVE  JobFacts'
  <1> USE JobParts
  <1> DEFINE q == request[t]
             n == request'[t]
  <1>1. /\ q.at \in {"check", "replace", "schedule", "read"} /\ met \subseteq met'
        /\ UNCHANGED <<docs, up, scheduler>>
    BY DEF R!Check, R!Replace, R!ScheduleJob, R!Malformed, R!Throw
  <1>2. q \in JobRequest /\ q.todo \subseteq [report : Report, version : R!Version]
    BY DEF JobRequest
  <1>3. q.at # "read" => q.job.report \in Report BY <1>1 DEF JobFacts, R!Placed
  <1>4. \/ n = R!Idle
        \/ \E j \in q.todo : n = R!At("check", j, 0, q.todo \ {j})
        \/ /\ n.at \in {"replace", "schedule"} /\ n.job = q.job /\ n.todo = q.todo
           /\ q.at # "read"
    <2>1. \/ R!Goto(t, R!Idle)
          \/ \E j \in q.todo : R!Goto(t, R!At("check", j, 0, q.todo \ {j}))
          \/ \E place \in {"replace", "schedule"} :
               R!Goto(t, [q EXCEPT !.at = place]) /\ q.at # "read"
      BY DEF R!Check, R!Replace, R!ScheduleJob, R!Malformed, R!Throw, R!End, R!Continue
    <2>2. ASSUME NEW place, R!Goto(t, [q EXCEPT !.at = place])
          PROVE  n.at = place /\ n.job = q.job /\ n.todo = q.todo
      BY <1>2, <2>2, JobGoto DEF JobRequest
    <2> QED BY <2>1, <2>2, JobGoto
  <1>5. \A u \in Replay \ {t} : request'[u] = request[u]
    BY JobGoto DEF R!Check, R!Replace, R!ScheduleJob, R!Malformed, R!Throw, R!End, R!Continue
  <1>6. ~up => jobs' = R!Nothing
    BY DEF R!Check, R!Replace, R!ScheduleJob, R!Malformed, R!Started, JobFacts, R!Named
  <1>7. /\ n.at # "start"
        /\ n.at \notin {"check", "replace", "schedule"} => n.todo = {}
        /\ n.at \notin {"idle", "start", "read", "stopped"} => n.job.report \in Report
    <2>1. CASE n = R!Idle BY <2>1 DEF R!Idle, R!At
    <2>2. ASSUME NEW j \in q.todo, n = R!At("check", j, 0, q.todo \ {j})
          PROVE  n.at = "check" /\ n.job.report \in Report
      BY <1>2, <2>2 DEF R!At
    <2>3. CASE n.at \in {"replace", "schedule"} /\ n.job = q.job /\ q.at # "read"
      BY <1>3, <2>3
    <2> QED BY <1>4, <2>1, <2>2, <2>3
  <1>8. AboutOf(q) = IF q.at = "read" \/ q.todo # {} THEN Report ELSE {q.job.report}
    BY <1>1 DEF AboutOf
  <1>9. ASSUME NEW r \in R!Sure, r \notin met'
        PROVE  /\ r \in AboutOf(n) => r \in AboutOf(q)
               /\ r \notin AboutOf(q) => jobs'[r] = jobs[r]
               /\ r \in AboutOf(n) => DueOf(n, docs[r], jobs'[r], r)
               /\ r \in AboutOf(q) /\ r \notin AboutOf(n) => jobs'[r] = docs[r]
    <2>1. r \in Report /\ R!Started BY <1>9 DEF R!Sure, JobFacts, R!Named, R!Started
    <2>2. r \in AboutOf(n) => r \in AboutOf(q)
      <3>1. AboutOf(n) \subseteq Report BY <1>7 DEF AboutOf
      <3>2. CASE q.todo # {} \/ q.at = "read" BY <1>8, <3>2, <2>1
      <3>3. CASE q.todo = {} /\ q.at # "read"
        BY <1>4, <1>8, <3>3 DEF R!Idle, R!At, AboutOf
      <3> QED BY <3>2, <3>3
    <2>3. r \notin AboutOf(q) => jobs'[r] = jobs[r]
      <3>1. q.at # "read" => jobs'[r] = jobs[r] \/ r = q.job.report
        BY <1>3, <2>1 DEF R!Check, R!Replace, R!ScheduleJob, R!Malformed
      <3> QED BY <1>8, <2>1, <3>1
    <2>4. ASSUME r \in AboutOf(q)
          PROVE  /\ r \in AboutOf(n) => DueOf(n, docs[r], jobs'[r], r)
                 /\ r \notin AboutOf(n) => jobs'[r] = docs[r]
      <3>1. DueOf(q, docs[r], jobs[r], r) BY <2>4, JobMine
      <3>2. CASE q.at = "read"
        <4>1. R!Malformed(t) BY <3>2 DEF R!Check, R!Replace, R!ScheduleJob
        <4>2. met' = met \cup Report BY <3>2, <4>1 DEF R!Malformed, R!Throw, R!Left
        <4> QED BY <1>9, <2>1, <4>2
      <3>3. CASE q.at # "read"
        <4>1. /\ \A k \in q.todo : k.report = r => k.version = docs[r]
              /\ (\A k \in q.todo : k.report # r) /\ r # q.job.report => jobs[r] = docs[r]
              /\ r = q.job.report => /\ q.job.version = docs[r]
                                     /\ q.at = "schedule" => jobs[r] = 0
          BY <1>1, <3>1, <3>3 DEF DueOf
        <4>2. CASE R!Check(t)
          <5>1. n.at = "replace" /\ jobs' = jobs /\ n.job = q.job /\ n.todo = q.todo
            BY <1>2, <2>1, <4>2, JobGoto DEF R!Check, JobRequest
          <5>2. DueOf(n, docs[r], jobs'[r], r) BY <4>1, <5>1 DEF DueOf
          <5>3. AboutOf(n) = AboutOf(q) BY <1>8, <3>3, <5>1 DEF AboutOf
          <5> QED BY <2>4, <5>2, <5>3
        <4>3. CASE R!Replace(t)
          <5>1. n.at = "schedule" /\ n.job = q.job /\ n.todo = q.todo
            BY <1>2, <2>1, <4>3, JobGoto DEF R!Replace, JobRequest, R!Started
          <5>2. jobs' = [jobs EXCEPT ![q.job.report] = 0] BY <2>1, <4>3 DEF R!Replace
          <5>3. /\ r # q.job.report => jobs'[r] = jobs[r]
                /\ r = q.job.report => jobs'[r] = 0
            BY <2>1, <5>2
          <5>4. DueOf(n, docs[r], jobs'[r], r) BY <4>1, <5>1, <5>3 DEF DueOf
          <5>5. AboutOf(n) = AboutOf(q) BY <1>8, <3>3, <5>1 DEF AboutOf
          <5> QED BY <2>4, <5>4, <5>5
        <4>4. CASE R!ScheduleJob(t) /\ jobs[q.job.report] = 0
          <5>1. R!Continue(t) /\ jobs' = [jobs EXCEPT ![q.job.report] = q.job.version]
            BY <2>1, <4>4 DEF R!ScheduleJob
          <5>2. \/ q.todo = {} /\ n = R!Idle
                \/ \E j \in q.todo : n = R!At("check", j, 0, q.todo \ {j})
            BY <5>1, JobGoto DEF R!Continue, R!End
          <5>3. /\ r # q.job.report => jobs'[r] = jobs[r]
                /\ r = q.job.report => jobs'[r] = q.job.version
            BY <2>1, <5>1
          <5>4. (\A k \in q.todo : k.report # r) => jobs'[r] = docs[r] BY <4>1, <5>3
          <5> QED BY <2>1, <4>1, <5>2, <5>4, JobGoesOn, ZenonT(60)
        <4>5. CASE R!ScheduleJob(t) /\ jobs[q.job.report] # 0
          <5>1. /\ jobs' = jobs /\ met' = met \cup {k.report : k \in q.todo} /\ R!End(t)
                /\ q.at = "schedule"
            BY <4>5 DEF R!ScheduleJob
          <5>2. r # q.job.report BY <4>1, <4>5, <5>1
          <5>3. \A k \in q.todo : k.report # r BY <1>9, <5>1
          <5>4. AboutOf(n) = {} BY <5>1, JobGoto DEF R!End, R!Idle, R!At, AboutOf
          <5> QED BY <4>1, <5>1, <5>2, <5>3, <5>4
        <4>6. CASE R!Malformed(t)
          <5>1. /\ jobs' = jobs /\ R!End(t)
                /\ met' = met \cup {k.report : k \in q.todo \cup {q.job}}
            BY <3>3, <4>6 DEF R!Malformed, R!Throw, R!Left
          <5>2. (\A k \in q.todo : k.report # r) /\ r # q.job.report BY <1>9, <5>1
          <5>3. AboutOf(n) = {} BY <5>1, JobGoto DEF R!End, R!Idle, R!At, AboutOf
          <5> QED BY <4>1, <5>1, <5>2, <5>3
        <4> QED BY <4>2, <4>3, <4>4, <4>5, <4>6
      <3> QED BY <3>2, <3>3
    <2> QED BY <2>2, <2>3, <2>4
  <1>10. \A r \in R!Sure \ met' :
           /\ r \in AboutOf(request'[t]) => r \in AboutOf(request[t]) \/ r \notin R!Others(t)
           /\ r \notin AboutOf(request[t]) \cup AboutOf(request'[t]) =>
                docs'[r] = docs[r] /\ jobs'[r] = jobs[r]
           /\ r \in AboutOf(request'[t]) => DueOf(request'[t], docs'[r], jobs'[r], r)
           /\ r \in AboutOf(request[t]) \ AboutOf(request'[t]) => jobs'[r] = docs'[r]
    BY <1>1, <1>9
  <1> QED BY <1>1, <1>5, <1>6, <1>7, <1>10, JobStep

\* A start of the scheduler: a new one begins with nothing, and is then to mail all.
LEMMA JobStarts ==
  ASSUME ReportsAssumption, R!TypeOK, JobFacts, NEW t \in Replay,
         R!Start(t) \/ R!GetScheduler(t) \/ R!GetReports(t)
  PROVE  JobFacts'
  <1> USE JobParts
  <1> DEFINE n == request'[t]
  <1>1. CASE R!Start(t)
    <2>1. R!Sure = {} BY <1>1 DEF R!Start, R!Started, JobFacts, R!Named, R!Sure
    <2>2. /\ n = R!At("start", R!NoJob, 0, {}) /\ UNCHANGED <<docs, jobs, up, scheduler, met>>
          /\ \A u \in Replay \ {t} : request'[u] = request[u]
      BY <1>1, JobGoto DEF R!Start
    <2>3. n.at = "start" /\ n.todo = {} /\ ~(up /\ scheduler)
      BY <1>1, <2>2 DEF R!At, R!Start, R!Started
    <2>4. ~up => jobs' = R!Nothing BY <2>2 DEF JobFacts, R!Named
    <2> QED BY <2>1, <2>2, <2>3, <2>4, JobStep
  <1>2. CASE R!GetScheduler(t)
    <2>1. request[t] \in JobRequest OBVIOUS
    <2>2. n.at = "read" /\ n.todo = request[t].todo
      BY <1>2, <2>1, JobGoto DEF R!GetScheduler, JobRequest
    <2>3. \A u \in Replay \ {t} : request'[u] = request[u] BY <1>2, JobGoto DEF R!GetScheduler
    <2>4. n.todo = {} BY <1>2, <2>2 DEF R!GetScheduler, JobFacts, R!Placed
    <2>5. R!Placed'
      <3>1. \A u \in Replay :
              /\ request'[u].at \notin {"check", "replace", "schedule"} => request'[u].todo = {}
              /\ request'[u].at \notin {"idle", "start", "read", "stopped"} =>
                   request'[u].job.report \in Report
        BY <2>2, <2>3, <2>4 DEF JobFacts, R!Placed
      <3> QED BY <3>1 DEF R!Placed
    <2>6. CASE up
      <3>1. Report \subseteq met' /\ up'
        BY <1>2, <2>6 DEF R!GetScheduler, JobFacts, R!Named
      <3> QED BY <2>5, <3>1, JobVacuous
    <2>7. CASE ~up
      <3>1. /\ jobs' = R!Nothing /\ docs' = docs /\ met' = R!Others(t) /\ up' /\ scheduler'
        BY <1>2, <2>7 DEF R!GetScheduler, JobFacts, R!Named
      <3>2. ASSUME NEW u \in Replay \ {t} PROVE AboutOf(request'[u]) \subseteq met'
        BY <2>3, <3>1, JobFactsParts
      <3>3. R!Named'
        <4>1. ASSUME NEW u \in Replay, request'[u].at = "start" PROVE Report \subseteq met'
          <5>1. u # t BY <2>2, <4>1
          <5>2. AboutOf(request'[u]) = Report BY <4>1 DEF AboutOf
          <5> QED BY <3>2, <5>1, <5>2
        <4> QED BY <3>1, <4>1 DEF R!Named
      <3>4. \A r \in R!Sure' : r \in Report \ met' BY DEF R!Sure
      <3>5. AboutOf(n) = Report BY <2>2 DEF AboutOf
      <3>6. \A r \in Report : DueOf(n, docs'[r], jobs'[r], r) BY <2>2, <3>1 DEF DueOf, R!Nothing
      <3>7. R!OneAbout'
        <4>1. \A r \in R!Sure' : \A u \in Replay : r \in AboutOf(request'[u]) => u = t
          BY <3>2, <3>4
        <4> QED BY <4>1, JobFactsNext
      <3>8. R!AllDue' BY <3>2, <3>4, <3>6, JobFactsNext
      <3>9. R!Mailed' BY <3>4, <3>5, JobFactsNext
      <3> QED BY <2>5, <3>3, <3>7, <3>8, <3>9 DEF JobFacts
    <2> QED BY <2>6, <2>7
  <1>3. CASE R!GetReports(t)
    <2> DEFINE waiting == {R!Job(r, docs[r]) : r \in {r \in Report : docs[r] # 0}}
    <2>1. /\ request[t].at = "read" /\ UNCHANGED <<docs, jobs, up, scheduler, met>>
          /\ \/ waiting = {} /\ R!Goto(t, R!Idle)
             \/ \E j \in waiting : R!Goto(t, R!At("check", j, 0, waiting \ {j}))
      BY <1>3 DEF R!GetReports, R!End
    <2>2. /\ \A k \in waiting : k.report \in Report /\ k.version = docs[k.report]
          /\ \A r \in Report : docs[r] # 0 => \E k \in waiting : k.report = r
      <3>1. \A r : R!Job(r, docs[r]).report = r /\ R!Job(r, docs[r]).version = docs[r]
        BY DEF R!Job
      <3>2. \A k \in waiting : \E r \in Report : k = R!Job(r, docs[r]) OBVIOUS
      <3>3. \A r \in Report : docs[r] # 0 => R!Job(r, docs[r]) \in waiting OBVIOUS
      <3> QED BY <3>1, <3>2, <3>3
    <2> HIDE DEF waiting
    <2>3. /\ \/ waiting = {} /\ n = R!Idle
             \/ \E j \in waiting : n = R!At("check", j, 0, waiting \ {j})
          /\ \A u \in Replay \ {t} : request'[u] = request[u]
      BY <2>1, JobGoto
    <2>4. AboutOf(request[t]) = Report BY <2>1 DEF AboutOf
    <2>5. /\ n.at # "start"
          /\ n.at \notin {"check", "replace", "schedule"} => n.todo = {}
          /\ n.at \notin {"idle", "start", "read", "stopped"} => n.job.report \in Report
      <3>1. CASE n = R!Idle BY <3>1 DEF R!Idle, R!At
      <3>2. ASSUME NEW j \in waiting, n = R!At("check", j, 0, waiting \ {j})
            PROVE  n.at = "check" /\ n.job.report \in Report
        BY <2>2, <3>2 DEF R!At
      <3> QED BY <2>3, <3>1, <3>2
    <2>6. ASSUME NEW r \in R!Sure, r \notin met'
          PROVE  /\ r \in Report
                 /\ r \in AboutOf(n) => DueOf(n, docs[r], jobs[r], r)
                 /\ r \notin AboutOf(n) => jobs[r] = docs[r]
      <3>1. r \in Report BY DEF R!Sure
      <3>2. jobs[r] = 0 BY <2>1, <2>4, <3>1, JobMine DEF DueOf
      <3>3. (\A k \in waiting : k.report # r) => jobs[r] = docs[r] BY <2>2, <3>1, <3>2
      <3>4. \A k \in waiting : k.report = r => k.version = docs[r] BY <2>2
      <3>5. \/ waiting = {} /\ n = R!Idle
            \/ \E j \in waiting : n = R!At("check", j, 0, waiting \ {j})
        BY <2>3
      <3>6. /\ r \in AboutOf(n) => DueOf(n, docs[r], jobs[r], r)
            /\ r \notin AboutOf(n) => jobs[r] = docs[r]
        BY <3>1, <3>3, <3>4, <3>5, JobGoesOn, ZenonT(60)
      <3> QED BY <3>1, <3>6
    <2>7. ~up => jobs' = R!Nothing BY <2>1 DEF JobFacts, R!Named
    <2>8. \A r \in R!Sure \ met' :
             /\ r \in AboutOf(request'[t]) => r \in AboutOf(request[t]) \/ r \notin R!Others(t)
             /\ r \notin AboutOf(request[t]) \cup AboutOf(request'[t]) =>
                  docs'[r] = docs[r] /\ jobs'[r] = jobs[r]
             /\ r \in AboutOf(request'[t]) => DueOf(request'[t], docs'[r], jobs'[r], r)
             /\ r \in AboutOf(request[t]) \ AboutOf(request'[t]) => jobs'[r] = docs'[r]
      BY <2>1, <2>4, <2>6
    <2> QED BY <2>1, <2>3, <2>5, <2>7, <2>8, JobStep
  <1> QED BY <1>1, <1>2, <1>3

\* A stop of the scheduler, of the process, or of nothing.
LEMMA JobStops ==
  ASSUME ReportsAssumption, R!TypeOK, JobFacts,
         (\E t \in Replay : R!Shutdown(t) \/ R!SetNull(t)) \/ R!Restart
  PROVE  JobFacts'
  <1> USE JobParts
  <1>1. ASSUME NEW t \in Replay, R!Shutdown(t) \/ R!SetNull(t) PROVE R!Placed'
    <2>1. R!Goto(t, R!At("stopped", R!NoJob, 0, {})) \/ R!Goto(t, R!Idle)
      BY <1>1 DEF R!Shutdown, R!SetNull, R!End
    <2>2. /\ request'[t].at \in {"stopped", "idle"} /\ request'[t].todo = {}
          /\ \A u \in Replay \ {t} : request'[u] = request[u]
      BY <2>1, JobGoto DEF R!Idle, R!At
    <2>3. \A u \in Replay :
            /\ request'[u].at \notin {"check", "replace", "schedule"} => request'[u].todo = {}
            /\ request'[u].at \notin {"idle", "start", "read", "stopped"} =>
                 request'[u].job.report \in Report
      BY <2>2 DEF JobFacts, R!Placed
    <2> QED BY <2>3 DEF R!Placed
  <1>2. ASSUME NEW t \in Replay, R!Shutdown(t) PROVE JobFacts'
    BY <1>1, <1>2, JobVacuous DEF R!Shutdown
  <1>3. ASSUME NEW t \in Replay, R!SetNull(t) PROVE JobFacts'
    <2>1. up' = up /\ jobs' = jobs /\ (up => met' = Report) BY <1>3 DEF R!SetNull
    <2> QED BY <1>1, <1>3, <2>1, JobVacuous DEF JobFacts, R!Named
  <1>4. ASSUME R!Restart PROVE JobFacts'
    <2>1. \A u \in Replay : request'[u] = R!Idle BY <1>4 DEF R!Restart
    <2>2. R!Placed' BY <2>1 DEF R!Placed, R!Idle, R!At
    <2> QED BY <1>4, <2>2, JobVacuous DEF R!Restart
  <1> QED BY <1>2, <1>3, <1>4

JobsInv == R!TypeOK /\ JobFacts

\* Every step of the reports keeps their invariant.
LEMMA JobInvStep ==
  ASSUME ReportsAssumption, JobsInv, [R!Next]_(R!vars) PROVE JobsInv'
  <1> USE DEF JobsInv
  <1>1. R!TypeOK' BY JobTypes DEF JobFacts
  <1>2. CASE UNCHANGED R!vars
    <2>1. UNCHANGED <<docs, jobs, up, scheduler, request, met>> BY <1>2 DEF R!vars
    <2>2. R!Named' /\ R!Placed' BY <2>1 DEF JobFacts, R!Named, R!Placed, R!Nothing
    <2>3. R!Sure' = R!Sure BY <2>1 DEF R!Sure
    <2>4. R!OneAbout' /\ R!AllDue' /\ R!Mailed'
      BY <2>1, <2>3, JobFactsParts, JobFactsNext DEF JobFacts
    <2> QED BY <1>1, <2>2, <2>4 DEF JobFacts
  <1>3. CASE R!Next
    BY <1>1, <1>3, JobBegins, JobDatabase, JobLoop, JobStarts, JobStops DEF R!Next
  <1> QED BY <1>2, <1>3

\* It holds at first.
LEMMA JobInvInit == ASSUME ReportsAssumption, R!Init PROVE JobsInv
  <1>1. R!TypeOK
    <2>1. request \in [Replay -> JobRequest] /\ docs \in [Report -> R!Version]
      BY JobPlaces DEF R!Init
    <2> QED BY <2>1, JobPlaces DEF R!Init, R!TypeOK, JobRequest, JobPlace
  <1>2. R!Sure = {} BY DEF R!Init, R!Sure
  <1>3. R!Named BY DEF R!Init, R!Named
  <1>4. R!Placed BY DEF R!Init, R!Placed, R!Idle, R!At
  <1>5. R!OneAbout /\ R!AllDue /\ R!Mailed BY <1>2, JobFactsParts
  <1> QED BY <1>1, <1>3, <1>4, <1>5 DEF JobsInv, JobFacts

\* It holds in every behaviour.
LEMMA JobsAlways == MCSpec => []JobsInv
  <1>1. MCInit => JobsInv BY JobInvInit, ReportsAssumption DEF MCInit
  <1>2. JobsInv /\ [MCNext]_<<busy, vars, jobVars, tokenVars>> => JobsInv'
    <2> SUFFICES ASSUME JobsInv, [MCNext]_<<busy, vars, jobVars, tokenVars>> PROVE JobsInv'
      OBVIOUS
    <2>1. [R!Next]_(R!vars) BY DEF MCNext, jobVars, R!vars
    <2> QED BY <2>1, JobInvStep, ReportsAssumption
  <1> QED BY <1>1, <1>2, PTL DEF MCSpec

\* For any number of threads and reports a started scheduler mails what is stored, and
\* nothing that is not, once no request is about the report any more, unless two
\* requests met over it or one of them ended half-way (SettingService, startScheduler).
THEOREM JobsAreTheReports == MCSpec => []JobsAreReports
  <1>1. JobsInv => JobsAreReports
    <2> SUFFICES ASSUME JobsInv, NEW r \in Report \ met, R!Started,
                        \A t \in Replay : r \notin R!About(t)
                 PROVE  jobs[r] = docs[r]
      BY DEF JobsAreReports, R!JobsAreReports
    <2>1. r \in R!Sure BY DEF R!Sure, R!Started
    <2> QED BY <2>1 DEF JobsInv, JobFacts, R!Mailed
  <1> QED BY <1>1, JobsAlways, PTL

\* The variables of all three have their types, for any numbers of threads, replays
\* and reports.
THEOREM TypesAreRight == MCSpec => []TypesOK
  <1>1. MCInit => TypeOK BY TypeInit DEF MCInit
  <1>2. TypeOK /\ [MCNext]_<<busy, vars, jobVars, tokenVars>> => TypeOK'
    <2> SUFFICES ASSUME TypeOK, [MCNext]_<<busy, vars, jobVars, tokenVars>> PROVE TypeOK'
      OBVIOUS
    <2>1. [Next]_vars BY DEF MCNext
    <2> QED BY <2>1, NextSteps, TypeThread, TypeReplay, TypeOther
  <1>3. MCSpec => []TypeOK BY <1>1, <1>2, PTL DEF MCSpec
  <1>4. TypeOK /\ JobsInv /\ TokensInv => TypesOK BY DEF TypesOK, JobsInv, TokensInv
  <1> QED BY <1>3, <1>4, JobsAlways, TokensAlways, PTL
=============================================================================
