------------------------------- MODULE Intake -------------------------------
(***************************************************************************)
(* The intake of audits (InsertService.java) and what is done with them:   *)
(* the e-mail to who asked to be told of such errors (ErrorSpotSinglton),  *)
(* the job that reads again who did (ImmediateNotificationRefreshJob), and *)
(* the history of replays kept in an audit (ReplayService.updateAudit).    *)
(*                                                                         *)
(* A payload and an audit are known by the number of the insert that has   *)
(* brought them.  All inserts are of the kind one notification asks for:   *)
(* notificationsMap and lastNotificationsTime are those of its key.        *)
(***************************************************************************)
EXTENDS Naturals

CONSTANTS
  Thread,      \* the threads that serve inserts
  Replay,      \* the replays of the first audit
  Period,      \* the frequency of the notification
  MaxInserts, MaxNow, MaxRestarts   \* bounds

ASSUME BoundsAreNaturals ==
  Period \in Nat /\ MaxInserts \in Nat /\ MaxNow \in Nat /\ MaxRestarts \in Nat

VARIABLES
  payloads, audits,   \* what is stored
  replayInfo,         \* the replays in the first audit
  inserts,            \* the number of inserts
  thread,             \* thread[t]: where it is, its insert, the time it has read
  replay,             \* replay[r]: where it is, the replays it has read
  mapped,             \* whether the notification is in notificationsMap
  initialized,
  lastTime,           \* lastNotificationsTime, 0 for none
  refresh,            \* whether the map was emptied and not yet filled
  now, restarts,
  \* History.
  malformed,          \* the inserts whose audit could not be parsed
  interrupted,        \* the inserts that were cut off, or given up when the database failed
  late,               \* the inserts that failed once their audit was stored
  mails,              \* the insert that sent one, when it decided to, after how many restarts
  raced,              \* the inserts that were between check and stamp with another one
  crossed, unsent,    \* since the start: stamps a refresh came across, or whose e-mail failed
  overtaken           \* replays recorded while another one was about to be

stored == <<payloads, audits, inserts, malformed, interrupted, late>>
map == <<mapped, initialized, refresh>>
notified == <<lastTime, mails, raced, crossed, unsent>>
history == <<replayInfo, replay, overtaken>>
clock == <<now, restarts>>
vars == <<stored, thread, map, notified, history, clock>>

\* A thread's place in the code, its insert, the time it has read.
At(place, k, time) == [at |-> place, insert |-> k, seen |-> time]
Idle == At("idle", 0, 0)

Init ==
  /\ payloads = {} /\ audits = {} /\ replayInfo = {} /\ inserts = 0
  /\ thread = [t \in Thread |-> Idle]
  /\ replay = [r \in Replay |-> [at |-> "sent", seen |-> {}]]
  /\ mapped = FALSE /\ initialized = FALSE /\ refresh = FALSE
  /\ lastTime = 0 /\ now = 1 /\ restarts = 0
  /\ malformed = {} /\ interrupted = {} /\ late = {}
  /\ mails = {} /\ raced = {} /\ crossed = {} /\ unsent = {} /\ overtaken = {}

Goto(t, place) ==
  thread' = [thread EXCEPT ![t] = At(place, thread[t].insert, thread[t].seen)]
End(t) == thread' = [thread EXCEPT ![t] = Idle]

-----------------------------------------------------------------------------
(* InsertService: the payload first, then the audit that names it.         *)

PayloadInsert(t) ==
  /\ thread[t].at = "idle" /\ inserts < MaxInserts
  /\ inserts' = inserts + 1
  /\ payloads' = payloads \cup {inserts + 1}
  /\ thread' = [thread EXCEPT ![t] = At("audit", inserts + 1, 0)]
  /\ UNCHANGED <<audits, malformed, interrupted, late, map, notified, history, clock>>

\* The driver throws, whether the payload was stored or not: payloadInsert
\* answers that it failed, and nothing more is done.
PayloadThrows(t) ==
  /\ thread[t].at = "idle" /\ inserts < MaxInserts
  /\ inserts' = inserts + 1
  /\ payloads' \in {payloads, payloads \cup {inserts + 1}}
  /\ interrupted' = interrupted \cup {inserts + 1}
  /\ UNCHANGED <<audits, malformed, late, thread, map, notified, history, clock>>

\* JSON.parse refuses the audit: the payload is there already.
AuditMalformed(t) ==
  /\ thread[t].at = "audit"
  /\ malformed' = malformed \cup {thread[t].insert}
  /\ End(t)
  /\ UNCHANGED <<payloads, audits, inserts, interrupted, late, map, notified, history, clock>>

\* A mutation of AuditInsert: the number is that of the insert to come.
AuditInsertNext(t) ==
  /\ thread[t].at = "audit"
  /\ audits' = audits \cup {thread[t].insert + 1}
  /\ Goto(t, "notify")
  /\ UNCHANGED <<payloads, inserts, malformed, interrupted, late, map, notified, history, clock>>

AuditInsert(t) ==
  /\ thread[t].at = "audit"
  /\ audits' = audits \cup {thread[t].insert}
  /\ Goto(t, "notify")
  /\ UNCHANGED <<payloads, inserts, malformed, interrupted, late, map, notified, history, clock>>

\* A field is missing, the date is none, or the database fails.
AuditThrows(t) ==
  /\ thread[t].at = "audit"
  /\ Goto(t, "undo")
  /\ UNCHANGED <<stored, map, notified, history, clock>>

\* The audit is stored, but the database throws then, or when it is read back.
ReadBackThrows(t) ==
  /\ thread[t].at = "notify"
  /\ late' = late \cup {thread[t].insert}
  /\ Goto(t, "undo")
  /\ UNCHANGED <<payloads, audits, inserts, malformed, interrupted, map, notified, history, clock>>

\* Every catch removes the payload.
RemovePayload(t) ==
  /\ thread[t].at = "undo"
  /\ payloads' = payloads \ {thread[t].insert}
  /\ End(t)
  /\ UNCHANGED <<audits, inserts, malformed, interrupted, late, map, notified, history, clock>>

\* The database fails once more, in the catch.
RemoveThrows(t) ==
  /\ thread[t].at = "undo"
  /\ interrupted' = interrupted \cup {thread[t].insert}
  /\ End(t)
  /\ UNCHANGED <<payloads, audits, inserts, malformed, late, map, notified, history, clock>>

-----------------------------------------------------------------------------
(* getExpiredNotificationDetail, unsynchronized, and sendEmail.            *)

\* A mutation of Recent: the period is over a moment too early.
RecentButOne == lastTime # 0 /\ now - lastTime < Period

Recent == lastTime # 0 /\ now - lastTime <= Period

\* Mutations of NoMail: an error kept silent prolongs the silence; where there is
\* no notification, asking for its address throws.
NoMailStamps(t) ==
  /\ thread[t].at = "notify"
  /\ ~initialized \/ ~mapped \/ Recent
  /\ lastTime' = IF initialized /\ mapped THEN now ELSE lastTime
  /\ End(t)
  /\ UNCHANGED <<stored, map, mails, raced, crossed, unsent, history, clock>>
NoMailThrows(t) ==
  /\ thread[t].at = "notify"
  /\ ~initialized \/ ~mapped \/ Recent
  /\ Goto(t, "undo")
  /\ UNCHANGED <<stored, map, notified, history, clock>>

\* No notification is configured, or the last one is too recent.
NoMail(t) ==
  /\ thread[t].at = "notify"
  /\ ~initialized \/ ~mapped \/ Recent
  /\ End(t)
  /\ UNCHANGED <<stored, map, notified, history, clock>>

\* The inserts that a check of t's finds between their check and their stamp,
\* and t's then, if there are any.
Together(t) ==
  LET others == {u \in Thread : thread[u].at = "stamp"}
  IN {thread[u].insert : u \in others \cup {v \in {t} : others # {}}}

Expired(t) ==
  /\ thread[t].at = "notify"
  /\ initialized /\ mapped /\ ~Recent
  /\ thread' = [thread EXCEPT ![t] = At("stamp", thread[t].insert, now)]
  /\ raced' = raced \cup Together(t)
  /\ UNCHANGED <<stored, map, lastTime, mails, crossed, unsent, history, clock>>

\* The time put is the one read before.
Stamp(t) ==
  /\ thread[t].at = "stamp"
  /\ lastTime' = thread[t].seen
  /\ Goto(t, "config")
  /\ UNCHANGED <<stored, map, mails, raced, crossed, unsent, history, clock>>

\* The map is asked again, and may be the empty one of a refresh.
Config(t) ==
  /\ thread[t].at = "config"
  /\ IF mapped THEN Goto(t, "send") ELSE End(t)
  /\ UNCHANGED <<stored, map, notified, history, clock>>

SendEmail(t) ==
  /\ thread[t].at = "send"
  /\ mails' = mails \cup {[insert |-> thread[t].insert, decided |-> thread[t].seen, life |-> restarts]}
  /\ End(t)
  /\ UNCHANGED <<stored, map, lastTime, raced, crossed, unsent, history, clock>>

\* sendEmail swallows its failures.
EmailFails(t) ==
  /\ thread[t].at = "send"
  /\ unsent' = unsent \cup {thread[t].seen}
  /\ End(t)
  /\ UNCHANGED <<stored, map, lastTime, mails, raced, crossed, history, clock>>

\* A notification without an address or a template throws: the payload goes.
ConfigThrows(t) ==
  /\ thread[t].at = "send"
  /\ unsent' = unsent \cup {thread[t].seen}
  /\ late' = late \cup {thread[t].insert}
  /\ Goto(t, "undo")
  /\ UNCHANGED <<payloads, audits, inserts, malformed, interrupted, map,
                 lastTime, mails, raced, crossed, history, clock>>

\* ErrorSpotSinglton.init publishes an empty map, then reads the settings.
Clear ==
  /\ ~refresh /\ refresh' = TRUE /\ mapped' = FALSE
  /\ crossed' = crossed \cup {thread[t].seen : t \in {u \in Thread : thread[u].at \in {"stamp", "config"}}}
  /\ UNCHANGED <<stored, thread, initialized, lastTime, mails, raced, unsent, history, clock>>

\* One document of settings is found, with the notification in it, or not.
Fill ==
  /\ refresh /\ refresh' = FALSE
  /\ \/ mapped' = TRUE /\ initialized' = TRUE
     \/ UNCHANGED <<mapped, initialized>>
  /\ UNCHANGED <<stored, thread, notified, history, clock>>

-----------------------------------------------------------------------------
(* updateAudit: the history is read, extended and written back.            *)

ReadHistory(r) ==
  /\ replay[r].at = "sent" /\ 1 \in audits
  /\ replay' = [replay EXCEPT ![r] = [at |-> "read", seen |-> replayInfo]]
  /\ UNCHANGED <<stored, thread, map, notified, replayInfo, overtaken, clock>>

\* A mutation of WriteHistory: the list is started anew.
WriteAnew(r) ==
  /\ replay[r].at = "read"
  /\ replayInfo' = {r}
  /\ replay' = [replay EXCEPT ![r] = [at |-> "recorded", seen |-> {}]]
  /\ overtaken' = IF \E s \in Replay \ {r} : replay[s].at = "read"
                  THEN overtaken \cup {r} ELSE overtaken
  /\ UNCHANGED <<stored, thread, map, notified, clock>>

WriteHistory(r) ==
  /\ replay[r].at = "read"
  /\ replayInfo' = replay[r].seen \cup {r}
  /\ replay' = [replay EXCEPT ![r] = [at |-> "recorded", seen |-> {}]]
  /\ overtaken' = IF \E s \in Replay \ {r} : replay[s].at = "read"
                  THEN overtaken \cup {r} ELSE overtaken
  /\ UNCHANGED <<stored, thread, map, notified, clock>>

\* A failure is logged; the replay is answered as if it had been recorded.
HistoryFails(r) ==
  /\ replay[r].at \in {"sent", "read"}
  /\ replay' = [replay EXCEPT ![r] = [at |-> "failed", seen |-> {}]]
  /\ UNCHANGED <<stored, thread, map, notified, replayInfo, overtaken, clock>>

-----------------------------------------------------------------------------
Tick ==
  /\ now < MaxNow /\ now' = now + 1
  /\ UNCHANGED <<stored, thread, map, notified, history, restarts>>

\* Only what is stored survives the process, and the e-mails it has sent:
\* lastNotificationsTime starts empty.
Restart ==
  /\ restarts < MaxRestarts /\ restarts' = restarts + 1
  /\ interrupted' = interrupted \cup {thread[t].insert : t \in {u \in Thread : thread[u].at # "idle"}}
  /\ thread' = [t \in Thread |-> Idle]
  /\ replay' = [r \in Replay |-> IF replay[r].at = "read"
                                 THEN [at |-> "failed", seen |-> {}] ELSE replay[r]]
  /\ mapped' = FALSE /\ initialized' = FALSE /\ refresh' = FALSE
  /\ lastTime' = 0 /\ crossed' = {} /\ unsent' = {}
  /\ UNCHANGED <<payloads, audits, inserts, malformed, late, mails, raced, replayInfo, overtaken, now>>

ThreadStep(t) ==
  \/ PayloadInsert(t) \/ PayloadThrows(t) \/ AuditMalformed(t) \/ AuditInsert(t) \/ AuditThrows(t)
  \/ ReadBackThrows(t) \/ RemovePayload(t) \/ RemoveThrows(t)
  \/ NoMail(t) \/ Expired(t) \/ Stamp(t) \/ Config(t)
  \/ SendEmail(t) \/ EmailFails(t) \/ ConfigThrows(t)

Next ==
  \/ \E t \in Thread : ThreadStep(t)
  \/ \E r \in Replay : ReadHistory(r) \/ WriteHistory(r) \/ HistoryFails(r)
  \/ Clear \/ Fill \/ Tick \/ Restart

Spec == Init /\ [][Next]_vars

-----------------------------------------------------------------------------
(* Properties.                                                             *)

Insert == 1..MaxInserts
Place == {"idle", "audit", "notify", "stamp", "config", "send", "undo"}
Stamped == {"config", "send"}

StoredOK ==
  /\ inserts \in 0..MaxInserts
  /\ payloads \subseteq Insert /\ audits \subseteq Insert
  /\ malformed \subseteq Insert /\ interrupted \subseteq Insert /\ late \subseteq Insert
ThreadOK ==
  /\ thread \in [Thread -> [at : Place, insert : 0..MaxInserts, seen : Nat]]
  /\ \A t \in Thread : thread[t].at # "idle" => thread[t].insert # 0
MapOK == mapped \in BOOLEAN /\ initialized \in BOOLEAN /\ refresh \in BOOLEAN
NotifiedOK ==
  /\ lastTime \in Nat /\ raced \subseteq Insert
  /\ mails \subseteq [insert : Insert, decided : Nat, life : 0..MaxRestarts]
  /\ crossed \subseteq Nat /\ unsent \subseteq Nat
HistoryOK ==
  /\ replay \in [Replay -> [at : {"sent", "read", "recorded", "failed"}, seen : SUBSET Replay]]
  /\ replayInfo \subseteq Replay /\ overtaken \subseteq Replay
ClockOK == now \in Nat /\ restarts \in 0..MaxRestarts

TypeOK == StoredOK /\ ThreadOK /\ MapOK /\ NotifiedOK /\ HistoryOK /\ ClockOK

\* An audit lacks its payload only when its insert failed after the audit was
\* stored (the catches of auditInsert undo the payload and not the audit), and
\* a payload lacks its audit only while it is on its way, or when the audit
\* could not be parsed, or its insert was cut off or given up (payloadInsert
\* leaves a payload that was stored although the driver threw).
Linked ==
  /\ audits \ payloads \subseteq late
  /\ payloads \ audits \subseteq malformed \cup interrupted
       \cup {thread[t].insert : t \in {u \in Thread : thread[u].at \in {"audit", "undo"}}}

\* The rate of e-mails: two of them are decided on more than a period apart,
\* but for two causes: the insert of one was between the check of the last
\* time and its stamp together with another, which getExpiredNotificationDetail
\* leaves unsynchronized, or the process was restarted between them, for
\* lastNotificationsTime is in memory.  It is the decisions the code keeps
\* apart: an e-mail that is slow to go may leave together with the next one.
RateKept ==
  \A m, n \in mails :
    m # n /\ m.life = n.life /\ {m.insert, n.insert} \cap raced = {} =>
      m.decided + Period < n.decided \/ n.decided + Period < m.decided

\* A stamp silences the notification for a period, so an e-mail went out for
\* it, or is about to: only an e-mail that failed, or a refresh that emptied
\* the map between the check and the second look at it, leaves a stamp alone.
StampHonoured ==
  lastTime # 0 =>
    \/ lastTime \in crossed \cup unsent
    \/ \E n \in mails : n.decided = lastTime /\ n.life = restarts
    \/ \E t \in Thread : thread[t].at \in Stamped /\ thread[t].seen = lastTime

\* A recorded replay stays in the history of its audit, unless another replay
\* of the audit had read the history and not yet written it back.
HistoryKept ==
  \A r \in Replay : replay[r].at = "recorded" => r \in replayInfo \cup overtaken
=============================================================================
