# A verification project for ErrorSpot

ErrorSpot records the audits (the error reports) of integration applications
in MongoDB, notifies people of them and replays failed messages. It is built on
RESTHeart, a REST server for MongoDB whose source is part of the repository.
This directory holds TLA+ models of the parts of both where the order of steps
matters, the TLC configurations that check them, and TLAPS proofs, for every
value of the constants, of all the invariants and refinements those runs check.

    src/src/main/java/com/ultimo/       ErrorSpot: 21 files, 5.8 kLOC
    src/src/main/java/org/restheart/    RESTHeart: 144 files, 17.1 kLOC
    src/src/main/resources/errorspot/   the browser application (ultimotls/, 5 kLOC), and 44 kLOC of
                                        third-party JavaScript (AngularJS, jQuery, Bootstrap, a date picker)

There is one test class in the repository (JsonUtilsTest); everything below is
read from the source. The libraries the code relies on are modelled as it uses
them, in the versions pom.xml names: the MongoDB driver 2.13 (every write is
acknowledged; a DBCursor runs its query at the first access and until then
skip() only sets a number), Guava 18 caches, Quartz 2.2 with jobs in memory,
Undertow 1.1. So are the parts of AngularJS the pages use: promises
whose callbacks run one at a time in the order the answers arrive, cookies,
broadcasts, controllers that are left but whose callbacks still run.

## 1. Inventory

For each component: the state it keeps, its operations, what it shares, what
is hard about it, and what makes it correct.

### ErrorSpot

* **Batch replay** (BatchReplayJob, BatchReplayService). State: the batch
  collection. A user stores a batch of audits to replay (POST), arms a failed
  one again (PUT), removes some (DELETE); a Quartz job takes the stored batches
  in turn, replays their audits and records the outcome, keeping the audits
  that failed in a child document. The two sides share only the collection, and
  the driver call they use, `collection.update(old, new)` with its result
  ignored, is a compare-and-set on the fields `old` happens to have. Hard:
  cursors that are stale, requests between any two steps, executions that
  overlap or are cut short. Correct when no failed audit is forgotten, no batch
  is replayed more often than it was armed, failures are kept once, an armed
  batch is taken and a claimed one is settled, unless its execution is cut short.
* **Scheduler and reports** (SchedulerService, ReportJob, ReportNotification).
  State: a static Quartz scheduler and its jobs in memory. Starts, stops,
  suspends and resumes jobs; a report job mails the audits since its previous
  fire time. Hard: a stop does not wait for running jobs, and sets the name of
  the scheduler to null only after it is down; a start reads the reports first
  and schedules them one by one; one that throws leaves the rest. Correct when
  the jobs are the stored reports and one execution of a job runs at a time.
* **Single audit replay and history** (ReplayService, ReplayJMSHandler). Sends
  a payload over REST, file, FTP or JMS and appends the outcome to the audit's
  replay history: a read, an extension and a write of the whole list. Hard: two
  replays of one audit; an exception after the message went out. Correct when
  a recorded replay stays in the history.
* **Audit insertion** (InsertService, PayloadService). Inserts the payload,
  then the audit that refers to it, then notifies; any exception after the
  payload removes the payload again. Hard: each of the calls can fail, before
  or after the database did its part. Correct when audits and payloads come in
  pairs.
* **Immediate notifications** (ErrorSpotSinglton, ImmediateNotificationRefreshJob,
  NotificationService and the templates). State: static maps of what to notify
  and when it was last done. Rate-limits the mails per error; a refresh job
  rebuilds the maps. Hard: unsynchronised maps, a refresh that first publishes
  an empty one, failures after the time was stamped, restarts. Correct when mails keep
  their rate and a stamp stands for a mail.
* **Settings** (SettingService). One document of settings, replaced by a count,
  a find, a removal and an insert; one per report, stored or removed first and
  scheduled or unscheduled afterwards, after the answer was sent. Hard: two
  requests at once, or one that ends half-way. Correct when there is one
  document of settings, nothing stored in it is lost, and the jobs are the
  stored reports.
* **Search, aggregation and login** (SearchService, AggregateService,
  LoginService): a query and its formatting, no state.

### The browser application

One page of AngularJS controllers over the operations above. Every call is
asynchronous; answers come in any order, and also to controllers that were
left. Nothing cancels a call.

* **Session** (ultimotls.js). State: cookies (credentials, name, environment,
  whether to show the menu), the menu, which the login page may show too, the
  Authorization header, the environment of the queries, services that controllers
  share. Login, restoring a session, logout,
  the choice of an environment, an answer 401. Hard: a login answered after its
  form changed, its page was left or another one was sent. Correct when header,
  cookies and the name replays are recorded under are of one user.
* **Audit page** (auditController.js). State: the table and its order, check
  boxes, the search last sent, the row whose dialog is open, the payload
  fetched for it. Searches, pages, replays of one row or of the checked rows.
  Hard: the boxes count rows in the order shown and the ids in the order
  received; payloads and searches answered late. Correct when what is replayed
  is what was ticked or opened.
* **Dashboard** (the treemap, the charts and their controllers). State:
  environment, window of time, filter; what each panel shows, which scope its
  cells read, cells kept for the next dashboard. Hard: each panel asks for itself
  and draws whatever answer comes, also one to a dashboard that was left. Correct
  when the panels show what is selected, and a cell opens the audits it counts.
* **Settings page** (settingController.js). State: the settings and the rows of
  reports with their ids, each loaded by three calls, and one object of which all
  saves are made. Hard: calls that fail or are answered late, rows that move up or
  are replaced under a call, saves repeated before the answer. Correct when a save loses nothing and replaces
  only what it is a new version of.

### RESTHeart

* **Documents** (DocumentDAO and the document handlers). State: a document and
  its `_etag`. A write replaces the document first and checks the etag of what
  it replaced afterwards; on a mismatch it saves the replaced document back.
  Correct when an etag has one successor and names one content.
* **Collection properties** (CollectionDAO, PropsFixer, the collection handlers
  and the injector). State: the properties document of a collection, and
  whether the collection exists. A request is given the properties from a
  cache, checks the etag with one query and writes with another; a PUT puts the
  creation date back with a third. Missing properties are repaired by whoever
  misses them. Hard: all of it is several database calls.
* **Properties cache** (LocalCachesSingleton, GuavaLoadingCache). State: cached
  properties that expire. Hard: loads that race with invalidations, changes
  made by other nodes. Correct when what a request is given is bounded in age.
* **Cursor pool** (DBCursorPool, SkippedDBCursor, GuavaCache). State: cursors
  created ahead of time for far pages, filled by one background thread. Hard:
  cursors can be used once; entries are evicted while they are handed out.
  Correct when a cursor has one user, no slice outgrows its height, and a page
  starts where it was asked to.
* **Collection reads and paging** (GetCollectionHandler, CollectionDAO,
  RequestContextInjectorHandler): parameters, and the page read.
* **Database properties** (DbsDAO, the database handlers, the injector): the
  same protocol as for collections, with a drop of the whole database.
* **Authentication tokens** (AuthTokenIdentityManager, AuthTokenInjecterHandler
  and their handlers). State: a cache of one token per user, in memory, that
  expires after its last use. Looked up twice when a request is authenticated,
  and once more, to be stored if it is missing, when its answer is made. Hard:
  those look-ups are steps of their own. Correct when a token is accepted for
  as long as its answers stated.
* **Identity and access managers**: lookups of credentials and predicates.
* **Files** (GridFsDAO) and **Indexes** (IndexDAO): an etag is checked, then
  the file or index changed, in two database calls.
* **Request dispatch**, **Body injection**, **Metadata**, **Representation**,
  **Utilities**: functions of a request. **Lifecycle and configuration**:
  start, pid file, stop.

## 2. Modules

    BatchLifecycle      abstract: the life of a batch
    BatchReplay         the job, the requests, the scheduler, crashes
      BatchReplayProofs        no failure is forgotten; what holds while executions do
                               not overlap; BatchReplay implements BatchLifecycle
    DocumentLock        abstract: an optimistic lock
    DocumentStore       write, check, restore
      DocumentStoreProofs      etags; DocumentStore implements DocumentLock
    CollectionLock      abstract: properties under an optimistic lock
    CollectionProps     injection, repair, checks and writes, invalidation
      CollectionPropsProofs    dates and etags survive; CollectionProps implements
                               CollectionLock
    PropsCache          one cache entry over time
      PropsCacheProofs         bounded staleness
    CursorPool          the pool and the pages read with it
      CursorPoolProofs         one user per cursor, bounded heights and pool
    Intake              insertion, notification, replay history
    ReportJobs          stored reports and the jobs that mail them
    Tokens              the token of one user
      MCServices               Intake, ReportJobs and Tokens together
        ServicesProofs         links, rate, stamps, history, tokens, jobs
    Session             login, cookies, header, environment
    AuditPage           searches, check boxes, dialogs, replays
    Dashboard           the panels and what each of them asks and draws
    Settings            settings pages and the settings document
    Reports             the rows of reports and their documents
      MCBrowser                the five parts of the browser together
        DashboardProofs        charts and cells show what they stand for
        BrowserProofs          session, audit page, settings, reports; all types

`MCBatchReplay`, `MCDocumentStore`, `MCCollectionProps`, `MCPropsCache` and
`MCCursorPool` declare the model values and symmetry the .cfg files use;
`MCServices` and `MCBrowser` also compose modules whose states do not meet: a
behaviour is one of a single part, so that their state spaces add.
`PROJECT.json` maps every definition to the lines it models. Definitions marked
"Mutation" are plausible bugs of the action they precede; no specification uses
them, they serve to see that each property can fail.

### BatchReplay

| TLA+ | code |
|---|---|
| `batch` | the documents of the batch collection; a removed one stays as a tombstone no query finds |
| `Matches`, `UpdateStatus` | `update(old, new)`: a document without a status matches any status |
| `todo[w]`, `cur[w]`, `pending[w]`, `failed[w]`, `pc[w]` | the cursor, the document in hand, the audits left, the map of failures and the place of an execution of `BatchReplayJob.execute` on thread `w` |
| `FireJob`, `Claim`, `ReplayOne`, `ReplayThrows`, `NullResult` | BatchReplayJob.java:44-96 and `batchHandleRequest` |
| `NoneFailed`, `SomeFailed`, `AllFailed`, `MarkProcessed` | BatchReplayJob.java:97-133 |
| `InsertBatch`, `ReadToRearm`/`Rearm`, `ReadToDelete`/`Delete` | POST, PUT, DELETE: `findOne`, then the conditional write |
| `StartScheduler` .. `StopScheduler`, `orphan` | SchedulerService; an execution a stopped scheduler left behind is an orphan of the next |
| `AbortJob`, `Crash` | a database exception; the end of the process |

The replay of one audit is an outcome, success or failure; how it is sent is
not modelled. `arms`, `runs` and `succeeded` are history.

### DocumentStore

`Accepted` and `Mismatched` are one `findAndModify` each, whose check of the
replaced document follows at once and sees nothing anybody else does; `Restore`
is the `save` that may come at any time later. Contents are the set of writes
that supplied the fields (`parts`). `wins`, the accepted writes with the etag they
named and the document they replaced, if there was one, `refused`, `versions` and
`verdict` are history.

### CollectionProps

The path of a request is `Begin`, then `CacheHit` or `Load` .. `Loaded` (with
`FixFind`, `FixExists`, `FixInsert` or `FixDuplicate`, `Reload` when there were
no properties), `Checked` or `Refused`, then `Patch`, or `Put` and `PutBack`
(and `CreateIndexes` for a new collection), or `RemoveProps` and `Drop`, and
`Invalidate` after the answer: one action per database or cache call.
`WriteDocument` is a write of a document by a request for it or by one of
ErrorSpot's services, which use the collections directly; `Crash` includes
`fixAllMissingProps` at the next start.

### PropsCache

One entry with its time, the loads under way and the invalidations. Time is
explicit (`now`): a tick is any unit, `TTL` the time to live of the
configuration (local-cache-ttl, 1000 ms by default), `MaxLoad` an assumed bound
on the time of a load.

### CursorPool

`Take`, `TakeNone` and `NewCursor` are what `DBCursorPool.get` does for a page
near enough or far, `Answer` is the read of `CollectionDAO.getCollectionData`;
`StartTask`, `CountSlice`, `PutCursor` and `NextSlice` are the pre-allocation in
the single thread of the executor; `Evict` is the cache's own doing.

### Intake

| TLA+ | code |
|---|---|
| `payloads`, `audits` | the two collections, by the number of the insert |
| `thread[t]` | where a request is in `handleRequest` and `auditInsert`, and the time it read |
| `PayloadInsert`, `PayloadThrows`, `AuditMalformed`, `AuditInsert`, `AuditThrows`, `ReadBackThrows`, `RemovePayload`, `RemoveThrows` | InsertService: payload, parse, audit, the catches; an insert that throws may have stored its document |
| `NoMail`, `Expired`, `Stamp`, `Config`, `SendEmail`, `EmailFails`, `ConfigThrows` | `getExpiredNotificationDetail` and `sendEmail` for one key of the map |
| `Clear`, `Fill` | `ErrorSpotSinglton.init` as the refresh job runs it |
| `ReadHistory`, `WriteHistory`, `HistoryFails` | `ReplayService.updateAudit` |
| `Restart` | the static maps are gone, the collections stay |

`malformed`, `interrupted`, `late`, `raced`, `crossed`, `unsent`, `overtaken`
are history: they name the causes the properties allow for. So is `mails`: of each
e-mail the insert, the time it was decided on, which is the time that is stamped,
and the number of restarts before it. An e-mail goes out some time after its
decision.

### ReportJobs

`Post`, `Find`, `Update`/`Insert`, `Check`, `Replace`, `ScheduleJob` are a POST
of a report up to `scheduleReport`; `Delete` and `DeleteJob` a DELETE; `Start`,
`GetScheduler`, `GetReports` and again `Check` .. `ScheduleJob` for each report
are `startScheduler`, `Malformed` the exception that leaves it; `Shutdown` and
`SetNull` are `stopScheduler`. `up` is whether Quartz runs, `scheduler` whether
the static field refers to it. `crossed` is history: the reports two requests
met over or one left half-way.

### Tokens

`Verify` and `VerifyToken` are the two look-ups of AuthTokenIdentityManager,
`CacheSessionToken` and `Put` the look-up and store of
AuthTokenInjecterHandler, `InjectTokenHeaders` the answer with its time,
`Invalidate` a DELETE of the token; `Cached` and `Touch` are the cache, which
expires after the last access. `stated` is what answers promised.

### Session

A call is a record of what its handler will read: the user and environment of a
login, and the form it still sees after its page was left. `Login`,
`LoginController` (a login page that opens), `SetEnvironment`, `Logout`,
`GoToApp`, `GoToLogin`, `Reload`, `Expire` are the user, the router and the
cookies; `LoginAnswer`, `LoginFails`, `RestoreAnswer`, `OptionsAnswer`,
`CallFails`, `Unauthorized` are answers. Only the environment of a login is
compared with those that are set up; a restored session compares an object
(`Restored`), as the code does. `bar` is the menu with Logout and the
environments: index.html shows it above any page while `showNav` is set, so also
on the login page of a user who came back to it, and whose check failed or is still
to be answered.

### AuditPage

`data` is the page of the result the table shows, `saver` the one the service
shares, `reverse` the order, `checked` the ticked rows; `BatchIds` counts boxes
in the order shown and ids in the order received, as `batchValues` does.
`SearchAnswer` and `PayloadAnswer` are the answers, of the controller shown or of
one left. `RunService` stands for the five functions that send a replay by REST,
file, web service, FTP and JMS: they differ in the form they read only.

### Dashboard

`pending[p]` are the calls of a panel without an answer: the last, and how many
older ones and ones of a dashboard that was left there are; `drawn[p]` is the
question whose answer it shows. `EnvChange`, `TimeChange`, `Calendar`,
`CustomDate`, `HalfDate` (a second date that is none: customDate throws with the
first one set) and `Select` are the broadcasts, and which panels each of them asks
again. Answers come in any order. `DrawChart` and `DrawCells` draw one; `bound` is
whose scope the cells read: it is set when a cell is added, and a later answer only
gives the cell new data. `SendAudit` opens the audits of a cell, `Drill` is its
search, and has all cells kept (`preserved`), which the next answer with data puts
back instead of drawing its own (`PutBack`). `NoData` and `Drop` are the answers
nothing is drawn of. Layout is left out, and with it zooming and resizing, which
draw again what is there.

### Settings and Reports

Settings has the page (`Open`, `GetRead`, `Then`, `Catch`, `Finally`, `AddNew`,
`SaveSetting`) and the service (`Count`, `Find`, `Remove`, `Insert`, `Fault`).
`GetRead` is the server's read, and `Then`, `Catch` and `Finally` are the handlers,
for the code makes three calls and gives each of them one handler: only the answer
to the first fills the page, only a failure of the second puts the defaults there,
and only the end of the third makes the page usable.

Reports is loaded likewise (`ListReports`, `Then`, `Catch`, `Finally`): the rows
read, or a blank one, replace those of the page whatever was done to them
meanwhile, with calls under way or not. Then it has the rows (`AddNewAggrigated`,
`Save`, `Delete`, `Answer`), with the numbers calls know them by, and the service
(`StoreReport`, `RemoveReport`); `temprep` is the object every save is made of,
which keeps the id of the one before. An answer nothing is done with (the second
GET succeeds, the first fails) is not told from one that never comes.

## 3. Runs

| run | question | expected |
|---|---|---|
| batch_serial | executions do not overlap: is every failure accounted for, every batch replayed once per arming, does it live as BatchLifecycle promises? | holds |
| batch_live | requests, a stop and a crash or aborted execution: is an armed batch taken, a claimed one settled unless its execution was cut short? | holds |
| batch_next_time | are failed audits replayed "next time", as a comment says? | violated |
| doc_lock | three concurrent requests and a crash: has an etag one successor and one content? | holds |
| doc_trace | is nothing left of a refused write? | violated |
| props_dates | a writer, readers that repair, a crash: do dates and etags survive, and is it, one request at a time, the lock of CollectionLock? | holds |
| props_etag | two requests: does each write name the etag it replaces? | violated |
| cache_stale | how old can the properties be that a request is given? | bounded |
| pool_bounds | has a cursor one user, a slice a bounded height? | holds |
| pool_page | does a page start where it was asked to? | violated |
| services | inserts, notifications, replays, report jobs and tokens, with failures and restarts: what is kept, and what exactly can undo it? | holds |
| browser | answers in any order: what do session, tables, panels, settings and reports keep, and what exactly can undo it? | holds |

Two properties of batches and documents have their exceptions in them as well.
`ClaimedIsSettled`: a batch stays `processing` for ever if its destination type is
not handled, or if the execution at work on it crashes or is aborted by the driver,
since the query of the job takes stored and reprocess batches only; a fault at any
other time is no excuse. `OneWinner` is about writes accepted in place of a stored
document: where none is stored, DocumentDAO compares nothing, so that after a
DELETE a write is accepted whatever etag it names, one that won before included.

The code of services and browser has few locks, and most of what one would like
to hold of it can be undone by some race. Their properties therefore say what
holds *unless* a named cause occurred: each cause is a history variable set where
the race happens, and removing any of them makes TLC find a counterexample. The
property is thus a complete list of how the thing can go wrong:

* `Linked`: an audit lacks its payload only if its insert failed after the audit
  was stored (the catches of `auditInsert` remove the payload and not the
  audit); a payload lacks its audit only if the audit could not be parsed, the
  insert was cut off, or the database failed when the payload was stored or
  removed.
* `RateKept`, `StampHonoured`: two mails of an error are decided on within its period
  only if the insert of one met another between the check of the last time and
  its stamp, or the process was restarted between them, for the times are in
  memory. When they leave is another matter: nothing hurries a slow mail before
  the next. A stamp stands for no mail only if the mail failed or a refresh had
  emptied the map.
* `HistoryKept`: a recorded replay is lost only to one that read the history
  before and wrote it later.
* `JobsAreReports`: the running scheduler mails other than what is stored only
  if two requests were about one report, or one of them ended half-way. Since
  the answer to a POST is sent before its job is scheduled, one client can do it.
* `TokensHonoured`: a token is refused before the time stated only if it was
  revoked, lost in a restart, stored while another request was about to store
  one, or answered late.
* `HeaderIsCookie`, `IdentityPaired`, `LoggedOutStays`, `ReplaysNamed`: header and
  cookies always agree; name and token are of two users only if the form was
  changed during a login; who logged out is logged in again without pressing login
  only by the answer to a login that was under way when Logout was clicked, be it
  in the application, after its page was left, or in the menu of the login page
  itself. `EnvLogoutJustified`: who only returns to the login page
  is logged out, for the cookie's environment is an object (ultimotls.js:189).
* `CheckedAreReplayed`: the ids are those ticked while the table is in the order
  received; sorted the other way a batch replays as many rows, but other ones.
  `PayloadOfRow`: the payload is that of the answer that came last.
  `FormHonoured`: after a search by object id the page leaves out dates and custom
  fields for good.
* `ChartsAligned`, `CellsOpenTheirAudits`: a chart that shows the answer to its
  last call shows what is selected, unless half of a new window was set. A cell
  opens what it counts, if the treemap shows the answer to its last call and the
  cell was first drawn by its own dashboard's, but for the changes after which the
  treemap is not asked again. A treemap whose cells were kept for it shows another
  dashboard's answer, and a cell first drawn by the late answer to a dashboard that
  was left reads that one's scope: those are the causes.
* `EntriesKept`, `OneDocument`: a stored setting is lost, or a second document
  made, only by POSTs that overlap or fail half-way, by defaults saved after a
  failing GET, or by a page that had read before another one's settings were
  stored.
* `NothingReplaced`, `StoredOnce`: a row replaces another report's document, or a
  report is stored twice, only if a call's row had moved (a row above it was
  removed, or a GET answered late replaced the rows), or a row without an id was
  saved under the one the object kept; and the latter also if a row was saved again
  before the answer to its first save.

### What the violated ones show

* **batch_next_time** (BatchReplayJob.java:98 and 107). The failed audits of a
  batch are saved, a comment says, "in a separate document to replay next
  time". That document has the status `failed`, and the query of the job
  (l.47-51) leaves failed documents out: nothing replays it until a user arms
  it.
* **doc_trace** (DocumentDAO.java:188-190). A request A replaces version 1 and
  is about to be refused; B replaces what A wrote and is to be refused too. A
  restores version 1, then B restores what it replaced: A's content, which A's
  client was told was refused, stays.
* **props_etag** (CollectionDAO.java:272, 284, 296). The etag of the properties
  "must match to allow actual write". It is checked by a query of its own, and
  not at all if the (cached) properties were not there when the request came:
  the second of two requests replaces properties it never named.
* **pool_page** (CollectionDAO.java:211). A pooled cursor has its skip set and
  has not been opened. The page then calls `skip(rest)`, which in the driver
  replaces the skip instead of adding to it: with the default configuration the
  second read of page 11 of pages of 100 starts at document 100.

One more disagreement has no run of its own. `@DisallowConcurrentExecution`
(BatchReplayJob.java:30) holds within one scheduler, but
`scheduler.shutdown()` (SchedulerService.java:117) does not wait for the job and
the next scheduler knows nothing of it, so two executions can run at once.
`Spec` of BatchReplay contains these behaviours and FailuresAreKept is proved of
all of them; the other properties are claimed only where executions do not
overlap (`SerialSpec`).

### Bounds

* Batches, batch_serial: three documents, two of them stored by users, so that a
  cursor holds two and one has a child, two audits so that a batch fails in full or
  in part, one arming per document counted from its insertion (a child can be armed
  again), one stop, one crash or aborted execution. The proofs remove the bounds
  for the invariants.
* Batches, batch_live: two stored ones of one audit each, so that one waits for the
  other in a cursor, a user who removes and twice arms, one stop, one crash or aborted
  execution; children are left to batch_serial.
* Documents: three requests (a refused one, the one that overtakes it, a
  bystander), four writes, one crash.
* Collection properties: two requests, three etags, one crash: a creation, a
  change or a removal, and a second creation.
* Cache: time to live 3, loads of up to 2 ticks, 3 changes, 9 ticks: an entry
  is written, expires and is loaded again after an invalidation.
* Pool: two requests, skips of three slices, the heights <<2, 1>>, a pool of 3
  that is smaller than what the slices ask for, two pending tasks, 4 cursors.
* Services: two threads with three inserts and a period of 1 in a time of 3 (a
  mail, one kept silent, one after the period), or with two inserts and a restart
  (a mail before it, and one after it); three replays of one audit (one
  overtaken by another, one after both); three requests at a time for two reports
  and two versions (a POST, and one that meets it or a start or stop);
  two requests with two tokens that live for 2 in a time of 3. The names of the
  replays stand for the three threads of ReportJobs, so that one symmetry serves
  both.
* Browser: two calls under way at a time, one may overtake the other; two users,
  two environments of which one is set up; two rows on two pages of a result and
  an empty result; three ways to fill in the advanced form (by id, by keyword, by
  field); three calls of panels under way, one of them for a dashboard that was left,
  a chart beside the treemap and a window that ends before it starts; two
  settings pages with two saves and one failure; three reports, two of them
  stored when the page opens, four ids, the three GETs and three further calls.

Symmetry is used for batches, audits, threads and requests, which no definition
tells apart, and only for safety. `CHECK_DEADLOCK FALSE` is there because all of
these systems may stop: nobody is obliged to send a request, and bounds run
out.

### Fairness

Only batch_live and batch_next_time need it. Weak fairness of `JobStep` for
each thread (Quartz threads run, and a destination answers or fails), of
`FireJob` (the trigger of a scheduled job repeats for ever) and of the second
half of a request that was begun. Nothing obliges a user to send anything or an
operator to start the scheduler: the properties say "if the job stays
scheduled from some time on".

## 4. Proofs

Each theorem is about every value of the constants that satisfies the named
assumptions of its module, all of which TLC evaluates on the runs:

* null values (`NoBatch`, `NoTag`, `None`, ...) are not among the values they stand
  for, bounds are numbers, and sets whose elements are counted are finite;
* `Replayable \subseteq Audit`, `Prod \in Env`, `EnvSetup \subseteq Env`,
  `Related \subseteq Row`: these are parts of what they are taken from;
* a slice is at least one document wide, a pool has room for at least one cursor
  (`SliceAssumption`, `PoolAssumption`; PropsCache's `TTL` may be any integer);
* no chart is called "treemap", and the calls of a dashboard that was left are bounded
  by a number (`PanelsDiffer`);
* the reports stored when their page opens fit under the bound of ids
  (`ReportsAssumption`);
* the server's answers (`AuditAssumption`): every query has at least one page,
  if an empty one, at most as many as there are rows, and a page lists no row twice
  (a row is an audit of its own `_id`); a stamp is a number, and a form is made of
  the fields the page has.

| theorem | says | by |
|---|---|---|
| BatchReplayProofs!TypeCorrect | `Spec => []TypeOK` | induction |
| BatchReplayProofs!FailuresAreKept | `Spec => []NoFailureForgotten` | `TypeOK /\ AccountInv` |
| BatchReplayProofs!ReplayedOncePerArming | `SerialSpec => []AtMostOncePerArming` | `TypeOK /\ SerialInv` |
| BatchReplayProofs!OneChildPerBatch | `SerialSpec => []AtMostOneChild` | the same |
| BatchReplayProofs!ProcessedStays | `SerialSpec => ProcessedIsFinal` | the same, as an action property |
| BatchReplayProofs!LifecycleImplemented | `SerialSpec => ImplementsLifecycle` | the same and a step simulation |
| DocumentStoreProofs!OneWinnerPerEtag | `Spec => []OneWinner` | `LockInv` |
| DocumentStoreProofs!EtagsNameVersions | `Spec => []EtagNamesVersion` | the same |
| DocumentStoreProofs!SerialImplementsLock | `SerialSpec => ImplementsLock` | `LockInv` and a step simulation |
| CollectionPropsProofs!CreationDateKept | `OneWriterSpec => []CreatedKept` | `PropsInv` |
| CollectionPropsProofs!PropertiesNeverStuck | `OneWriterSpec => []NeverStuck` | the same |
| CollectionPropsProofs!LockImplemented | `SerialSpec => ImplementsLock` | `SerialInv` and a step simulation |
| CollectionPropsProofs!SerialBehavioursImplementLock | `RegimeSpec => SerialImplementsLock` | LockImplemented |
| PropsCacheProofs!StalenessIsBounded | `Spec => []StaleBound` | `CacheInv` |
| PropsCacheProofs!InvalidationIsFinal | `Spec => []InvalidatedForGood` | the same |
| CursorPoolProofs!CursorsHeldOnce | `Spec => []HeldOnce` | types, finiteness, `HeldInv` |
| CursorPoolProofs!HeightsBounded | `Spec => []HeightBound` | the same with `HeightInv` |
| CursorPoolProofs!PoolIsSound | `Spec => []PoolInv` | the same |
| ServicesProofs!TypeCorrect | `Spec => []TypeOK` | induction |
| ServicesProofs!AuditsAreLinked | `Spec => []Linked` | `LinkInv` |
| ServicesProofs!RateIsKept | `Spec => []RateKept` | `RateInv` |
| ServicesProofs!StampsAreHonoured | `Spec => []StampHonoured` | `StampInv` |
| ServicesProofs!HistoryIsKept | `Spec => []HistoryKept` | `HistoryInv` |
| ServicesProofs!TokensAreHonoured | `MCSpec => []TokensHonoured` | `TokensInv` |
| ServicesProofs!JobsAreTheReports | `MCSpec => []JobsAreReports` | `JobsInv` |
| ServicesProofs!TypesAreRight | `MCSpec => []TypesOK` | all of these |
| DashboardProofs!ChartsAreAligned | `Spec => []ChartsAligned` | `AgreeInv` |
| DashboardProofs!CellsAreTrue | `Spec => []CellsOpenTheirAudits` | the same |
| BrowserProofs!HeadersAreCookies | `Spec => []HeaderIsCookie` | `SessionHolds` |
| BrowserProofs!IdentitiesArePaired | `Spec => []IdentityPaired` | the same |
| BrowserProofs!LogoutsLast | `Spec => []LoggedOutStays` | the same |
| BrowserProofs!EnvLogoutsAreJustified | `Spec => []EnvLogoutJustified` | the same |
| BrowserProofs!ReplaysAreNamed | `Spec => []ReplaysNamed` | the same |
| BrowserProofs!BatchesAreTheBoxes | `Spec => []CheckedAreReplayed` | `AuditInv` |
| BrowserProofs!PayloadsAreTheRows | `Spec => []PayloadOfRow` | the same |
| BrowserProofs!FormsAreHonoured | `Spec => []FormHonoured` | the same |
| BrowserProofs!EntriesAreKept | `Spec => []EntriesKept` | `SettingsHold` |
| BrowserProofs!DocumentIsOne | `Spec => []OneDocument` | the same |
| BrowserProofs!NothingIsReplaced | `Spec => []NothingReplaced` | `ReportsHold` |
| BrowserProofs!ReportsAreStoredOnce | `Spec => []StoredOnce` | the same |
| BrowserProofs!TypesHold | `Spec => []TypeOK` | all five parts |

Why the invariants are what they are:

* `AccountInv`. That a processed batch is accounted for is not inductive: the
  step that marks it relies on what the execution did before. `ReplayAccounts`
  follows every replayable audit through the execution (pending, failed,
  succeeded, listed in the child), and `SnapshotsAgree` says that the list of
  audits an execution read is still the stored one. Neither needs executions
  not to overlap.
* `SerialInv` of BatchReplay. A batch in the cursor is still armed or removed, has
  no child and one run less than armings; the batch in hand is processing or
  removed. This fails as soon as executions overlap. With it every step is one of
  BatchLifecycle under the mapping `LifeOf`, or changes no life: what the job does
  to a batch it claimed is allowed there, for the batch is still claimed, and a
  request's conditional write only succeeds on the status it read.
* `LockInv`. An etag is in one place: stored, or held by the one request that
  is to save it back, or gone for good. A write that replaces a document can only
  win over the stored one, and one that was won over never comes back: no write
  over nothing, whatever it names, stores an etag that was there before.
* `PropsInv`. While a PUT is to put the date back, the properties are there and
  the date it holds is that of their creation. The assumption of
  `OneWriterSpec`, that a DELETE overlaps with reads only and a PUT with reads
  and PATCHes, is needed: an upsert after a DELETE brings back properties
  without an etag.
* `SerialInv` of CollectionProps. The mapping to CollectionLock looks ahead: while a
  request is between its writes, `Settled` and `SettledData` are the properties as
  they will be. The invariant says where a lone request may be with which
  properties stored and cached; in particular, when it checks the etag the cache
  told it the truth about whether the properties exist. Two at once refute this
  (props_etag).
* `CacheInv`. What is cached or being loaded was stored recently enough, and
  entries are ordered in time with the invalidations.
* The pool: what the running task is still to create fits under the height of
  its slice, because one thread counts and creates; ids tell cursors apart. The
  size of the pool is kept by the eviction that goes with each entry.
* `LinkInv`. No two threads are at one insert, and a thread's place says what of
  its insert is stored: the payload until the thread is done, the audit from when
  it is notified of; a catch meets a stored audit only if the insert is `late`.
  Nothing is stored of an insert to come.
* `RateInv`. Of the mails since the last start, sent or on their way, whose inserts
  met no other, none is after the last stamp and all of them lie a period apart,
  and whoever is about to stamp, having met another or not, has read a time more
  than a period later than theirs (`Later`). A stamp of an insert that met another may
  turn the last time back, but not before those. The mails of earlier lives keep the
  distances they had.
* `StampInv`. A thread that is to look at the map again finds the notification
  there, or its time is among `crossed`. `HistoryInv`: what a replay has read of the history
  contains all recorded ones but those it overtakes.
* `TokensInv`. A token still valid by its answers is the one cached, and its
  entry lives as long as they said (`StatedIsCached`); so is one that is about to be
  answered while no time passes (`ReadIsCached`); who is about to store a token found
  none that is valid, but for races (`StorerFoundNone`).
* `JobsInv`. The scheduler vouches for the reports nobody has crossed (`Sure`). At
  most one request is about such a report, and `Due` says for each of its places
  what is already in the scheduler and what it still has to do, so that the report
  is `Mailed` when it leaves. A scheduler without a name vouches for none.
* `AgreeInv`. The last call of a panel, under way or drawn, is of the dashboard
  shown and asks what is selected, but for what `skew` names; any number of earlier
  ones, and of ones for dashboards that were left, may be under way as well. Cells
  put back count as drawn by an earlier one.
* `SessionHolds`. A login under way reads, in the form or in its copy, what it sent
  (`FormsKept`); checks that outlive their page or meet each other have crossed, and
  none of a login is under way for who has logged out without one (`ChecksCross`); the name the credentials carry is in every place a later answer
  takes it from (`NamesPaired`), and so is the environment (`EnvAsked`).
* `AuditInv`. The rows shared are the rows shown unless a controller that was left
  wrote them (`RowsShared`); the boxes stay as they were when a batch's dialog was
  opened (`TickedKept`); the last call for a payload is for the row asked for, and
  only within a row's dialog (`PayloadAsked`, `DialogsDiffer`). That a sorted table
  still replays as many rows as are ticked rests on a lemma of its own, ShownRows:
  the order of the table is strict and total, so every rank is taken once
  (RanksAreTaken), and the table is a permutation of the page.
* `SettingsHold`. Without overlapping POSTs there is one document, none between the
  removal and the insert (`OneAtATime`); without a cause for a loss, all that was
  ever stored is in every POST under way, on every page that may yet save and in
  every answer a page is still to get, unless those are defaults or stale
  (`AllHeld`). Ids of new settings never run out of their bound (`Counted`).
* `ReportsHold`. A row, one read and not yet delivered, a call and a document claim an
  id. An id is claimed for one report and a call finds its row (`IdsDiffer`) unless
  rows were shifted or an id was kept; a report is claimed under one id, and by one call while it has none
  (`SavedOnce`), unless it was saved again.

SerialImplementsLock of the documents was established by proof alone; no run
repeats it. TLC has checked the inductive invariants on the constants of the
runs; as they are proved, no run repeats them.

Checked by TLC only: liveness (`ArmedIsTaken` and `ClaimedIsSettled` of batch_live),
which rests on fairness and ENABLED and is out of reach of TLAPS; and the violated
properties, which have a counterexample and no proof.

## 5. Not modelled

The listed components of status "not_modelled" in PROJECT.json, with the reason
each, and of the modelled ones:

* The third-party JavaScript under lib/ (angular.js, jquery, ui-bootstrap, the
  date picker, localStorage): by far most of the JavaScript lines of the
  repository, modelled only in what the pages use of it. The sunburst and test
  dashboards, which index.html never loads. So only a small share of all lines of
  JavaScript is the application's, and the models are of that part and of the
  Java services behind it.
* Search, login, aggregation, formatting of answers and mails, the HAL layout and
  the drawing of charts: queries and layout, without state that steps could
  interleave on.
* The transport of a replay (its outcome is modelled), logging, the names and
  text of fields.
* The window of time of a report (ReportJob.java:50): from the previous fire time
  to the moment it runs, so reports may overlap by the delay of an execution, and
  after a restart the first one has no previous time.
* The product `pagesize * (page - 1)` (CollectionDAO.java:189), which is one of 32
  bits and wraps for far pages.
* The etags of files and databases, each checked in one call and acted upon in
  another, like those of collections.
* The buttons of the scheduler and of the batch job on the settings page: they are
  the requests of BatchReplay and ReportJobs.

## 6. Plan

In this order; each extends what is there.

1. **Report windows**: fire times, restarts and the clock.
2. **Database properties**: CollectionProps for databases, with the drop.
3. Pure algorithms, one module each, checked against reference definitions over
   bounded inputs: paging arithmetic in 32 bits, request types and handler
   dispatch, JsonUtils paths, URL decoding, metadata chains.
4. **Files, Indexes, Lifecycle**.
5. Proofs: that the regimes the violated runs leave out are exact, that is, that
   props_etag and pool_page hold where the cache is fresh and pages start on a slice.
