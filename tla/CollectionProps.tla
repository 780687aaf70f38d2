-------------------------- MODULE CollectionProps --------------------------
(***************************************************************************)
(* The properties document of one collection, in a database whose own      *)
(* properties exist: the GET, PUT, PATCH and DELETE requests on the        *)
(* collection, the cache their properties are injected from, and the       *)
(* repair of missing properties.                                           *)
(*                                                                         *)
(* A request is first given the properties, from the cache or, on a miss,  *)
(* from the database, where missing ones are added if the collection       *)
(* exists. Its handler then checks the etag with a query and writes with   *)
(* another; a PUT puts the creation date back with a third. The cache is   *)
(* invalidated after the request was answered.                             *)
(***************************************************************************)
EXTENDS Naturals

CONSTANTS
  Request,     \* the requests that are being served at a time
  NoTag,       \* no _etag; no If-Match header
  Garbage,     \* an If-Match header that is no ObjectId: it matches nothing
  NoDate,      \* no _created_on
  NotCached,   \* the cache has no entry
  MaxWrites,   \* bound: etags issued
  MaxCrashes   \* bound: process crashes

ASSUME CollectionPropsAssumption ==
  /\ {NoTag, Garbage, NoDate} \cap Nat = {} /\ NoTag # Garbage
  /\ NotCached \notin [etag : Nat \cup {NoTag}, created : Nat \cup {NoDate}]
  /\ MaxWrites \in Nat /\ MaxCrashes \in Nat

VARIABLES
  props,     \* the stored properties
  data,      \* whether the collection itself exists in the database
  issued,    \* the etags issued so far; the n-th is issued at date n
  cache,     \* the cached properties
  pc,        \* per request: what it does next
  req,       \* per request: its method, the etag it names, the properties it
             \* was given and the creation date it is to put back
  crashes,   \* how many crashes there have been
  born,      \* history: when the stored properties were created
  verdict    \* history: what the last request named and replaced

storeVars == <<props, data, issued, born, verdict>>
vars == <<storeVars, cache, pc, req, crashes>>

Props  == [etag : Nat \cup {NoTag}, created : Nat \cup {NoDate}]
Absent == [etag |-> NoTag, created |-> NoDate]
Fresh  == [etag |-> issued + 1, created |-> issued + 1]

Method == {"GET", "PUT", "PATCH", "DELETE"}
NoRequest == [op |-> "GET", tag |-> NoTag, seen |-> Absent, date |-> NoDate]

\* The locals of a request are gone once it is answered.
Step(r, label, locals) ==
  /\ pc' = [pc EXCEPT ![r] = label]
  /\ req' = [req EXCEPT ![r] = IF label \in {"idle", "answered"} THEN NoRequest ELSE locals]

Goto(r, label) == Step(r, label, req[r])

Tags == 1..issued \cup {NoTag, Garbage}

-----------------------------------------------------------------------------
(* CollectionPropsInjectorHandler and LocalCachesSingleton.                *)

Begin(r, o, t) ==
  /\ pc[r] = "idle"
  /\ Step(r, "inject", [NoRequest EXCEPT !.op = o, !.tag = t])
  /\ UNCHANGED <<storeVars, cache, crashes>>

\* A request that creates nothing is answered 404 when there are no properties.
Injected(r, p) ==
  /\ Step(r, CASE req[r].op = "GET" -> "idle"
               [] req[r].op = "PUT" -> "check"
               [] OTHER -> IF p = Absent THEN "idle" ELSE "check",
             [req[r] EXCEPT !.seen = p])
  /\ UNCHANGED <<storeVars, crashes>>

CacheHit(r) ==
  /\ pc[r] = "inject"
  /\ cache # NotCached
  /\ Injected(r, cache)
  /\ UNCHANGED cache

Loading == {"fix", "exists", "insert", "reload", "loaded"}

\* The first to miss loads, the others wait for it.
Load(r) ==
  /\ pc[r] = "inject"
  /\ cache = NotCached
  /\ \A s \in Request : pc[s] \notin Loading
  /\ Step(r, IF props = Absent THEN "fix" ELSE "loaded", [req[r] EXCEPT !.seen = props])
  /\ UNCHANGED <<storeVars, cache, crashes>>

Loaded(r) ==
  /\ pc[r] = "loaded"
  /\ cache' = req[r].seen
  /\ Injected(r, req[r].seen)

-----------------------------------------------------------------------------
(* PropsFixer.addCollectionProps, during a load that found no properties.  *)

FixFind(r) ==
  /\ pc[r] = "fix"
  /\ Goto(r, IF props = Absent THEN "exists" ELSE "reload")
  /\ UNCHANGED <<storeVars, cache, crashes>>

FixExists(r) ==
  /\ pc[r] = "exists"
  /\ Goto(r, IF data THEN "insert" ELSE "reload")
  /\ UNCHANGED <<storeVars, cache, crashes>>

FixInsertOf(r, p) ==
  /\ pc[r] = "insert"
  /\ issued < MaxWrites
  /\ props = Absent
  /\ props' = p
  /\ issued' = issued + 1
  /\ born' = issued + 1
  /\ Goto(r, "reload")
  /\ UNCHANGED <<data, verdict, cache, crashes>>

\* Mutation: the added properties have no etag.
FixInsertBare(r) == FixInsertOf(r, [Fresh EXCEPT !.etag = NoTag])

FixInsert(r) == FixInsertOf(r, Fresh)

\* The properties are there by now: the insert fails, and the request with it.
FixDuplicate(r) ==
  /\ pc[r] = "insert"
  /\ props # Absent
  /\ Goto(r, "idle")
  /\ UNCHANGED <<storeVars, cache, crashes>>

Reload(r) ==
  /\ pc[r] = "reload"
  /\ Step(r, "loaded", [req[r] EXCEPT !.seen = props])
  /\ UNCHANGED <<storeVars, cache, crashes>>

-----------------------------------------------------------------------------
(* The handlers and CollectionDAO.                                         *)

\* Whether the request changes properties, as far as it was told.
Updating(r) == req[r].op # "PUT" \/ req[r].seen # Absent

\* Properties that are there are changed only by their etag.
EtagMatches(r) == Updating(r) => req[r].tag # NoTag /\ props.etag = req[r].tag

\* Without an etag a PATCH or DELETE is answered at once, a PUT is answered
\* as every refused request is, and invalidates the cache like it.
Refused(r) ==
  /\ pc[r] = "check"
  /\ ~EtagMatches(r)
  /\ verdict' = [tag |-> req[r].tag, over |-> NoTag, accepted |-> FALSE]
  /\ Goto(r, IF req[r].tag = NoTag /\ req[r].op # "PUT" THEN "idle" ELSE "answered")
  /\ UNCHANGED <<props, data, issued, born, cache, crashes>>

Checked(r) ==
  /\ pc[r] = "check"
  /\ EtagMatches(r)
  /\ Goto(r, "write")
  /\ UNCHANGED <<storeVars, cache, crashes>>

Accept(r) ==
  verdict' = [tag |-> req[r].tag, over |-> props.etag, accepted |-> TRUE]

\* update with $set, which inserts the document if it is gone.
Patch(r) ==
  /\ pc[r] = "write" /\ req[r].op = "PATCH"
  /\ issued < MaxWrites
  /\ issued' = issued + 1
  /\ props' = [props EXCEPT !.etag = issued + 1]
  /\ born' = IF props = Absent THEN issued + 1 ELSE born
  /\ Accept(r)
  /\ Goto(r, "answered")
  /\ UNCHANGED <<data, cache, crashes>>

\* The date of the replaced properties, now if they had none.
OldDate == IF props.created = NoDate THEN issued + 1 ELSE props.created

\* findAndModify: an update has no _created_on of its own.
PutWith(r, kept) ==
  /\ pc[r] = "write" /\ req[r].op = "PUT"
  /\ issued < MaxWrites
  /\ issued' = issued + 1
  /\ props' = IF Updating(r) THEN [Fresh EXCEPT !.created = NoDate] ELSE Fresh
  /\ born' = IF props = Absent THEN issued + 1 ELSE born
  /\ Accept(r)
  /\ Step(r, IF props = Absent THEN "redate new" ELSE "redate", [req[r] EXCEPT !.date = kept])
  /\ UNCHANGED <<data, cache, crashes>>

\* Mutation: a PUT that was given no properties takes itself for a creation.
PutDatedNow(r) == PutWith(r, IF Updating(r) THEN OldDate ELSE issued + 1)

Put(r) == PutWith(r, OldDate)

PutBackOf(r, created) ==
  /\ pc[r] \in {"redate", "redate new"}
  /\ props' = [props EXCEPT !.created = created]
  /\ born' = IF props = Absent THEN created ELSE born
  /\ Goto(r, IF pc[r] = "redate new" THEN "index" ELSE "answered")
  /\ UNCHANGED <<data, issued, verdict, cache, crashes>>

\* update with $set, which inserts a document if the properties are gone.
PutBack(r) == PutBackOf(r, req[r].date)

\* initDefaultIndexes creates the collection.
CreateIndexes(r) ==
  /\ pc[r] = "index"
  /\ data' = TRUE
  /\ Goto(r, "answered")
  /\ UNCHANGED <<props, issued, born, verdict, cache, crashes>>

RemoveProps(r) ==
  /\ pc[r] = "write" /\ req[r].op = "DELETE"
  /\ props' = Absent
  /\ Accept(r)
  /\ Goto(r, "drop")
  /\ UNCHANGED <<data, issued, born, cache, crashes>>

Drop(r) ==
  /\ pc[r] = "drop"
  /\ data' = FALSE
  /\ Goto(r, "answered")
  /\ UNCHANGED <<props, issued, born, verdict, cache, crashes>>

\* Mutation: the entry is kept.
KeepEntry(r) ==
  /\ pc[r] = "answered"
  /\ Goto(r, "idle")
  /\ UNCHANGED <<storeVars, cache, crashes>>

\* The client has its answer already.
Invalidate(r) ==
  /\ pc[r] = "answered"
  /\ cache' = NotCached
  /\ Goto(r, "idle")
  /\ UNCHANGED <<storeVars, crashes>>

-----------------------------------------------------------------------------
(* Everything else.                                                        *)

\* A document is written, by a request for it or by one of the services that
\* use the database directly: the collection is created if need be.
WriteDocument ==
  /\ ~data
  /\ data' = TRUE
  /\ UNCHANGED <<props, issued, born, verdict, cache, pc, req, crashes>>

\* The time to live of the cache entry is over.
Expire ==
  /\ cache # NotCached
  /\ cache' = NotCached
  /\ UNCHANGED <<storeVars, pc, req, crashes>>

\* The process ends and starts again: fixAllMissingProps runs before requests
\* are accepted.
Crash ==
  /\ crashes < MaxCrashes
  /\ issued < MaxWrites
  /\ crashes' = crashes + 1
  /\ pc' = [r \in Request |-> "idle"]
  /\ req' = [r \in Request |-> NoRequest]
  /\ cache' = NotCached
  /\ IF props = Absent /\ data
       THEN props' = Fresh /\ issued' = issued + 1
       ELSE UNCHANGED <<props, issued>>
  /\ born' = props'.created
  /\ UNCHANGED <<data, verdict>>

Init ==
  /\ props = Absent
  /\ data \in BOOLEAN
  /\ issued = 0
  /\ cache = NotCached
  /\ pc = [r \in Request |-> "idle"]
  /\ req = [r \in Request |-> NoRequest]
  /\ crashes = 0
  /\ born = NoDate
  /\ verdict = [tag |-> NoTag, over |-> NoTag, accepted |-> FALSE]

BeginAny(r) == \E o \in Method, t \in Tags : Begin(r, o, t)

Serve(r) ==
  \/ CacheHit(r) \/ Load(r) \/ Loaded(r)
  \/ FixFind(r) \/ FixExists(r) \/ FixInsert(r) \/ FixDuplicate(r) \/ Reload(r)
  \/ Refused(r) \/ Checked(r)
  \/ Patch(r) \/ Put(r) \/ PutBack(r) \/ CreateIndexes(r)
  \/ RemoveProps(r) \/ Drop(r) \/ Invalidate(r)

Next ==
  \/ \E r \in Request : BeginAny(r) \/ Serve(r)
  \/ WriteDocument \/ Expire \/ Crash

Spec == Init /\ [][Next]_vars

\* A request that is not answered yet.
Active(r) == pc[r] \notin {"idle", "answered"}

\* A DELETE overlaps with GETs only, a PUT with GETs and PATCHes.
Compatible(r, s) ==
  /\ Active(r) /\ req[r].op = "DELETE" /\ Active(s) => req[s].op = "GET"
  /\ Active(r) /\ req[r].op = "PUT" /\ Active(s) => req[s].op \in {"GET", "PATCH"}

OneWriter == \A r, s \in Request : r # s => Compatible(r, s)

OneWriterSpec == Init /\ [][Next /\ OneWriter']_vars

\* A request begins when the one before it has been answered and is over.
SerialNext ==
  \/ \E r \in Request : /\ BeginAny(r) \/ Serve(r)
                        /\ \A s \in Request \ {r} : pc[s] = "idle"
  \/ WriteDocument \/ Expire

SerialSpec == Init /\ [][SerialNext]_vars

-----------------------------------------------------------------------------
(* Properties.                                                             *)

Label == Loading \cup {"idle", "inject", "check", "write", "redate", "redate new",
                     "index", "drop", "answered"}

Locals == [op : Method, tag : Nat \cup {NoTag, Garbage},
           seen : Props, date : Nat \cup {NoDate}]

TypeOK ==
  /\ props \in Props
  /\ data \in BOOLEAN
  /\ issued \in Nat
  /\ cache \in Props \cup {NotCached}
  /\ pc \in [Request -> Label]
  /\ req \in [Request -> Locals]
  /\ crashes \in Nat
  /\ born \in Nat \cup {NoDate}
  /\ verdict \in [tag : Nat \cup {NoTag, Garbage}, over : Nat \cup {NoTag},
                 accepted : BOOLEAN]

Redating(r) == pc[r] \in {"redate", "redate new"}

\* Properties keep the date they were created at, however stale the cache is
\* and whatever PATCHes, reads and repairs come between a PUT and the update
\* that puts the date back (CollectionDAO.java:327-341). A crash between the
\* two loses the date.
CreatedKept ==
  props # Absent /\ (\A r \in Request : ~Redating(r)) => born \in {NoDate, props.created}

\* Stored properties have an etag. Without one no PUT, PATCH or DELETE could
\* ever match them again, and no repair would replace them.
NeverStuck == props # Absent => props.etag # NoTag

\* What CollectionDAO.java:272 says of the etag: it "must match to allow actual
\* write". A write that replaces properties names their etag.
EtagMustMatch == verdict.accepted => verdict.over \in {NoTag, verdict.tag}

\* The properties once the creation date is back in them.
Settled ==
  IF \E r \in Request : Redating(r)
    THEN [props EXCEPT !.created = req[CHOOSE r \in Request : Redating(r)].date]
    ELSE props

\* Whether the collection exists once it is created, or dropped.
SettledData ==
  CASE \E r \in Request : pc[r] \in {"redate new", "index"} -> TRUE
    [] \E r \in Request : pc[r] = "drop" -> FALSE
    [] OTHER -> data

Lock == INSTANCE CollectionLock WITH props <- Settled, data <- SettledData

\* While requests do not overlap, the cached checks and the separate writes are
\* the optimistic lock they are meant to be.
ImplementsLock == Lock!Spec

-----------------------------------------------------------------------------
(* Inductive invariant of OneWriterSpec.                                   *)

\* The properties a PUT is to date, or a PATCH to change, are still there.
StillThere ==
  \A r \in Request :
    /\ Redating(r) => req[r].op = "PUT" /\ props # Absent
    /\ pc[r] = "write" /\ req[r].op = "PATCH" => props # Absent

\* What a PUT is to put back is the date of creation.
DateHeld == \A r \in Request : Redating(r) => born \in {NoDate, req[r].date}

PropsInv ==
  TypeOK /\ OneWriter /\ StillThere /\ DateHeld /\ CreatedKept /\ NeverStuck

-----------------------------------------------------------------------------
(* Inductive invariant of SerialSpec.                                      *)

OneRequest == \A r, s \in Request : r # s => pc[r] = "idle" \/ pc[s] = "idle"

TagsIssued == \A r \in Request : req[r].tag \in Tags

\* Until a request has written, the cache is empty or says what is stored.
Written == {"redate", "redate new", "index", "drop", "answered"}
CacheTrue ==
  /\ (\A r \in Request : pc[r] \notin Written) => cache \in {NotCached, props}
  /\ \A r \in Request : pc[r] \in Loading => cache = NotCached

\* A request changes what it was given, having named its etag if there is one.
Informed(r) ==
  /\ pc[r] \in {"loaded", "check", "write"} => req[r].seen = props
  /\ pc[r] \in {"check", "write"} =>
       req[r].op # "GET" /\ (req[r].op = "PUT" \/ props # Absent)
  /\ pc[r] = "write" => EtagMatches(r)
  /\ pc[r] = "insert" => data
  /\ Redating(r) => props # Absent /\ req[r].date # NoDate
AllInformed == \A r \in Request : Informed(r)

Dated == props # Absent /\ (\A r \in Request : ~Redating(r)) => props.created # NoDate

SerialInv ==
  TypeOK /\ OneRequest /\ TagsIssued /\ CacheTrue /\ AllInformed /\ Dated /\ NeverStuck
=============================================================================
