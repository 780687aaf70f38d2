---------------------------- MODULE DocumentStore ----------------------------
(***************************************************************************)
(* One document of a RESTHeart collection, and the PUT, PATCH, POST and    *)
(* DELETE requests that write it through DocumentDAO. Requests for other   *)
(* documents do not touch it.                                              *)
(*                                                                         *)
(* A write replaces the document first (findAndModify, which returns the   *)
(* document it replaced) and checks the etag of the request against the    *)
(* replaced document afterwards: on a mismatch it saves that document back *)
(* and answers 409 or 412. Between the two steps anybody may see or        *)
(* replace what was written.                                               *)
(***************************************************************************)
EXTENDS Naturals

CONSTANTS
  Request,     \* the requests that are being served at a time
  NoTag,       \* the etag of a document that has none; no If-Match header
  Garbage,     \* an If-Match header that is no ObjectId: it matches nothing
  MaxWrites,   \* bound: writes
  MaxCrashes   \* bound: process crashes

ASSUME DocumentStoreAssumption ==
  /\ NoTag \notin Nat /\ Garbage \notin Nat /\ NoTag # Garbage
  /\ MaxWrites \in Nat /\ MaxCrashes \in Nat

VARIABLES
  doc,       \* the stored document
  issued,    \* the etags issued so far: 1..issued
  pc,        \* per request: "idle", or "restore" once the etag did not match
  held,      \* per request: the document it replaced and is to save back
  mine,      \* per request: the etag it was given
  crashes,   \* how many crashes there have been
  wins,      \* history: the accepted writes that named an etag, and what they
             \* replaced
  refused,   \* history: the etags of the writes answered 409 or 412
  versions,  \* history: the documents that were ever stored
  verdict    \* history: what the last write named, and whether it was accepted

reqVars == <<pc, held, mine>>
vars == <<doc, issued, reqVars, crashes, wins, refused, versions, verdict>>

-----------------------------------------------------------------------------
\* parts abstracts the fields of a document: the writes that supplied them,
\* 0 for a document stored by somebody else, without an _etag.
Version == [etag : Nat \cup {NoTag}, parts : SUBSET Nat]
Absent  == [etag |-> NoTag, parts |-> {}]
Foreign == [etag |-> NoTag, parts |-> {0}]

Op == {"PUT", "PATCH", "DELETE"}

\* Mutation: a patch leaves the _etag as it was.
WrittenEtagKept(op, n) ==
  CASE op = "PUT"    -> [etag |-> n, parts |-> {n}]
    [] op = "PATCH"  -> [etag |-> doc.etag, parts |-> doc.parts \cup {n}]
    [] op = "DELETE" -> Absent

\* The document after the n-th write. POST writes as PUT does.
Written(op, n) ==
  CASE op = "PUT"    -> [etag |-> n, parts |-> {n}]
    [] op = "PATCH"  -> [etag |-> n, parts |-> doc.parts \cup {n}]
    [] op = "DELETE" -> Absent

\* optimisticCheckEtag of the replaced document, which is the stored one
\* here: a document without an etag, and no document at all, match any tag.
Matches(tag) == doc.etag \in {NoTag, tag}

-----------------------------------------------------------------------------
\* findAndModify. A PATCH or a DELETE of no document is answered 404.
Write(r, op) ==
  /\ pc[r] = "idle"
  /\ issued < MaxWrites
  /\ op # "PUT" => doc # Absent
  /\ issued' = issued + 1
  /\ doc' = Written(op, issued + 1)
  /\ versions' = versions \cup {Written(op, issued + 1)}

\* The etag of the replaced document matches: the write stands.
Accepted(r, op, tag) ==
  /\ Write(r, op)
  /\ Matches(tag)
  /\ wins' = IF tag \in {NoTag, Garbage} THEN wins
             ELSE wins \cup {[named |-> tag, over |-> doc, by |-> issued + 1]}
  /\ verdict' = [tag |-> tag, accepted |-> TRUE]
  /\ UNCHANGED <<reqVars, crashes, refused>>

\* It does not: the request holds the replaced document, to save it back.
Mismatched(r, op, tag) ==
  /\ Write(r, op)
  /\ ~Matches(tag)
  /\ pc' = [pc EXCEPT ![r] = "restore"]
  /\ held' = [held EXCEPT ![r] = doc]
  /\ mine' = [mine EXCEPT ![r] = issued + 1]
  /\ verdict' = [tag |-> tag, accepted |-> FALSE]
  /\ UNCHANGED <<crashes, wins, refused>>

RestoreWith(r, version, next) ==
  /\ pc[r] = "restore"
  /\ doc' = version
  /\ versions' = versions \cup {version}
  /\ pc' = [pc EXCEPT ![r] = next]
  /\ refused' = refused \cup {mine[r]}
  /\ UNCHANGED <<issued, held, mine, crashes, wins, verdict>>

\* Mutation: the document is saved back once more.
RestoreAgain(r) == \E next \in {"restore", "idle"} : RestoreWith(r, held[r], next)

\* coll.save(oldDocument): whatever is stored by now is replaced.
Restore(r) == RestoreWith(r, held[r], "idle")

\* The process ends: what was to be saved back is gone.
Crash ==
  /\ crashes < MaxCrashes
  /\ crashes' = crashes + 1
  /\ pc' = [r \in Request |-> "idle"]
  /\ UNCHANGED <<doc, issued, held, mine, wins, refused, versions, verdict>>

-----------------------------------------------------------------------------
Init ==
  /\ doc \in {Absent, Foreign}
  /\ issued = 0
  /\ pc = [r \in Request |-> "idle"]
  /\ held = [r \in Request |-> Absent]
  /\ mine = [r \in Request |-> 0]
  /\ crashes = 0
  /\ wins = {} /\ refused = {}
  /\ versions = {doc}
  /\ verdict = [tag |-> NoTag, accepted |-> TRUE]

Tags == 1..issued \cup {NoTag, Garbage}

RequestStep(r) ==
  \/ \E op \in Op, tag \in Tags : Accepted(r, op, tag) \/ Mismatched(r, op, tag)
  \/ Restore(r)

Next == (\E r \in Request : RequestStep(r)) \/ Crash

\* No write begins while another one is to be undone.
SerialNext ==
  \E r \in Request : /\ RequestStep(r)
                     /\ \A s \in Request \ {r} : pc[s] = "idle"

Spec == Init /\ [][Next]_vars
SerialSpec == Init /\ [][SerialNext]_vars

-----------------------------------------------------------------------------
(* Properties.                                                             *)

TypeOK ==
  /\ doc \in Version
  /\ issued \in Nat
  /\ pc \in [Request -> {"idle", "restore"}]
  /\ held \in [Request -> Version]
  /\ mine \in [Request -> Nat]
  /\ crashes \in Nat
  /\ wins \subseteq [named : Nat, over : Version, by : Nat]
  /\ refused \subseteq Nat
  /\ versions \subseteq Version
  /\ verdict \in [tag : Nat \cup {NoTag, Garbage}, accepted : BOOLEAN]

\* Of the writes that name the same etag at most one is accepted in place of a
\* stored document, whatever writes, restores and crashes come between
\* (DocumentDAO.java:169-193): no accepted write is replaced by another one
\* that had not seen it. Where nothing is stored, after a DELETE, a write may
\* name any etag, even one that was accepted before: nothing is compared.
OneWinner ==
  \A x, y \in wins :
    x.named = y.named /\ x.over # Absent /\ y.over # Absent => x = y

\* An etag names one content of the document for good, so a GET that is
\* answered 304 NOT_MODIFIED (GetDocumentHandler.java:82) leaves the client
\* with what is stored.
EtagNamesVersion ==
  \A v, w \in versions : v.etag # NoTag /\ v.etag = w.etag => v = w

\* What is left of the document once every write that failed the check has
\* been undone.
Settled ==
  IF \E r \in Request : pc[r] = "restore"
    THEN held[CHOOSE r \in Request : pc[r] = "restore"]
    ELSE doc

Lock == INSTANCE DocumentLock WITH doc <- Settled

\* As long as writes do not overlap, the document is the optimistic lock it is
\* meant to be.
ImplementsLock == Lock!Spec

\* What DocumentDAO.java:188 says of a write whose etag does not match: "we
\* need to restore old document". Nothing of it is left in the end.
RefusedLeavesNoTrace ==
  (\A r \in Request : pc[r] = "idle") => doc.parts \cap refused = {}

-----------------------------------------------------------------------------
(* Inductive invariant.                                                    *)

Held(r) == pc[r] = "restore"

\* Each etag is in one place at most: in the stored document, or in the one
\* document a request holds; an etag that was replaced for good is in none.
OnePlace ==
  /\ doc.etag # NoTag => doc.etag \in 1..issued
  /\ doc.etag = NoTag => doc = Absent \/ issued = 0
  /\ \A r \in Request : Held(r) =>
       /\ held[r].etag \in 1..issued
       /\ held[r].etag # doc.etag
       /\ \A s \in Request : Held(s) /\ held[s].etag = held[r].etag => s = r
  /\ \A x \in wins : x.over # Absent =>
       /\ x.named \in 1..issued
       /\ x.named # doc.etag
       /\ \A r \in Request : Held(r) => x.named # held[r].etag

\* What is stored or held was stored, under an etag that was issued.
VersionsIssued ==
  /\ doc \in versions
  /\ \A r \in Request : Held(r) => held[r] \in versions
  /\ \A v \in versions : v.etag # NoTag => v.etag \in 1..issued

LockInv == TypeOK /\ OnePlace /\ OneWinner /\ VersionsIssued /\ EtagNamesVersion
=============================================================================
