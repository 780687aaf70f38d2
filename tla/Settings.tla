------------------------------ MODULE Settings ------------------------------
(***************************************************************************)
(* The settings document: the pages that load, edit and save it            *)
(* (settingController.js) and the service that stores it by a removal and  *)
(* an insert (SettingService.java).                                        *)
(*                                                                         *)
(* A page sends the same GET three times, once for each of then, catch and *)
(* finally.  The three are answered on their own: one of them may fail     *)
(* while another succeeds, and the default settings of the catch may come  *)
(* after the settings the then has installed, which may be older by then   *)
(* than those stored.  Entries stand for what the settings hold:           *)
(* notifications, environments, the interface's set-up.  An answer nothing *)
(* is done with is not told from one that does not come.                   *)
(***************************************************************************)
EXTENDS Naturals, FiniteSets

CONSTANTS
  Page,       \* the pages of users
  First,      \* an entry of the settings stored before
  MaxSaves,   \* bound: POSTs
  MaxFaults,  \* bound: POSTs that end half-way
  NoSettings, NoId

VARIABLES
  docs,       \* the documents that have a setting
  fresh,      \* the ids the database has given
  page,       \* page[p]: whether p is open, its GETs under way, what that of
              \* then has read and not delivered, and $scope.settings
  post,       \* post[p]: where the POST of p is, and what it stores
  saves,
  faults,
  \* History.
  known,      \* the entries that were stored
  causes      \* what may have lost entries: "default", "stale", "overlap", "fault"

vars == <<docs, fresh, page, post, saves, faults, known, causes>>

Entry == {First} \cup Page

\* A mutation of Loaded: what the page does not show is not kept.
LoadedBare(d) == [n |-> d.n, entries |-> {}, default |-> FALSE, stale |-> FALSE]

\* The settings a page holds: the number in their id, a string once they were
\* answered to a GET; whether they are the defaults, or stale: older than what
\* another page, or a POST of this one before it was left, has stored.
Loaded(d) == [n |-> d.n, entries |-> d.entries, default |-> FALSE, stale |-> FALSE]
Default == [n |-> NoId, entries |-> {}, default |-> TRUE, stale |-> FALSE]

Closed == [open |-> FALSE, waiting |-> {}, read |-> NoSettings, settings |-> NoSettings]
Idle == [at |-> "idle", settings |-> NoSettings, found |-> NoSettings]

Init ==
  /\ \/ docs = {} /\ known = {}
     \/ docs = {[n |-> 0, string |-> FALSE, entries |-> {First}]} /\ known = {First}
  /\ fresh = 1
  /\ page = [p \in Page |-> Closed] /\ post = [p \in Page |-> Idle]
  /\ saves = 0 /\ faults = 0 /\ causes = {}

-----------------------------------------------------------------------------
(* The page.                                                               *)

Open(p) ==
  /\ ~page[p].open
  /\ page' = [page EXCEPT ![p] = [open |-> TRUE, waiting |-> {"then", "catch", "finally"},
                                  read |-> NoSettings, settings |-> NoSettings]]
  /\ UNCHANGED <<docs, fresh, post, saves, faults, known, causes>>

\* Another state; a POST under way goes on.
Leave(p) ==
  /\ page[p].open
  /\ page' = [page EXCEPT ![p] = Closed]
  /\ UNCHANGED <<docs, fresh, post, saves, faults, known, causes>>

Got(p, get, settings) ==
  /\ page' = [page EXCEPT ![p].waiting = @ \ {get}, ![p].settings = settings,
                          ![p].read = IF get = "then" THEN NoSettings ELSE @]
  /\ UNCHANGED <<docs, fresh, post, saves, faults, known, causes>>

\* handleSetting answers if there is exactly one document.
GetRead(p) ==
  /\ "then" \in page[p].waiting /\ page[p].read = NoSettings
  /\ \E d \in docs : docs = {d} /\ page' = [page EXCEPT ![p].read = Loaded(d)]
  /\ UNCHANGED <<docs, fresh, post, saves, faults, known, causes>>

\* then takes what was read.
Then(p) == page[p].read # NoSettings /\ Got(p, "then", page[p].read)

\* The call fails on its way, or is refused: there is no document, or more than one.
Catch(p) == "catch" \in page[p].waiting /\ Got(p, "catch", Default)

\* An answer, or a failure.
Finally(p) == "finally" \in page[p].waiting /\ Got(p, "finally", page[p].settings)

\* The functions of the page are there once the third GET is over.
Usable(p) == page[p].open /\ "finally" \notin page[p].waiting /\ page[p].settings # NoSettings

AddNew(p) ==
  /\ Usable(p)
  /\ page' = [page EXCEPT ![p].settings.entries = @ \cup {p}]
  /\ UNCHANGED <<docs, fresh, post, saves, faults, known, causes>>

\* savesetting; a page has one POST under way at a time.
SaveSetting(p) ==
  /\ Usable(p) /\ post[p].at = "idle"
  /\ saves < MaxSaves /\ saves' = saves + 1
  /\ post' = [post EXCEPT ![p] = [at |-> "count", settings |-> page[p].settings,
                                  found |-> NoSettings]]
  /\ causes' = causes \cup (IF page[p].settings.default THEN {"default"} ELSE {})
                      \cup (IF page[p].settings.stale THEN {"stale"} ELSE {})
  /\ UNCHANGED <<docs, fresh, page, faults, known>>

-----------------------------------------------------------------------------
(* The service: a count, a find, a removal and an insert.                  *)

\* A mutation of Count: a document is inserted without a look for another.
CountNothing(p) ==
  /\ post[p].at = "count"
  /\ post' = [post EXCEPT ![p].at = "insert"]
  /\ UNCHANGED <<docs, fresh, page, saves, faults, known, causes>>

Count(p) ==
  /\ post[p].at = "count"
  /\ post' = [post EXCEPT ![p].at = IF docs = {} THEN "insert" ELSE "find"]
  /\ UNCHANGED <<docs, fresh, page, saves, faults, known, causes>>

\* Without a document any more, next() throws.
Find(p) ==
  /\ post[p].at = "find"
  /\ \/ docs = {} /\ post' = [post EXCEPT ![p] = Idle]
     \/ \E d \in docs : post' = [post EXCEPT ![p].at = "remove", ![p].found = d]
  /\ UNCHANGED <<docs, fresh, page, saves, faults, known, causes>>

\* findAndRemove: the very document, if it is still there.
Remove(p) ==
  /\ post[p].at = "remove"
  /\ docs' = docs \ {post[p].found}
  /\ post' = [post EXCEPT ![p].at = "insert", ![p].found = NoSettings]
  /\ UNCHANGED <<fresh, page, saves, faults, known, causes>>

\* Settings that lack something of what is stored now are stale.
Aged(s, d) ==
  IF s = NoSettings \/ d.entries \subseteq s.entries THEN s ELSE [s EXCEPT !.stale = TRUE]

Store(p, d) ==
  /\ docs' = docs \cup {d}
  /\ known' = known \cup d.entries
  /\ causes' = causes \cup (IF \E q \in Page \ {p} : post[q].at # "idle" THEN {"overlap"} ELSE {})
  /\ page' = [q \in Page |-> [page[q] EXCEPT !.settings = Aged(@, d), !.read = Aged(@, d)]]
  /\ post' = [post EXCEPT ![p] = Idle]

\* Settings with an id of the page's are refused if they are there already.
Insert(p) ==
  /\ post[p].at = "insert"
  /\ LET s == post[p].settings IN
     \/ /\ s.n = NoId /\ fresh' = fresh + 1
        /\ Store(p, [n |-> fresh, string |-> FALSE, entries |-> s.entries])
     \/ /\ s.n # NoId /\ fresh' = fresh
        /\ IF \E d \in docs : d.string /\ d.n = s.n
           THEN post' = [post EXCEPT ![p] = Idle] /\ UNCHANGED <<docs, page, known, causes>>
           ELSE Store(p, [n |-> s.n, string |-> TRUE, entries |-> s.entries])
  /\ UNCHANGED <<saves, faults>>

\* The process ends, or the database fails, before the POST is over.
Fault(p) ==
  /\ post[p].at # "idle" /\ faults < MaxFaults
  /\ faults' = faults + 1 /\ causes' = causes \cup {"fault"}
  /\ post' = [post EXCEPT ![p] = Idle]
  /\ UNCHANGED <<docs, fresh, page, saves, known>>

-----------------------------------------------------------------------------
Next ==
  \E p \in Page :
    \/ Open(p) \/ Leave(p)
    \/ GetRead(p) \/ Then(p) \/ Catch(p) \/ Finally(p)
    \/ AddNew(p) \/ SaveSetting(p)
    \/ Count(p) \/ Find(p) \/ Remove(p) \/ Insert(p) \/ Fault(p)

Spec == Init /\ [][Next]_vars

-----------------------------------------------------------------------------
Doc == [n : 0..MaxSaves, string : BOOLEAN, entries : SUBSET Entry]
Held == [n : (0..MaxSaves) \cup {NoId}, entries : SUBSET Entry, default : BOOLEAN,
         stale : BOOLEAN]

TypeOK ==
  /\ docs \subseteq Doc /\ fresh \in 1..MaxSaves + 1 /\ saves \in 0..MaxSaves /\ faults \in 0..MaxFaults
  /\ page \in [Page -> [open : BOOLEAN, waiting : SUBSET {"then", "catch", "finally"},
                        read : Held \cup {NoSettings}, settings : Held \cup {NoSettings}]]
  /\ post \in [Page -> [at : {"idle", "count", "find", "remove", "insert"},
                        settings : Held \cup {NoSettings}, found : Doc \cup {NoSettings}]]
  /\ known \subseteq Entry /\ causes \subseteq {"default", "stale", "overlap", "fault"}

\* What was stored is stored, or about to be: nothing a user entered is lost to the
\* removal and the insert (SettingService.java:149-166), unless a page saved the
\* defaults a failing GET gave it, or settings loaded before another page's were
\* stored, two POSTs overlapped, or one ended half-way.
EntriesKept ==
  causes = {} =>
    known \subseteq UNION ({d.entries : d \in docs} \cup
                           {post[p].settings.entries : p \in {q \in Page : post[q].at = "insert"}})

\* There are two documents only if two POSTs overlapped: every one replaces what it
\* finds (SettingService.java:149).
OneDocument == Cardinality(docs) > 1 => "overlap" \in causes
-----------------------------------------------------------------------------
(* The inductive invariant.                                                *)

Busy == {p \in Page : post[p].at # "idle"}

\* A POST under way has settings, and every id given was one POST's.
Posted == \A p \in Busy : post[p].settings \in Held
Counted == fresh + Cardinality(Busy) <= saves + 1

\* One POST at a time removes all there is before it inserts.
OneAtATime ==
  "overlap" \in causes
    \/ /\ \A d, e \in docs : d = e
       /\ \A p \in Page : post[p].at = "insert" => docs = {}
       /\ \A p \in Page : post[p].at = "remove" => docs \subseteq {post[p].found}

\* Without a cause for a loss all that was stored is in the settings that are, or
\* may yet be, saved.
AllHeld ==
  causes = {} =>
    /\ \A p \in Busy : known \subseteq post[p].settings.entries
    /\ \A p \in Page : \A s \in {page[p].read, page[p].settings} :
         s = NoSettings \/ s.default \/ s.stale \/ known \subseteq s.entries

SettingsInv == TypeOK /\ Posted /\ Counted /\ OneAtATime /\ AllHeld /\ EntriesKept
=============================================================================
