------------------------------- MODULE Reports -------------------------------
(***************************************************************************)
(* The reports of the settings page (settingController.js): rows that are  *)
(* added, saved and deleted, each by a call of its own, and the documents  *)
(* SettingService.java keeps for them.                                     *)
(*                                                                         *)
(* A call remembers the number of its row, and the answer is applied to    *)
(* the row with that number.  All calls are made from one object, temprep, *)
(* whose id stays when a row without one is saved.                         *)
(*                                                                         *)
(* Three GETs ask for the reports when the page is entered: one puts them  *)
(* into the rows, one puts a blank row there if it fails, and one makes    *)
(* the rows' functions.  They are answered in any order, the first two     *)
(* also under calls; an answer nothing is done with is not told from one   *)
(* that does not come.                                                     *)
(***************************************************************************)
EXTENDS Naturals, Sequences, SequencesExt, FiniteSets

CONSTANTS
  Report,     \* what rows report on, different in each of them
  Stored,     \* those stored before
  MaxIds,     \* bound: documents
  MaxSends,   \* bound: calls
  NoId

VARIABLES
  docs,       \* the report of each document, by its id
  issued,     \* the ids given so far
  gets,       \* the GETs that are not answered, by the promise's handler
  listing,    \* what the GET of "then" has read, and not delivered
  ready,      \* whether $scope.reports is an array
  reports,    \* $scope.reports: the report and the id of each row
  temprep,    \* the id in $scope.temprep
  calls,      \* the calls that are not answered
  sends,      \* how many were made
  added,      \* the reports rows were added for
  \* History.
  shifted,    \* whether a call's row had moved or was gone
  sent,       \* the reports of the rows saved, or stored before
  again,      \* whether a row without an id was saved once more
  kept,       \* whether a row without an id was saved under the one temprep kept
  replaced    \* the reports whose document a row of another report has replaced

history == <<shifted, sent, again, kept, replaced>>
loading == <<gets, listing, ready>>
vars == <<docs, issued, loading, reports, temprep, calls, sends, added, history>>

Id == 1..MaxIds
Call == [kind : {"save", "delete"}, report : Report, id : Id \cup {NoId},
         index : Nat, done : BOOLEAN]

Handler == {"then", "catch", "finally"}

Init ==
  /\ docs = SetToSeq(Stored) /\ issued = Len(docs)
  /\ gets = Handler /\ listing = <<>> /\ ready = FALSE /\ reports = <<>>
  /\ temprep = NoId /\ calls = {} /\ sends = 0 /\ added = Stored
  /\ shifted = FALSE /\ kept = FALSE /\ replaced = {}
  /\ sent = Stored /\ again = FALSE

\* Whether the row a call remembers is no longer that of its report.
Moved(c) == c.index \notin DOMAIN reports \/ reports[c.index].report # c.report
Misplaced == shifted' = (shifted \/ \E c \in calls' : Moved(c)')

-----------------------------------------------------------------------------
(* The GETs.                                                               *)

\* The service reads the reports, in no order; without any it answers with 404.
ListReports ==
  /\ "then" \in gets /\ listing = <<>> /\ DOMAIN docs # {}
  /\ \E ids \in SetToSeqs(DOMAIN docs) :
       listing' = [n \in DOMAIN ids |-> [report |-> docs[ids[n]], id |-> ids[n]]]
  /\ UNCHANGED <<docs, issued, gets, ready, reports, temprep, calls, sends, added, history>>

\* then: the rows are those read, whatever was done to them meanwhile.
Then ==
  /\ listing # <<>>
  /\ reports' = listing /\ ready' = TRUE
  /\ listing' = <<>> /\ gets' = gets \ {"then"}
  /\ UNCHANGED <<docs, issued, temprep, calls, sends, added, sent, again, kept, replaced>>
  /\ Misplaced

\* catch: a row to fill in is the only one.
Catch ==
  /\ "catch" \in gets /\ gets' = gets \ {"catch"}
  /\ \E r \in Report \ added :
       /\ added' = added \cup {r}
       /\ reports' = <<[report |-> r, id |-> NoId]>>
  /\ ready' = TRUE
  /\ UNCHANGED <<docs, issued, listing, temprep, calls, sends, sent, again, kept, replaced>>
  /\ Misplaced

\* finally: the rows can be worked on.
Finally ==
  /\ "finally" \in gets /\ gets' = gets \ {"finally"}
  /\ UNCHANGED <<docs, issued, listing, ready, reports, temprep, calls, sends, added, history>>

-----------------------------------------------------------------------------
(* The page.                                                               *)

\* Without an array of rows, none is added, saved or deleted.
Usable == ready /\ "finally" \notin gets

\* A mutation of AddNewAggrigated: the new row is a copy of temprep.
AddCopy ==
  /\ Usable
  /\ \E r \in Report \ added :
       /\ added' = added \cup {r}
       /\ reports' = Append(reports, [report |-> r, id |-> temprep])
  /\ UNCHANGED <<docs, issued, loading, temprep, calls, sends, history>>

AddNewAggrigated ==
  /\ Usable
  /\ \E r \in Report \ added :
       /\ added' = added \cup {r}
       /\ reports' = Append(reports, [report |-> r, id |-> NoId])
  /\ UNCHANGED <<docs, issued, loading, temprep, calls, sends, history>>

Send(kind, n, id) ==
  /\ sends < MaxSends /\ sends' = sends + 1
  /\ calls' = calls \cup {[kind |-> kind, report |-> reports[n].report, id |-> id,
                           index |-> n, done |-> FALSE]}

\* validatereport: the id of the row, or the one temprep has.
Save(n) ==
  /\ Usable
  /\ temprep' = IF reports[n].id # NoId THEN reports[n].id ELSE temprep
  /\ Send("save", n, temprep')
  /\ kept' = (kept \/ reports[n].id # temprep')
  /\ sent' = sent \cup {reports[n].report}
  /\ again' = (again \/ (reports[n].id = NoId /\ reports[n].report \in sent))
  /\ UNCHANGED <<docs, issued, loading, reports, added, shifted, replaced>>

\* The rows below move up.
Splice(n) == reports' = RemoveAt(reports, n) /\ Misplaced

\* delrowreport: a row without an id is only removed from the page.
Delete(n) ==
  /\ Usable
  /\ IF reports[n].id = NoId
     THEN UNCHANGED <<temprep, calls, sends>> /\ Splice(n)
     ELSE /\ temprep' = reports[n].id
          /\ Send("delete", n, temprep')
          /\ UNCHANGED <<reports, shifted>>
  /\ UNCHANGED <<docs, issued, loading, added, sent, again, kept, replaced>>

-----------------------------------------------------------------------------
(* The service.                                                            *)

\* A mutation of Put: a report with an id is inserted beside its document.
PutBeside(id, r) ==
  [i \in DOMAIN docs \cup {issued + 1} |-> IF i = issued + 1 THEN r ELSE docs[i]]

Put(id, r) == [i \in DOMAIN docs \cup {id} |-> IF i = id THEN r ELSE docs[i]]

\* A document with the id is replaced, if there is one; else one is inserted,
\* under a new id if there is none.
StoreReport(c) ==
  /\ c.kind = "save" /\ ~c.done
  /\ LET id == IF c.id = NoId THEN issued + 1 ELSE c.id IN
       /\ id \in Id
       /\ issued' = IF c.id = NoId THEN id ELSE issued
       /\ docs' = Put(id, c.report)
       /\ replaced' = replaced \cup ({docs[i] : i \in DOMAIN docs \cap {id}} \ {c.report})
       /\ calls' = (calls \ {c}) \cup {[c EXCEPT !.id = id, !.done = TRUE]}
  /\ UNCHANGED <<loading, reports, temprep, sends, added, shifted, sent, again, kept>>

\* The document is removed if it has the id and the report.
RemoveReport(c) ==
  /\ c.kind = "delete" /\ ~c.done
  /\ c.id \in DOMAIN docs /\ docs[c.id] = c.report
  /\ docs' = [i \in DOMAIN docs \ {c.id} |-> docs[i]]
  /\ calls' = (calls \ {c}) \cup {[c EXCEPT !.done = TRUE]}
  /\ UNCHANGED <<issued, loading, reports, temprep, sends, added, history>>

\* A call fails on its way, or its answer is lost, or there is nothing to remove.
Fail(c) ==
  /\ calls' = calls \ {c}
  /\ UNCHANGED <<docs, issued, loading, reports, temprep, sends, added, history>>

\* savedata's and delinfo's answers, by number; without such a row nothing is done.
Answer(c) ==
  /\ c.done
  /\ calls' = calls \ {c}
  /\ IF c.index \notin DOMAIN reports
     THEN UNCHANGED <<reports, shifted>>
     ELSE IF c.kind = "save"
     THEN reports' = [reports EXCEPT ![c.index].id = c.id] /\ UNCHANGED shifted
     ELSE Splice(c.index)
  /\ UNCHANGED <<docs, issued, loading, temprep, sends, added, sent, again, kept, replaced>>

-----------------------------------------------------------------------------
Next ==
  \/ ListReports \/ Then \/ Catch \/ Finally
  \/ AddNewAggrigated
  \/ \E n \in DOMAIN reports : Save(n) \/ Delete(n)
  \/ \E c \in calls : StoreReport(c) \/ RemoveReport(c) \/ Fail(c) \/ Answer(c)

Spec == Init /\ [][Next]_vars

-----------------------------------------------------------------------------
TypeOK ==
  /\ DOMAIN docs \subseteq Id /\ \A i \in DOMAIN docs : docs[i] \in Report
  /\ gets \subseteq Handler /\ ready \in BOOLEAN
  /\ {reports, listing} \subseteq Seq([report : Report, id : Id \cup {NoId}])
  /\ temprep \in Id \cup {NoId} /\ calls \subseteq Call /\ sends \in 0..MaxSends /\ added \subseteq Report
  /\ issued \in 0..MaxIds /\ sent \subseteq Report
  /\ {shifted, again, kept} \subseteq BOOLEAN /\ replaced \subseteq Report

\* A row never replaces the document of another one (validatereport,
\* settingController.js:240), unless a call's row moved or was replaced before the
\* answer, or a row without an id was saved under that of the row saved or deleted
\* before it.
NothingReplaced == replaced # {} => shifted \/ kept

\* A report is stored once, unless one of the two has happened, or a row was saved
\* again before the answer to its first save came with the id.
StoredOnce ==
  shifted \/ kept \/ again \/ \A i, j \in DOMAIN docs : docs[i] = docs[j] => i = j
-----------------------------------------------------------------------------
(* The inductive invariant.                                                *)

\* What claims an id: a row, one read for the page, a call, a document.
Claim(id, r) == [id |-> id, report |-> r]
Claims ==
  {Claim(reports[n].id, reports[n].report) : n \in DOMAIN reports}
    \cup {Claim(listing[n].id, listing[n].report) : n \in DOMAIN listing}
    \cup {Claim(c.id, c.report) : c \in calls}
    \cup {Claim(i, docs[i]) : i \in DOMAIN docs}

\* Every id was given.
Given == \A id \in {a.id : a \in Claims} \cup {temprep} : id # NoId => id \in 1..issued

\* An id is claimed for one report, and a call finds its row.
IdsDiffer ==
  \/ shifted \/ kept
  \/ /\ \A a, b \in Claims : a.id = b.id /\ a.id # NoId => a.report = b.report
     /\ \A c \in calls : ~Moved(c)

\* A report is claimed under one id, and by one call while it has none.
SavedOnce ==
  \/ shifted \/ kept \/ again
  \/ /\ \A a, b \in Claims :
          a.report = b.report /\ a.id # NoId /\ b.id # NoId => a.id = b.id
     /\ \A a \in Claims : a.id # NoId => a.report \in sent
     /\ \A c \in calls : c.report \in sent
     /\ \A c \in {c \in calls : c.id = NoId} :
          /\ \A a \in Claims : a.report = c.report => a.id = NoId
          /\ \A e \in calls : e.report = c.report => e = c

ReportsInv == TypeOK /\ Given /\ IdsDiffer /\ SavedOnce /\ NothingReplaced
=============================================================================
