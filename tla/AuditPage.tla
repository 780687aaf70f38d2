------------------------------ MODULE AuditPage ------------------------------
(***************************************************************************)
(* The audit page of the browser application (the controller DataRetrieve  *)
(* of auditController.js): searches whose answers arrive in any order, the *)
(* table of their rows with a check box each, the dialogs of one row, and  *)
(* the replay of a row or of the checked rows.                             *)
(*                                                                         *)
(* A row is the number of its audit.  A view is one page of the result of  *)
(* one query; the server lists a view with the newest audit first, the     *)
(* table sorts it again, by the time stamp unless another column is chosen *)
(* (not modelled).  A controller that was left still handles the answers   *)
(* it waits for: it writes the page of rows that all controllers share     *)
(* (treemapSaver.auditData).                                               *)
(***************************************************************************)
EXTENDS Naturals, Sequences, FiniteSets

CONSTANTS
  Row,          \* the audits, by number
  Query,        \* what can be searched for
  Content,      \* Content[q]: the pages of rows query q finds
  Stamp,        \* Stamp[r]: the time stamp of row r
  Related,      \* the rows that share their transaction id with another one
  Forms,        \* bound: the ways the advanced form is filled in
  Slot,         \* bound: calls under way at a time
  NoRow, NoView, NoCall

VARIABLES
  open,         \* whether the page is shown
  saver,        \* treemapSaver.auditData, which outlives the page
  data,         \* $scope.data: the view the table shows
  reverse,      \* the direction of the table's order
  checked,      \* the rows whose box is ticked
  enabled,      \* whether the button Replay can be pressed
  objectIDFlag,
  rowID,        \* the row that was clicked
  payload,      \* $scope.payloadPageData: the row whose payload it is
  batchChecker, \* whether a replay is one of the checked rows
  modal,        \* the dialog on top of the page: "none", "row", "batch"
  call,         \* call[s]: a call without an answer, or NoCall
  \* History.
  asked,        \* the row whose payload was asked for in the dialog
  current,      \* whether the payload shown answers the last call for one
  overwritten,  \* whether a controller that was left wrote saver last
  ticked,       \* the boxes ticked when the batch dialog was opened
  moved,        \* whether the table changed since
  sent          \* what this step had the server do

table == <<data, reverse, checked, enabled, objectIDFlag>>
dialogs == <<rowID, payload, batchChecker, modal, asked, current, ticked, moved>>
shared == <<saver, overwritten>>
vars == <<open, shared, table, dialogs, call, sent>>

View == {v \in [q : Query, p : 1..Cardinality(Row)] : v.p <= Len(Content[v.q])}
Nothing == [kind |-> "nothing"]

-----------------------------------------------------------------------------
(* The rows of a view as the server lists them, and as the table does.     *)

Rows(v) == IF v = NoView THEN <<>> ELSE Content[v.q][v.p]
RowsOf(v) == {Rows(v)[i] : i \in DOMAIN Rows(v)}

\* orderBy:predicate:reverse; rows with equal stamps stay as the server listed them.
Precedes(v, i, j) ==
  LET k(n) == Stamp[Rows(v)[n]] IN
  \/ IF reverse THEN k(i) > k(j) ELSE k(i) < k(j)
  \/ k(i) = k(j) /\ i < j

Shown ==
  [n \in DOMAIN Rows(data) |->
     Rows(data)[CHOOSE i \in DOMAIN Rows(data) :
                  Cardinality({j \in DOMAIN Rows(data) : Precedes(data, j, i)}) = n - 1]]

\* replayButtonChecker, evaluated for each row whenever the page is refreshed:
\* without rows the button stays as it was.
Button(v, ticks) == IF Rows(v) = <<>> THEN enabled ELSE ticks # {}

\* A mutation of Boxes: counted from one where the rows are counted from zero.
BoxesOffByOne == {i + 1 : i \in {n \in DOMAIN Shown : Shown[n] \in checked}}

\* batchValues: box number i of the table names row number i of auditData.
Boxes == {i \in DOMAIN Shown : Shown[i] \in checked}
BatchThrows == saver = NoView \/ \E i \in Boxes : i \notin DOMAIN Rows(saver)
BatchIds == {Rows(saver)[i] : i \in Boxes}

-----------------------------------------------------------------------------
(* What a search of the advanced form asks for.                            *)

\* A mutation of SomeField: a keyword alone is no condition.
SomeFieldBut(form) == form \cap {"objectID", "field"} # {}

\* checkObj
SomeField(form) == form \cap {"objectID", "keyword", "field"} # {}
KeywordFlag(form) == "keyword" \in form /\ "objectID" \notin form

\* appendFields: an object id stands alone.
FieldParts(form) == IF "objectID" \in form THEN {"objectID"} ELSE form \cap {"field"}

Parts(form, db, idFlag) ==
  FieldParts(form)
    \cup (IF idFlag THEN {} ELSE form \cap {"custom", "nameValue", "dates"})
    \cup (IF SomeField(form) /\ (KeywordFlag(form) \/ db = "payload")
          THEN {"keyword"} ELSE {})

Refused(form, db) == form = {} \/ (db = "payload" /\ "keyword" \notin form)

-----------------------------------------------------------------------------
\* The variables of a new controller and its table.
Fresh ==
  /\ reverse' = FALSE
  /\ checked' = {} /\ enabled' = FALSE /\ objectIDFlag' = FALSE
  /\ rowID' = NoRow /\ payload' = NoRow
  /\ batchChecker' = FALSE /\ modal' = "none"
  /\ asked' = NoRow /\ current' = FALSE /\ ticked' = {} /\ moved' = FALSE

Init ==
  /\ open = FALSE /\ saver = NoView /\ data = NoView
  /\ reverse = FALSE
  /\ checked = {} /\ enabled = FALSE /\ objectIDFlag = FALSE
  /\ rowID = NoRow /\ payload = NoRow
  /\ batchChecker = FALSE /\ modal = "none"
  /\ asked = NoRow /\ current = FALSE /\ ticked = {} /\ moved = FALSE
  /\ call = [s \in Slot |-> NoCall]
  /\ overwritten = FALSE /\ sent = Nothing

\* The state audits is entered: without a query, or with the answer to the one
\* the dashboard left, which the router waited for.
Enter ==
  /\ ~open
  /\ open' = TRUE /\ data' \in View \cup {NoView}
  /\ IF data' = NoView THEN UNCHANGED shared ELSE saver' = data' /\ overwritten' = FALSE
  /\ Fresh /\ sent' = Nothing
  /\ UNCHANGED call

\* Another state, or the logout: the searches of this controller go on (so do its
\* other calls, whose answers only reach its own scope).
Leave ==
  /\ open
  /\ open' = FALSE /\ data' = NoView
  /\ call' = [s \in Slot |->
                IF call[s] # NoCall /\ call[s].kind = "search"
                THEN [call[s] EXCEPT !.left = TRUE]
                ELSE NoCall]
  /\ Fresh /\ sent' = Nothing
  /\ UNCHANGED shared

\* $http: the call waits in a free slot for its answer.
Send(c) == \E s \in Slot : call[s] = NoCall /\ call' = [call EXCEPT ![s] = c]
Search(v) == Send([kind |-> "search", of |-> v, last |-> TRUE, left |-> FALSE])

-----------------------------------------------------------------------------
(* Searching and paging.                                                   *)

BasicSearchButton ==
  /\ open /\ modal = "none"
  /\ \E q \in Query : Search([q |-> q, p |-> 1])
  /\ sent' = Nothing
  /\ UNCHANGED <<open, shared, table, dialogs>>

DoAdvanceSearch ==
  /\ open /\ modal = "none"
  /\ \E form \in Forms, db \in {"audit", "payload"} :
       /\ objectIDFlag' = (objectIDFlag \/ "objectID" \in form)
       /\ IF Refused(form, db)
          THEN sent' = Nothing /\ UNCHANGED call
          ELSE /\ \E q \in Query : Search([q |-> q, p |-> 1])
               /\ sent' = [kind |-> "search", form |-> form, db |-> db,
                           parts |-> Parts(form, db, objectIDFlag'),
                           idBefore |-> objectIDFlag]
  /\ UNCHANGED <<open, shared, data, reverse, checked, enabled, dialogs>>

\* The links of the page that is shown, also within the dialog of a row.
GoTo ==
  /\ open /\ modal # "batch" /\ data # NoView
  /\ \E p \in {1, data.p - 1, data.p + 1, Len(Content[data.q])} :
       /\ p \in 1..Len(Content[data.q])
       /\ Search([q |-> data.q, p |-> p])
  /\ sent' = Nothing
  /\ UNCHANGED <<open, shared, table, dialogs>>

\* A mutation of SearchAnswer: the boxes of the rows before stay ticked.
SearchAnswerKeepsTicks(s) ==
  /\ call[s] # NoCall /\ call[s].kind = "search"
  /\ call' = [call EXCEPT ![s] = NoCall]
  /\ saver' = call[s].of /\ overwritten' = call[s].left
  /\ data' = IF call[s].left THEN data ELSE call[s].of
  /\ sent' = Nothing
  /\ UNCHANGED <<open, checked, enabled, moved, reverse, objectIDFlag, rowID, payload,
                 batchChecker, modal, asked, current, ticked>>

\* The answer to a search: new rows, whose boxes are not ticked.
SearchAnswer(s) ==
  /\ call[s] # NoCall /\ call[s].kind = "search"
  /\ call' = [call EXCEPT ![s] = NoCall]
  /\ saver' = call[s].of /\ overwritten' = call[s].left
  /\ IF call[s].left
     THEN UNCHANGED <<data, checked, enabled, moved>>
     ELSE /\ data' = call[s].of /\ checked' = {} /\ enabled' = Button(data', {})
          /\ moved' = (modal = "batch")
  /\ sent' = Nothing
  /\ UNCHANGED <<open, reverse, objectIDFlag, rowID, payload,
                 batchChecker, modal, asked, current, ticked>>

\* A call timed out or failed: no handler touches the page.
CallFails(s) ==
  /\ call[s] # NoCall
  /\ call' = [call EXCEPT ![s] = NoCall]
  /\ sent' = Nothing
  /\ UNCHANGED <<open, shared, table, dialogs>>

-----------------------------------------------------------------------------
(* The table.                                                              *)

Sort ==
  /\ open /\ modal = "none"
  /\ reverse' = ~reverse
  /\ sent' = Nothing
  /\ UNCHANGED <<open, shared, call, data, checked, enabled, objectIDFlag, dialogs>>

\* One box, or all of them (checkAll).
Tick ==
  /\ open /\ modal = "none"
  /\ \/ \E r \in RowsOf(data) :
          checked' = IF r \in checked THEN checked \ {r} ELSE checked \cup {r}
     \/ checked' \in {{}, RowsOf(data)}
  /\ enabled' = Button(data, checked')
  /\ sent' = Nothing
  /\ UNCHANGED <<open, shared, call, data, reverse, objectIDFlag, dialogs>>

-----------------------------------------------------------------------------
(* The dialogs of a row.                                                   *)

RowClick ==
  /\ open /\ modal = "none"
  /\ rowID' \in RowsOf(data)
  /\ batchChecker' = FALSE /\ modal' = "row"
  /\ sent' = Nothing
  /\ UNCHANGED <<open, shared, call, table, payload, asked, current, ticked, moved>>

\* The payload of the row, or of a row in the list of related transactions (which
\* may still be the list of a row clicked before): its dialog opens at once.
CallPayload ==
  /\ open /\ modal = "row"
  /\ \E r \in {rowID} \cup Related, s \in Slot :
       /\ call[s] = NoCall
       /\ asked' = r
       /\ call' = [t \in Slot |->
            IF t = s
            THEN [kind |-> "payload", row |-> r, last |-> TRUE, left |-> FALSE]
            ELSE IF call[t] # NoCall /\ call[t].kind = "payload"
            THEN [call[t] EXCEPT !.last = FALSE]
            ELSE call[t]]
  /\ current' = FALSE
  /\ sent' = Nothing
  /\ UNCHANGED <<open, shared, table, rowID, payload, batchChecker, modal,
                 ticked, moved>>

\* A mutation of PayloadAnswer: a payload that is there is not loaded again.
PayloadLoadedOnce(s) ==
  /\ call[s] # NoCall /\ call[s].kind = "payload"
  /\ call' = [call EXCEPT ![s] = NoCall]
  /\ payload' = IF payload = NoRow THEN call[s].row ELSE payload
  /\ current' = call[s].last
  /\ sent' = Nothing
  /\ UNCHANGED <<open, shared, table, rowID, batchChecker, modal, asked, ticked, moved>>

PayloadAnswer(s) ==
  /\ call[s] # NoCall /\ call[s].kind = "payload"
  /\ call' = [call EXCEPT ![s] = NoCall]
  /\ IF call[s].left
     THEN UNCHANGED <<payload, current>>
     ELSE payload' = call[s].row /\ current' = call[s].last
  /\ sent' = Nothing
  /\ UNCHANGED <<open, shared, table, rowID, batchChecker, modal, asked,
                 ticked, moved>>

\* changeReplayBack; a dialog closed by Escape leaves batchChecker alone.
CloseDialog ==
  /\ open /\ modal # "none"
  /\ modal' = "none" /\ batchChecker' \in {FALSE, batchChecker}
  /\ asked' = NoRow /\ ticked' = {} /\ moved' = FALSE
  /\ sent' = Nothing
  /\ UNCHANGED <<open, shared, call, table, rowID, payload, current>>

-----------------------------------------------------------------------------
(* Replays: REST, file, web service, FTP and JMS differ in their form only. *)

ChangeReplay ==
  /\ open /\ modal = "none" /\ enabled
  /\ batchChecker' = TRUE /\ modal' = "batch" /\ ticked' = checked
  /\ sent' = Nothing
  /\ UNCHANGED <<open, shared, call, table, rowID, payload, asked, current, moved>>

\* batchValues is called for a single replay too, for the name of the user.
RunService ==
  /\ open /\ (modal = "batch" \/ asked # NoRow)
  /\ sent' = IF BatchThrows THEN Nothing
             ELSE IF batchChecker
             THEN [kind |-> "batch", ids |-> BatchIds]
             ELSE [kind |-> "single", id |-> rowID, payload |-> payload]
  /\ UNCHANGED <<open, shared, call, table, dialogs>>

-----------------------------------------------------------------------------
Next ==
  \/ Enter \/ Leave
  \/ BasicSearchButton \/ DoAdvanceSearch \/ GoTo \/ Sort \/ Tick
  \/ RowClick \/ CallPayload \/ CloseDialog
  \/ ChangeReplay \/ RunService
  \/ \E s \in Slot : SearchAnswer(s) \/ PayloadAnswer(s) \/ CallFails(s)

Spec == Init /\ [][Next]_vars

-----------------------------------------------------------------------------
SearchCall == [kind : {"search"}, of : View, last : BOOLEAN, left : BOOLEAN]
PayloadCall == [kind : {"payload"}, row : Row, last : BOOLEAN, left : BOOLEAN]

TypeOK ==
  /\ open \in BOOLEAN
  /\ data \in View \cup {NoView} /\ saver \in View \cup {NoView}
  /\ reverse \in BOOLEAN
  /\ checked \subseteq RowsOf(data) /\ enabled \in BOOLEAN /\ objectIDFlag \in BOOLEAN
  /\ {rowID, payload, asked} \subseteq Row \cup {NoRow}
  /\ batchChecker \in BOOLEAN /\ modal \in {"none", "row", "batch"}
  /\ call \in [Slot -> SearchCall \cup PayloadCall \cup {NoCall}]
  /\ overwritten \in BOOLEAN /\ moved \in BOOLEAN /\ current \in BOOLEAN
  /\ ticked \subseteq Row

\* The rows a batch replays are the rows that were ticked when its dialog was
\* opened (batchValues, auditController.js:1024), unless the table is not in
\* the order the server listed the rows, a controller that was left has
\* overwritten the shared rows, or an answer replaced the table under the
\* dialog.  Out of order, it still replays as many rows, all of them shown.
CheckedAreReplayed ==
  sent.kind = "batch" =>
    \/ overwritten \/ moved
    \/ /\ Shown = Rows(data) => sent.ids = ticked
       /\ sent.ids \subseteq RowsOf(data)
       /\ Cardinality(sent.ids) = Cardinality(ticked)

\* A replay of one row sends that row's payload (runRestService and its like,
\* auditController.js:468), unless the payload asked for last was a related
\* row's, or it is not the one that arrived last.
PayloadOfRow ==
  sent.kind = "single" => sent.payload = sent.id \/ asked # sent.id \/ ~current

\* An advanced search asks for all the form says (an object id stands alone, but
\* for the keyword of a search of payloads), unless an earlier search of this
\* controller was for an object id: nothing resets objectIDFlag
\* (auditController.js:181).
Wanted(form, db) ==
  IF "objectID" \in form
  THEN {"objectID"} \cup (IF db = "payload" THEN {"keyword"} ELSE {})
  ELSE form
FormHonoured ==
  sent.kind = "search" => sent.idBefore \/ sent.parts = Wanted(sent.form, sent.db)
-----------------------------------------------------------------------------
(* The inductive invariant.                                                *)

\* The rows shared are the rows shown.
RowsShared == overwritten \/ data \in {NoView, saver}

\* Within the dialog of a row, which was clicked, its payload, or a related one's, is
\* asked for; within that of a batch none is.
DialogsDiffer ==
  /\ modal = "batch" => batchChecker
  /\ modal = "row" => ~batchChecker /\ rowID \in Row
  /\ asked # NoRow => modal = "row"

\* The last call for a payload is for the one asked for.
PayloadAsked ==
  /\ \A s \in Slot :
       call[s] # NoCall /\ call[s].kind = "payload" /\ call[s].last =>
         asked \in {call[s].row, NoRow}
  /\ current => asked \in {payload, NoRow}

\* The boxes stay as they were when the dialog of the batch was opened.
TickedKept == modal = "batch" /\ ~moved => ticked = checked

AuditInv ==
  /\ TypeOK /\ RowsShared /\ DialogsDiffer /\ PayloadAsked /\ TickedKept
  /\ CheckedAreReplayed /\ PayloadOfRow /\ FormHonoured
=============================================================================
