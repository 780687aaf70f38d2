------------------------------ MODULE Dashboard ------------------------------
(***************************************************************************)
(* The dashboard of the browser application: a treemap of the errors and   *)
(* the charts beside it (dashboard/treemap).  Each of these panels asks    *)
(* the server on its own when the environment, the window of time or the   *)
(* filter changes, and draws whatever answer arrives.  Their controllers   *)
(* share one scope; a cell of the treemap opens the audits it counts.      *)
(*                                                                         *)
(* Panels are drawn into elements found by id: the answer to a call of a   *)
(* dashboard that was left is drawn into the one that is open, and a cell  *)
(* reads the scope of the dashboard whose answer first drew it.  A cell    *)
(* that opens its audits has all cells preserved: the first answer with    *)
(* cells of the next dashboard puts these back instead of drawing its own. *)
(* Zooming and resizing the treemap, which draw again what is shown or     *)
(* arrived last, are left out.                                             *)
(***************************************************************************)
EXTENDS Naturals, FiniteSets, FiniteSetsExt

CONSTANTS
  Env,         \* the environments
  Relative,    \* the windows that end now: the last hour, ...
  Dates, Backward,   \* the windows from the calendar, and those that end before they start
  Filter,      \* the slices and bars of the charts that can be clicked
  Chart,       \* the charts beside the treemap
  MaxCalls,    \* bound: calls under way
  MaxLeft,     \* bound: calls under way for a dashboard that was left
  Earlier,     \* what a panel was asked for before its last call, whatever it was
  None

VARIABLES
  open,        \* whether the dashboard is shown
  env,         \* queryEnv's environment, which every controller reads when it calls
  window,      \* $scope.fromDate and $scope.toDate
  custom,      \* whether $scope.timeSelected is "Custom"
  dropdownVal, \* treemapSaver.dropdownVal: the relative window chosen last
  appended,    \* queryFilter's filter
  newFilter,   \* $scope.newFilter
  pending,     \* pending[p]: the calls of panel p under way
  drawn,       \* drawn[p]: the query whose answer panel p shows, or None
  bound,       \* the dashboards whose scopes the cells read: "this", "left"
  preserved,   \* whether sendAudit has kept the cells, as treemapSaver.data
  \* History.
  skew         \* in what the treemap was not asked again: "env", "window",
               \* "filter"; "half" where no panel was, for half a new window

scope == <<window, custom, newFilter>>
cells == <<bound, preserved>>
vars == <<open, env, scope, dropdownVal, appended, pending, drawn, cells, skew>>

Panel == Chart \cup {"treemap"}
Window == Relative \cup Dates
Queried(e, w, f) == [env |-> e, window |-> w, filter |-> f]

\* Of the calls of a panel only the last asks for what counts: the others are
\* those the dashboard shown made before it, and those of dashboards that were left.
Calls(last, older, left) == [last |-> last, older |-> older, left |-> left]
Last(p) == IF pending[p].last = None THEN 0 ELSE 1
Number(p) == Last(p) + pending[p].older + pending[p].left

\* A new dashboard asks whatever calls of the last one are under way.
MayAsk(panels) ==
  open => Cardinality(panels) + MapThenSumSet(Number, Panel) <= MaxCalls

\* Panels ask for q: what they show is from then on what an earlier call asked for.
Ask(panels, q) ==
  /\ MayAsk(panels)
  /\ pending' = [p \in Panel |->
       IF p \in panels THEN Calls(q, pending[p].older + Last(p), pending[p].left)
       ELSE pending[p]]
  /\ drawn' = [p \in Panel |->
       IF p \in panels /\ drawn[p] # None THEN Earlier ELSE drawn[p]]

\* What the treemap has not been asked for when it is asked without a filter.
Without == IF newFilter = None THEN {} ELSE {"filter"}

-----------------------------------------------------------------------------
Init ==
  /\ open = FALSE /\ env \in Env
  /\ dropdownVal \in Relative /\ window = dropdownVal /\ custom = FALSE
  /\ appended = None /\ newFilter = None
  /\ pending = [p \in Panel |-> Calls(None, 0, 0)] /\ drawn = [p \in Panel |-> None]
  /\ bound = {} /\ preserved = FALSE
  /\ skew = {}

\* New controllers: the window chosen last, no filter.
Enter ==
  /\ ~open /\ open' = TRUE
  /\ window' = dropdownVal /\ custom' = FALSE /\ newFilter' = None
  /\ Ask(Panel, Queried(env, window', None))
  /\ skew' = {}
  /\ UNCHANGED <<env, dropdownVal, appended, cells>>

\* The dashboard is left.  Of the calls under way at most MaxLeft are answered
\* later; the others are as good as failed.
Left ==
  /\ open /\ open' = FALSE
  /\ \E left \in [Panel -> 0..MaxLeft] :
       /\ \A p \in Panel : left[p] <= Number(p)
       /\ MapThenSumSet(LAMBDA p : left[p], Panel) <= MaxLeft
       /\ pending' = [p \in Panel |-> Calls(None, 0, left[p])]
  /\ drawn' = [p \in Panel |-> None] /\ bound' = {} /\ skew' = {}
  /\ window' = dropdownVal /\ custom' = FALSE /\ newFilter' = None
  /\ UNCHANGED <<env, dropdownVal, appended>>

\* By the menu.
Leave == Left /\ UNCHANGED preserved

\* sendAudit, of a cell that is clicked twice.  For a scope that was left the page
\* changes when something else is digested: by an answer that puts the cells back
\* first, which is a Leave without the call.
SendAudit ==
  /\ drawn["treemap"] # None /\ preserved' = TRUE
  /\ Left

-----------------------------------------------------------------------------
(* What the user changes.                                                  *)

\* envChangeBroadcast: the treemap is not asked again while the window is custom.
EnvChange ==
  /\ env' \in Env \ {env}
  /\ IF ~open
     THEN UNCHANGED <<pending, drawn, skew>>
     ELSE IF custom
     THEN /\ Ask(Chart, Queried(env', window, None))
          /\ skew' = (skew \ {"half"}) \cup {"env"}
     ELSE Ask(Panel, Queried(env', window, None)) /\ skew' = Without
  /\ UNCHANGED <<open, scope, dropdownVal, appended, cells>>

\* A mutation of TimeChange: only the treemap is asked again.
TimeChangeTreemap ==
  /\ open
  /\ window' \in Relative /\ dropdownVal' = window' /\ custom' = FALSE
  /\ Ask({"treemap"}, Queried(env, window', None)) /\ skew' = Without
  /\ UNCHANGED <<open, env, newFilter, appended, cells>>

\* fromDateChange
TimeChange ==
  /\ open
  /\ window' \in Relative /\ dropdownVal' = window' /\ custom' = FALSE
  /\ Ask(Panel, Queried(env, window', None)) /\ skew' = Without
  /\ UNCHANGED <<open, env, newFilter, appended, cells>>

\* "Custom" only opens the calendar.
Calendar ==
  /\ open /\ custom' = TRUE
  /\ UNCHANGED <<open, env, window, newFilter, dropdownVal, appended, pending, drawn,
                 cells, skew>>

\* customDate: the window is passed on before it is checked.
CustomDate ==
  /\ open /\ custom
  /\ window' \in Dates
  /\ IF window' \in Backward
     THEN /\ Ask(Chart, Queried(env, window', None))
          /\ skew' = (skew \ {"half"}) \cup {"window"}
     ELSE Ask(Panel, Queried(env, window', None)) /\ skew' = Without
  /\ UNCHANGED <<open, env, custom, newFilter, dropdownVal, appended, cells>>

\* customDate with a second date that is none: it throws with the first one set.
\* Any window stands for the mixed one.
HalfDate ==
  /\ open /\ custom
  /\ window' \in Dates \ {window}
  /\ skew' = skew \cup {"window", "half"}
  /\ UNCHANGED <<open, env, custom, newFilter, dropdownVal, appended, pending, drawn, cells>>

\* A mutation of Select: the treemap is asked before the filter is replaced.
SelectBefore ==
  /\ open
  /\ appended' \in Filter \cup {None, appended}
  /\ newFilter' = appended'
  /\ Ask({"treemap"}, Queried(env, window, newFilter)) /\ skew' = skew \cap {"half"}
  /\ UNCHANGED <<open, env, window, custom, dropdownVal, cells>>

\* A slice is clicked, or Reset: the treemap alone is asked again.  A slice
\* without a value leaves the filter as an earlier click, of this dashboard or
\* another, has set it.
Select ==
  /\ open
  /\ appended' \in Filter \cup {None, appended}
  /\ newFilter' = appended'
  /\ Ask({"treemap"}, Queried(env, window, newFilter')) /\ skew' = skew \cap {"half"}
  /\ UNCHANGED <<open, env, window, custom, dropdownVal, cells>>

-----------------------------------------------------------------------------
(* Answers, in any order.                                                  *)

\* A call of the panel, the last, an older one or one of a dashboard that was left,
\* is answered.
Answered(p, call) ==
  /\ IF call = "last" THEN Last(p) = 1 ELSE pending[p][call] > 0
  /\ pending' = [pending EXCEPT ![p][call] = IF call = "last" THEN None ELSE @ - 1]
  /\ UNCHANGED <<open, env, scope, dropdownVal, appended, skew>>

Shown(p, call) ==
  drawn' = [drawn EXCEPT ![p] = IF call = "last" THEN pending[p].last ELSE Earlier]

\* The scope an answer is drawn with.
By(call) == IF call = "left" THEN "left" ELSE "this"

DrawChart(p, call) ==
  /\ open /\ p # "treemap"
  /\ Answered(p, call) /\ Shown(p, call)
  /\ UNCHANGED cells

\* createZoomTree.  Cells already there get the new data and keep the scope they
\* read, of those that are not needed any more the last are removed, and those
\* that are added read the scope of the call.
DrawCells(call) ==
  /\ open /\ ~preserved
  /\ Answered("treemap", call) /\ Shown("treemap", call)
  /\ bound' \in IF bound = {} THEN {{By(call)}}
                ELSE {there \cup added :
                        there \in SUBSET bound \ {{}}, added \in SUBSET {By(call)}}
  /\ UNCHANGED preserved

\* createZoomTree of the first answer after sendAudit: its cells are put back, and
\* read the scope of the call.
PutBack(call) ==
  /\ open /\ preserved
  /\ Answered("treemap", call)
  /\ drawn' = [drawn EXCEPT !["treemap"] = Earlier]
  /\ bound' = {By(call)} /\ preserved' = FALSE

\* createZoomTree of an answer without data: the cells stay, with nothing to click.
NoData(call) ==
  /\ open
  /\ Answered("treemap", call)
  /\ drawn' = [drawn EXCEPT !["treemap"] = None]
  /\ UNCHANGED cells

\* The call fails, or there is no panel to draw the answer into.
Drop(p, call) ==
  /\ Answered(p, call)
  /\ UNCHANGED <<drawn, cells>>

\* sendAudit: the audits a cell opens that reads the scope of the dashboard shown;
\* doSearch adds the environment.  One that reads a scope that was left opens those
\* of the window and the filter that dashboard had.
Drill == Queried(env, window, newFilter)

-----------------------------------------------------------------------------
Next ==
  \/ Enter \/ Leave \/ SendAudit
  \/ EnvChange \/ TimeChange \/ Calendar \/ CustomDate \/ HalfDate \/ Select
  \/ \E call \in {"last", "older", "left"} :
       \/ \E p \in Panel : DrawChart(p, call) \/ Drop(p, call)
       \/ DrawCells(call) \/ PutBack(call) \/ NoData(call)

Spec == Init /\ [][Next]_vars

-----------------------------------------------------------------------------
Question == [env : Env, window : Window, filter : Filter \cup {None}]

TypeOK ==
  /\ open \in BOOLEAN /\ custom \in BOOLEAN
  /\ env \in Env /\ window \in Window /\ dropdownVal \in Relative
  /\ {appended, newFilter} \subseteq Filter \cup {None}
  /\ pending \in [Panel -> [last : Question \cup {None}, older : Nat, left : Nat]]
  /\ drawn \in [Panel -> Question \cup {Earlier, None}]
  /\ bound \subseteq {"this", "left"} /\ preserved \in BOOLEAN
  /\ skew \subseteq {"env", "window", "filter", "half"}

\* The panels that show the answer to their last call.
Fresh == {p \in Panel : drawn[p] \notin {Earlier, None}}

\* A chart that shows the answer to its last call shows the environment and the
\* window that are selected, unless half of a new window was set and nothing asked
\* (customDate, treemapController.js:73).
ChartsAligned ==
  \A p \in Fresh \ {"treemap"} :
    open => drawn[p] = Queried(env, window, None) \/ "half" \in skew

\* A cell opens the audits it counts (sendAudit, treemapDirectives.js:569), if the
\* treemap shows the answer to its last call, which it does not where the cells of
\* the last dashboard were put back, and if that cell was not first drawn by the
\* answer to a call of a dashboard that was left; except where the treemap was not
\* asked again: for another environment in a custom window, for a window that ends
\* before it starts or has but one date, or with the filter after another window
\* or environment was chosen.
CellsOpenTheirAudits ==
  LET d == drawn["treemap"] IN
  open /\ "treemap" \in Fresh /\ "this" \in bound =>
    /\ d.env = Drill.env \/ "env" \in skew
    /\ d.window = Drill.window \/ "window" \in skew
    /\ d.filter = Drill.filter \/ "filter" \in skew
=============================================================================
