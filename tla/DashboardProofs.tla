--------------------------- MODULE DashboardProofs ---------------------------
(***************************************************************************)
(* Proofs about Dashboard, for any charts, windows, filters and            *)
(* environments and any number of calls under way, answered in any order.  *)
(***************************************************************************)
EXTENDS MCBrowser, TLAPS

Pending == [last : D!Question \cup {None}, older : Nat, left : Nat]
Drawings == D!Question \cup {Earlier, None}

-----------------------------------------------------------------------------
(* Asking and answering.                                                   *)

LEMMA QueriedIsQuery ==
  ASSUME NEW e \in Env, NEW w \in D!Window, NEW f \in Filter \cup {None}
  PROVE /\ D!Queried(e, w, f) \in D!Question
        /\ D!Queried(e, w, f).env = e /\ D!Queried(e, w, f).window = w /\ D!Queried(e, w, f).filter = f
  BY DEF D!Queried, D!Question

\* Those that ask have it as their last call and show what an earlier one asked
\* for; the others go on as before.
LEMMA AllAsk ==
  ASSUME D!TypeOK, NEW panels \in SUBSET D!Panel, NEW q \in D!Question, D!Ask(panels, q)
  PROVE /\ pending' \in [D!Panel -> Pending] /\ drawn' \in [D!Panel -> Drawings]
        /\ \A p \in panels : pending'[p].last = q /\ drawn'[p] \in {Earlier, None}
        /\ \A p \in D!Panel \ panels : pending'[p] = pending[p] /\ drawn'[p] = drawn[p]
  <1>1. /\ pending' = [p \in D!Panel |->
             IF p \in panels THEN D!Calls(q, pending[p].older + D!Last(p), pending[p].left)
             ELSE pending[p]]
        /\ drawn' = [p \in D!Panel |->
             IF p \in panels /\ drawn[p] # None THEN Earlier ELSE drawn[p]]
    BY DEF D!Ask
  <1>2. \A p \in D!Panel : pending[p] \in Pending /\ drawn[p] \in Drawings
    BY DEF D!TypeOK, Pending, Drawings
  <1>3. ASSUME NEW p \in D!Panel
        PROVE  /\ D!Calls(q, pending[p].older + D!Last(p), pending[p].left) \in Pending
               /\ D!Calls(q, pending[p].older + D!Last(p), pending[p].left).last = q
    <2>1. pending[p].older + D!Last(p) \in Nat /\ pending[p].left \in Nat
      BY <1>2 DEF Pending, D!Last
    <2>. QED  BY <2>1 DEF Pending, D!Calls
  <1>4. pending' \in [D!Panel -> Pending]  BY <1>1, <1>2, <1>3
  <1>5. drawn' \in [D!Panel -> Drawings]  BY <1>1, <1>2 DEF Drawings
  <1>. QED  BY <1>1, <1>3, <1>4, <1>5

\* An answered call is no longer one; the others stay.
LEMMA PanelAnswered ==
  ASSUME D!TypeOK, NEW p \in D!Panel, NEW kind \in {"last", "older", "left"}, D!Answered(p, kind)
  PROVE /\ pending' \in [D!Panel -> Pending]
        /\ \A r \in D!Panel : pending'[r].last \in {pending[r].last, None}
        /\ kind = "last" => pending[p].last \in D!Question
        /\ UNCHANGED <<open, env, window, custom, newFilter, dropdownVal, appended, skew>>
  <1>1. /\ pending' = [pending EXCEPT ![p][kind] = IF kind = "last" THEN None ELSE @ - 1]
        /\ IF kind = "last" THEN D!Last(p) = 1 ELSE pending[p][kind] > 0
        /\ UNCHANGED <<open, env, window, custom, newFilter, dropdownVal, appended, skew>>
    BY DEF D!Answered, D!scope
  <1>2. pending \in [D!Panel -> Pending]  BY DEF D!TypeOK, Pending
  <1>3. CASE kind = "last"
    <2>1. pending' = [pending EXCEPT ![p] = [@ EXCEPT !.last = None]]  BY <1>1, <1>3
    <2>2. [pending[p] EXCEPT !.last = None] \in Pending
            /\ [pending[p] EXCEPT !.last = None].last = None
      BY <1>2 DEF Pending
    <2>3. pending[p].last \in D!Question  BY <1>1, <1>2, <1>3 DEF D!Last, Pending
    <2>. QED  BY <1>1, <1>2, <2>1, <2>2, <2>3
  <1>4. CASE kind = "older"
    <2>1. pending' = [pending EXCEPT ![p] = [pending[p] EXCEPT !.older = pending[p].older - 1]]
      BY <1>1, <1>2, <1>4
    <2>2. pending[p].older \in Nat /\ pending[p].older > 0  BY <1>1, <1>2, <1>4 DEF Pending
    <2>3. [pending[p] EXCEPT !.older = pending[p].older - 1] \in Pending
            /\ [pending[p] EXCEPT !.older = pending[p].older - 1].last = pending[p].last
      BY <1>2, <2>2 DEF Pending
    <2>. QED  BY <1>1, <1>2, <1>4, <2>1, <2>3
  <1>5. CASE kind = "left"
    <2>1. pending' = [pending EXCEPT ![p] = [pending[p] EXCEPT !.left = pending[p].left - 1]]
      BY <1>1, <1>2, <1>5
    <2>2. pending[p].left \in Nat /\ pending[p].left > 0  BY <1>1, <1>2, <1>5 DEF Pending
    <2>3. [pending[p] EXCEPT !.left = pending[p].left - 1] \in Pending
            /\ [pending[p] EXCEPT !.left = pending[p].left - 1].last = pending[p].last
      BY <1>2, <2>2 DEF Pending
    <2>. QED  BY <1>1, <1>2, <1>5, <2>1, <2>3
  <1>. QED  BY <1>3, <1>4, <1>5

\* A dashboard that is left keeps no last call and shows nothing.
LEMMA LeftKeeps ==
  ASSUME PanelsDiffer, D!TypeOK, D!Left
  PROVE /\ pending' \in [D!Panel -> Pending] /\ drawn' \in [D!Panel -> Drawings]
        /\ \A p \in D!Panel : pending'[p].last = None /\ drawn'[p] = None
        /\ open' = FALSE /\ skew' = {} /\ bound' = {}
        /\ window' = dropdownVal /\ custom' = FALSE /\ newFilter' = None
        /\ UNCHANGED <<env, dropdownVal, appended>>
  <1>1. PICK left \in [D!Panel -> 0..MaxLeft] :
          pending' = [p \in D!Panel |-> D!Calls(None, 0, left[p])]
    BY DEF D!Left
  <1>2. \A p \in D!Panel : D!Calls(None, 0, left[p]) \in Pending
                             /\ D!Calls(None, 0, left[p]).last = None
    BY DEF PanelsDiffer, D!Calls, Pending
  <1>. QED  BY <1>1, <1>2 DEF D!Left, Drawings

-----------------------------------------------------------------------------
(* Type correctness.                                                       *)

LEMMA DashboardTypeInit == D!Init => D!TypeOK
  <1>1. D!Calls(None, 0, 0) \in [last : D!Question \cup {None}, older : Nat, left : Nat]
    BY DEF D!Calls
  <1>. QED  BY <1>1 DEF D!Init, D!TypeOK, D!Window

\* Of the cells some stay, and some that read one more scope are added.
LEMMA CellsRead ==
  ASSUME NEW here, NEW who, NEW then,
         then \in {there \cup extra : there \in SUBSET here \ {{}}, extra \in SUBSET {who}}
  PROVE then \subseteq here \cup {who}
  OBVIOUS

\* Every step keeps the types.
LEMMA DashboardTypeStep == PanelsDiffer /\ D!TypeOK /\ [D!Next]_(D!vars) => D!TypeOK'
  <1> SUFFICES ASSUME PanelsDiffer, D!TypeOK, [D!Next]_(D!vars) PROVE D!TypeOK'  OBVIOUS
  <1>0. /\ D!Panel \subseteq D!Panel /\ Chart \subseteq D!Panel /\ {"treemap"} \subseteq D!Panel
        /\ None \in Filter \cup {None}
    BY DEF D!Panel
  <1> DEFINE Typed == pending' \in [D!Panel -> Pending] /\ drawn' \in [D!Panel -> Drawings]
  <1>a. ASSUME NEW panels \in SUBSET D!Panel, NEW e \in Env, NEW w \in D!Window,
               NEW f \in Filter \cup {None}, D!Ask(panels, D!Queried(e, w, f))
        PROVE  Typed
    BY <1>a, AllAsk, QueriedIsQuery
  <1>1. CASE D!Enter
    <2>1. env \in Env /\ window' \in D!Window /\ D!Ask(D!Panel, D!Queried(env, window', None))
      BY <1>1 DEF D!Enter, D!TypeOK, D!Window
    <2>2. Typed  BY <1>0, <1>a, <2>1
    <2>. QED  BY <1>1, <2>2 DEF D!Enter, D!TypeOK, D!Window, D!cells, Pending, Drawings
  <1>2. CASE D!Leave \/ D!SendAudit
    <2>1. D!Left /\ preserved' \in BOOLEAN  BY <1>2 DEF D!Leave, D!SendAudit, D!TypeOK
    <2>2. /\ pending' \in [D!Panel -> Pending] /\ drawn' \in [D!Panel -> Drawings]
          /\ open' = FALSE /\ skew' = {} /\ bound' = {}
          /\ window' = dropdownVal /\ custom' = FALSE /\ newFilter' = None
          /\ UNCHANGED <<env, dropdownVal, appended>>
      BY <2>1, LeftKeeps
    <2>3. open' \in BOOLEAN /\ custom' \in BOOLEAN  BY <2>2
    <2>. QED  BY <2>1, <2>2, <2>3 DEF D!TypeOK, D!Window, Pending, Drawings
  <1>3. CASE D!EnvChange
    <2>1. env' \in Env /\ window \in D!Window  BY <1>3 DEF D!EnvChange, D!TypeOK
    <2>2. \/ UNCHANGED <<pending, drawn>>
          \/ D!Ask(Chart, D!Queried(env', window, None)) \/ D!Ask(D!Panel, D!Queried(env', window, None))
      BY <1>3 DEF D!EnvChange
    <2>3. ASSUME UNCHANGED <<pending, drawn>> PROVE Typed
      BY <2>3 DEF D!TypeOK, Pending, Drawings
    <2>4. Typed  BY <1>0, <1>a, <2>1, <2>2, <2>3
    <2>5. skew' \subseteq {"env", "window", "filter", "half"}
      BY <1>3 DEF D!EnvChange, D!TypeOK, D!Without
    <2>. QED  BY <1>3, <2>4, <2>5 DEF D!EnvChange, D!TypeOK, D!scope, D!cells, Pending, Drawings
  <1>4. CASE D!TimeChange
    <2>1. env \in Env /\ window' \in D!Window /\ D!Ask(D!Panel, D!Queried(env, window', None))
      BY <1>4 DEF D!TimeChange, D!TypeOK, D!Window
    <2>2. Typed  BY <1>0, <1>a, <2>1
    <2>. QED
      BY <1>4, <2>2 DEF D!TimeChange, D!TypeOK, D!Window, D!Without, D!cells, Pending, Drawings
  <1>5. CASE D!Calendar  BY <1>5 DEF D!Calendar, D!TypeOK, D!cells
  <1>6. CASE D!CustomDate
    <2>1. env \in Env /\ window' \in D!Window  BY <1>6 DEF D!CustomDate, D!TypeOK, D!Window
    <2>2. D!Ask(Chart, D!Queried(env, window', None)) \/ D!Ask(D!Panel, D!Queried(env, window', None))
      BY <1>6 DEF D!CustomDate
    <2>3. Typed  BY <1>0, <1>a, <2>1, <2>2
    <2>4. skew' \subseteq {"env", "window", "filter", "half"}
      BY <1>6 DEF D!CustomDate, D!TypeOK, D!Without
    <2>. QED  BY <1>6, <2>1, <2>3, <2>4 DEF D!CustomDate, D!TypeOK, D!cells, Pending, Drawings
  <1>7. CASE D!HalfDate  BY <1>7 DEF D!HalfDate, D!TypeOK, D!Window, D!cells
  <1>8. CASE D!Select
    <2>1. env \in Env /\ window \in D!Window /\ newFilter' \in Filter \cup {None}
          /\ D!Ask({"treemap"}, D!Queried(env, window, newFilter'))
      BY <1>8 DEF D!Select, D!TypeOK
    <2>2. Typed  BY <1>0, <1>a, <2>1
    <2>. QED  BY <1>8, <2>1, <2>2 DEF D!Select, D!TypeOK, D!cells, Pending, Drawings
  <1>9. ASSUME NEW p \in D!Panel, NEW kind \in {"last", "older", "left"}, D!Answered(p, kind),
               \/ D!Shown(p, kind) \/ UNCHANGED drawn
               \/ drawn' = [drawn EXCEPT ![p] = Earlier] \/ drawn' = [drawn EXCEPT ![p] = None],
               bound' \subseteq {"this", "left"}, preserved' \in BOOLEAN
        PROVE D!TypeOK'
    <2>1. /\ pending' \in [D!Panel -> Pending]
          /\ kind = "last" => pending[p].last \in D!Question
          /\ UNCHANGED <<open, env, window, custom, newFilter, dropdownVal, appended, skew>>
      BY <1>9, PanelAnswered
    <2>2. drawn' \in [D!Panel -> Drawings]
      BY <1>9, <2>1 DEF D!Shown, D!TypeOK, Drawings
    <2>. QED  BY <1>9, <2>1, <2>2 DEF D!TypeOK, Pending, Drawings
  <1>10. ASSUME NEW kind \in {"last", "older", "left"},
                \/ \E p \in D!Panel : D!DrawChart(p, kind) \/ D!Drop(p, kind)
                \/ D!DrawCells(kind) \/ D!PutBack(kind) \/ D!NoData(kind)
         PROVE  D!TypeOK'
    <2>0. "treemap" \in D!Panel /\ bound \subseteq {"this", "left"} /\ preserved \in BOOLEAN
      BY DEF D!Panel, D!TypeOK
    <2>1. ASSUME NEW p \in D!Panel, D!DrawChart(p, kind) \/ D!Drop(p, kind) PROVE D!TypeOK'
      BY <1>9, <2>0, <2>1 DEF D!DrawChart, D!Drop, D!cells
    <2>2. CASE D!DrawCells(kind)
      <3>1. bound' \subseteq {"this", "left"}
        <4>1. D!By(kind) \in {"this", "left"}  BY DEF D!By
        <4>2. bound' \subseteq bound \cup {D!By(kind)}
          <5>1. CASE bound = {}  BY <2>2, <5>1 DEF D!DrawCells
          <5>2. CASE bound # {}
            <6>1. bound' \in {there \cup extra :
                                there \in SUBSET bound \ {{}}, extra \in SUBSET {D!By(kind)}}
              BY <2>2, <5>2 DEF D!DrawCells
            <6>. QED  BY <6>1, CellsRead
          <5>. QED  BY <5>1, <5>2
        <4>. QED  BY <4>1, <4>2 DEF D!TypeOK
      <3>. QED  BY <1>9, <2>0, <2>2, <3>1 DEF D!DrawCells
    <2>3. CASE D!PutBack(kind)  BY <1>9, <2>0, <2>3 DEF D!PutBack, D!By
    <2>4. CASE D!NoData(kind)  BY <1>9, <2>0, <2>4 DEF D!NoData, D!cells
    <2>. QED  BY <1>10, <2>1, <2>2, <2>3, <2>4
  <1>11. CASE UNCHANGED D!vars  BY <1>11 DEF D!vars, D!scope, D!cells, D!TypeOK
  <1>. QED  BY <1>1, <1>2, <1>3, <1>4, <1>5, <1>6, <1>7, <1>8, <1>10, <1>11 DEF D!Next

-----------------------------------------------------------------------------
(* What the panels show.                                                   *)

\* What the query q of a panel p agrees on with the environment e, the window w
\* and the filter f selected, but for what was not asked again.
Agrees(p, q, e, w, f, unasked) ==
  IF p = "treemap"
  THEN (q.env = e \/ "env" \in unasked) /\ (q.window = w \/ "window" \in unasked)
         /\ (q.filter = f \/ "filter" \in unasked)
  ELSE q = D!Queried(e, w, None) \/ "half" \in unasked

\* The last call of each panel, and the answer to it, are for what is selected.
PendingAgree ==
  \A p \in D!Panel : pending[p].last # None =>
    open /\ Agrees(p, pending[p].last, env, window, newFilter, skew)
DrawnAgree ==
  \A p \in D!Panel : drawn[p] \notin {Earlier, None} =>
    open /\ Agrees(p, drawn[p], env, window, newFilter, skew)

AgreeInv == PendingAgree /\ DrawnAgree

\* Asking without a filter agrees, once skew says where the filter is.
LEMMA AskAgrees ==
  ASSUME NEW p \in D!Panel, NEW e \in Env, NEW w \in D!Window, NEW f, NEW unasked,
         f = None \/ "filter" \in unasked
  PROVE Agrees(p, D!Queried(e, w, None), e, w, f, unasked)
  BY DEF Agrees, D!Queried

\* Every panel asks.
LEMMA AllAskAgree ==
  ASSUME D!TypeOK, NEW e \in Env, NEW w \in D!Window, D!Ask(D!Panel, D!Queried(e, w, None)),
         open', env' = e, window' = w, newFilter' = None \/ "filter" \in skew'
  PROVE AgreeInv'
  <1>1. \A p \in D!Panel : pending'[p].last = D!Queried(e, w, None) /\ drawn'[p] \in {Earlier, None}
    <2>1. D!Queried(e, w, None) \in D!Question  BY QueriedIsQuery
    <2>. QED  BY <2>1, AllAsk
  <1>2. \A p \in D!Panel : Agrees(p, D!Queried(e, w, None), e, w, newFilter', skew')
    BY AskAgrees
  <1>. QED  BY <1>1, <1>2 DEF AgreeInv, PendingAgree, DrawnAgree

\* Some panels ask, and what the others have and show still agrees.
LEMMA SomeAskAgree ==
  ASSUME D!TypeOK, AgreeInv, NEW panels \in SUBSET D!Panel, NEW q \in D!Question,
         D!Ask(panels, q), open',
         \A p \in panels : Agrees(p, q, env', window', newFilter', skew'),
         \A p \in D!Panel \ panels : \A x \in D!Question :
           Agrees(p, x, env, window, newFilter, skew) => Agrees(p, x, env', window', newFilter', skew')
  PROVE AgreeInv'
  <1>1. /\ \A p \in panels : pending'[p].last = q /\ drawn'[p] \in {Earlier, None}
        /\ \A p \in D!Panel \ panels : pending'[p] = pending[p] /\ drawn'[p] = drawn[p]
    BY AllAsk
  <1>2. \A p \in D!Panel : pending[p].last \in D!Question \cup {None}
                             /\ drawn[p] \in D!Question \cup {Earlier, None}
    BY DEF D!TypeOK
  <1>3. ASSUME NEW p \in D!Panel, pending'[p].last # None
        PROVE  Agrees(p, pending'[p].last, env', window', newFilter', skew')
    <2>1. CASE p \in panels  BY <1>1, <2>1
    <2>2. CASE p \notin panels
      <3>1. pending'[p].last = pending[p].last /\ pending[p].last \in D!Question
        BY <1>1, <1>2, <1>3, <2>2
      <3>2. Agrees(p, pending[p].last, env, window, newFilter, skew)
        BY <1>3, <3>1 DEF AgreeInv, PendingAgree
      <3>. QED  BY <2>2, <3>1, <3>2
    <2>. QED  BY <2>1, <2>2
  <1>4. ASSUME NEW p \in D!Panel, drawn'[p] \notin {Earlier, None}
        PROVE  Agrees(p, drawn'[p], env', window', newFilter', skew')
    <2>1. p \notin panels  BY <1>1, <1>4
    <2>2. drawn'[p] = drawn[p] /\ drawn[p] \in D!Question  BY <1>1, <1>2, <1>4, <2>1
    <2>3. Agrees(p, drawn[p], env, window, newFilter, skew)
      BY <1>4, <2>2 DEF AgreeInv, DrawnAgree
    <2>. QED  BY <2>1, <2>2, <2>3
  <1>. QED  BY <1>3, <1>4 DEF AgreeInv, PendingAgree, DrawnAgree

\* The charts ask, the treemap does not: skew tells in what it now differs.
LEMMA ChartsAskAgree ==
  ASSUME PanelsDiffer, D!TypeOK, AgreeInv,
         NEW e \in Env, NEW w \in D!Window, D!Ask(Chart, D!Queried(e, w, None)),
         open', env' = e, window' = w, UNCHANGED newFilter, skew \ {"half"} \subseteq skew',
         e = env \/ "env" \in skew', w = window \/ "window" \in skew'
  PROVE AgreeInv'
  <1>1. D!Queried(e, w, None) \in D!Question /\ Chart \in SUBSET D!Panel
    BY QueriedIsQuery DEF D!Panel
  <1>2. \A p \in Chart : Agrees(p, D!Queried(e, w, None), env', window', newFilter', skew')
    BY DEF PanelsDiffer, Agrees
  <1>3. \A p \in D!Panel \ Chart : p = "treemap"  BY DEF D!Panel
  <1>4. ASSUME NEW x, Agrees("treemap", x, env, window, newFilter, skew)
        PROVE Agrees("treemap", x, env', window', newFilter', skew')
    BY <1>4 DEF Agrees
  <1>. QED  BY <1>1, <1>2, <1>3, <1>4, SomeAskAgree

\* An answer to a call leaves what the panels have and show in agreement.
LEMMA AnswerAgrees ==
  ASSUME D!TypeOK, AgreeInv, NEW p \in D!Panel, NEW kind \in {"last", "older", "left"},
         D!Answered(p, kind),
         \/ open /\ D!Shown(p, kind)
         \/ UNCHANGED drawn
         \/ drawn' = [drawn EXCEPT ![p] = Earlier] \/ drawn' = [drawn EXCEPT ![p] = None]
  PROVE AgreeInv'
  <1>1. /\ \A r \in D!Panel : pending'[r].last \in {pending[r].last, None}
        /\ kind = "last" => pending[p].last \in D!Question
        /\ UNCHANGED <<open, env, window, newFilter, skew>>
    BY PanelAnswered
  <1>2. PendingAgree'  BY <1>1 DEF AgreeInv, PendingAgree
  <1>3. drawn \in [D!Panel -> Drawings]  BY DEF D!TypeOK, Drawings
  <1>4. ASSUME NEW r \in D!Panel, drawn'[r] \notin {Earlier, None}
        PROVE  drawn'[r] = drawn[r] \/ (r = p /\ kind = "last" /\ drawn'[r] = pending[r].last)
    BY <1>3, <1>4 DEF D!Shown
  <1>5. ASSUME NEW r \in D!Panel, drawn'[r] \notin {Earlier, None}
        PROVE  open /\ Agrees(r, drawn'[r], env, window, newFilter, skew)
    <2>1. CASE drawn'[r] = drawn[r]  BY <1>5, <2>1 DEF AgreeInv, DrawnAgree
    <2>2. CASE r = p /\ kind = "last" /\ drawn'[r] = pending[r].last
      BY <1>5, <2>2 DEF AgreeInv, PendingAgree
    <2>. QED  BY <1>4, <1>5, <2>1, <2>2
  <1>6. DrawnAgree'  BY <1>1, <1>5 DEF DrawnAgree
  <1>. QED  BY <1>2, <1>6 DEF AgreeInv

\* Every step keeps the invariant.
LEMMA AgreeStep ==
  ASSUME PanelsDiffer, D!TypeOK, AgreeInv, [D!Next]_(D!vars) PROVE AgreeInv'
  <1>1. CASE D!Enter
    <2>1. /\ env \in Env /\ window' \in D!Window /\ D!Ask(D!Panel, D!Queried(env, window', None))
          /\ open' /\ env' = env /\ newFilter' = None
      BY <1>1 DEF D!Enter, D!TypeOK, D!Window
    <2>. QED  BY <2>1, AllAskAgree
  <1>2. CASE D!Leave \/ D!SendAudit
    <2>1. D!Left  BY <1>2 DEF D!Leave, D!SendAudit
    <2>. QED  BY <2>1, LeftKeeps DEF AgreeInv, PendingAgree, DrawnAgree
  <1>3. CASE D!EnvChange
    <2>1. env' \in Env /\ window \in D!Window /\ UNCHANGED <<open, window, newFilter>>
      BY <1>3 DEF D!EnvChange, D!TypeOK, D!scope
    <2>2. ASSUME ~open PROVE AgreeInv'
      <3>1. UNCHANGED <<pending, drawn>>  BY <1>3, <2>2 DEF D!EnvChange
      <3>. QED  BY <2>2, <3>1 DEF AgreeInv, PendingAgree, DrawnAgree
    <2>3. ASSUME open, custom PROVE AgreeInv'
      <3>1. /\ D!Ask(Chart, D!Queried(env', window, None))
            /\ skew' = (skew \ {"half"}) \cup {"env"}
        BY <1>3, <2>3 DEF D!EnvChange
      <3>. QED  BY <2>1, <2>3, <3>1, ChartsAskAgree
    <2>4. ASSUME open, ~custom PROVE AgreeInv'
      <3>1. D!Ask(D!Panel, D!Queried(env', window, None)) /\ skew' = D!Without
        BY <1>3, <2>4 DEF D!EnvChange
      <3>2. newFilter' = None \/ "filter" \in skew'  BY <2>1, <3>1 DEF D!Without
      <3>. QED  BY <2>1, <2>4, <3>1, <3>2, AllAskAgree
    <2>. QED  BY <2>2, <2>3, <2>4
  <1>4. CASE D!TimeChange
    <2>1. /\ env \in Env /\ window' \in D!Window /\ D!Ask(D!Panel, D!Queried(env, window', None))
          /\ open' /\ env' = env /\ newFilter' = newFilter /\ skew' = D!Without
      BY <1>4 DEF D!TimeChange, D!TypeOK, D!Window
    <2>2. newFilter' = None \/ "filter" \in skew'  BY <2>1 DEF D!Without
    <2>. QED  BY <2>1, <2>2, AllAskAgree
  <1>5. CASE D!Calendar  BY <1>5 DEF D!Calendar, AgreeInv, PendingAgree, DrawnAgree
  <1>6. CASE D!CustomDate
    <2>1. /\ env \in Env /\ window' \in D!Window
          /\ open' /\ env' = env /\ UNCHANGED newFilter
      BY <1>6 DEF D!CustomDate, D!TypeOK, D!Window
    <2>2. ASSUME window' \in Backward PROVE AgreeInv'
      <3>1. /\ D!Ask(Chart, D!Queried(env, window', None))
            /\ skew' = (skew \ {"half"}) \cup {"window"}
        BY <1>6, <2>2 DEF D!CustomDate
      <3>. QED  BY <2>1, <3>1, ChartsAskAgree
    <2>3. ASSUME window' \notin Backward PROVE AgreeInv'
      <3>1. D!Ask(D!Panel, D!Queried(env, window', None)) /\ skew' = D!Without
        BY <1>6, <2>3 DEF D!CustomDate
      <3>2. newFilter' = None \/ "filter" \in skew'  BY <2>1, <3>1 DEF D!Without
      <3>. QED  BY <2>1, <3>1, <3>2, AllAskAgree
    <2>. QED  BY <2>2, <2>3
  <1>7. CASE D!HalfDate
    <2>1. /\ UNCHANGED <<open, env, newFilter, pending, drawn>>
          /\ skew' = skew \cup {"window", "half"}
      BY <1>7 DEF D!HalfDate
    <2>2. ASSUME NEW p, NEW x, Agrees(p, x, env, window, newFilter, skew)
          PROVE  Agrees(p, x, env', window', newFilter', skew')
      BY <2>1, <2>2 DEF Agrees
    <2>. QED  BY <2>1, <2>2 DEF AgreeInv, PendingAgree, DrawnAgree
  <1>8. CASE D!Select
    <2>1. /\ env \in Env /\ window \in D!Window /\ newFilter' \in Filter \cup {None}
          /\ D!Ask({"treemap"}, D!Queried(env, window, newFilter'))
          /\ open' /\ UNCHANGED <<env, window>> /\ skew' = skew \cap {"half"}
      BY <1>8 DEF D!Select, D!TypeOK
    <2> DEFINE q == D!Queried(env, window, newFilter')
    <2>2. q \in D!Question /\ q.env = env /\ q.window = window /\ q.filter = newFilter'
      BY <2>1, QueriedIsQuery
    <2> HIDE DEF q
    <2>3. Agrees("treemap", q, env', window', newFilter', skew')  BY <2>1, <2>2 DEF Agrees
    <2>4. ASSUME NEW p \in D!Panel \ {"treemap"}, NEW x, Agrees(p, x, env, window, newFilter, skew)
          PROVE Agrees(p, x, env', window', newFilter', skew')
      BY <2>1, <2>4 DEF Agrees
    <2>5. D!Ask({"treemap"}, q) /\ {"treemap"} \in SUBSET D!Panel  BY <2>1 DEF q, D!Panel
    <2>. QED  BY <2>1, <2>2, <2>3, <2>4, <2>5, SomeAskAgree
  <1>9. ASSUME NEW kind \in {"last", "older", "left"},
               \/ \E p \in D!Panel : D!DrawChart(p, kind) \/ D!Drop(p, kind)
               \/ D!DrawCells(kind) \/ D!PutBack(kind) \/ D!NoData(kind)
        PROVE  AgreeInv'
    <2>1. ASSUME NEW p \in D!Panel, D!DrawChart(p, kind) \/ D!Drop(p, kind) PROVE AgreeInv'
      BY <2>1, AnswerAgrees DEF D!DrawChart, D!Drop
    <2>2. "treemap" \in D!Panel  BY DEF D!Panel
    <2>3. CASE D!DrawCells(kind)  BY <2>2, <2>3, AnswerAgrees DEF D!DrawCells
    <2>4. CASE D!PutBack(kind)  BY <2>2, <2>4, AnswerAgrees DEF D!PutBack
    <2>5. CASE D!NoData(kind)  BY <2>2, <2>5, AnswerAgrees DEF D!NoData
    <2>. QED  BY <1>9, <2>1, <2>3, <2>4, <2>5
  <1>10. CASE UNCHANGED D!vars
    BY <1>10 DEF D!vars, D!scope, AgreeInv, PendingAgree, DrawnAgree
  <1>. QED  BY <1>1, <1>2, <1>3, <1>4, <1>5, <1>6, <1>7, <1>8, <1>9, <1>10 DEF D!Next

\* It holds at first.
LEMMA AgreeInit == D!Init => AgreeInv
  BY DEF D!Init, D!Calls, AgreeInv, PendingAgree, DrawnAgree

-----------------------------------------------------------------------------
(* The behaviours of the browser that are the dashboard's.                 *)

DashboardInv == part = "dashboard" => D!TypeOK /\ AgreeInv

\* It holds in the behaviours of the dashboard.
LEMMA DashboardAlways == Spec => []DashboardInv
  <1>1. Init => DashboardInv
    BY DashboardTypeInit, AgreeInit DEF Init, DashboardInv
  <1>2. DashboardInv /\ [Next]_vars => DashboardInv'
    <2> SUFFICES ASSUME DashboardInv, [Next]_vars, part' = "dashboard"
                 PROVE  D!TypeOK' /\ AgreeInv'
      BY DEF DashboardInv
    <2>1. part = "dashboard" /\ [D!Next]_(D!vars)
      BY DEF Next, vars, dashboardVars, D!vars, D!scope, D!cells
    <2>2. D!TypeOK /\ AgreeInv BY <2>1 DEF DashboardInv
    <2> QED BY <2>1, <2>2, DashboardTypeStep, AgreeStep, PanelsDiffer
  <1> QED BY <1>1, <1>2, PTL DEF Spec

\* In whatever order the answers come, a chart that shows the one to its last
\* call shows the environment and the window selected, but for half a new window,
\* for any charts, windows, filters and environments and any number of calls.
THEOREM ChartsAreAligned == Spec => []ChartsAligned
  <1>1. DashboardInv => ChartsAligned
    BY DEF DashboardInv, AgreeInv, DrawnAgree, Agrees, ChartsAligned, D!ChartsAligned, D!Fresh
  <1> QED BY <1>1, DashboardAlways, PTL

\* A cell opens the audits it counts, where the treemap shows the answer to its
\* last call and was asked again for what has changed since, and the cell is not
\* one that a dashboard that was left has drawn.
THEOREM CellsAreTrue == Spec => []CellsOpenTheirAudits
  <1>1. DashboardInv => CellsOpenTheirAudits
    <2> SUFFICES ASSUME AgreeInv, "treemap" \in D!Fresh
                 PROVE Agrees("treemap", drawn["treemap"], env, window, newFilter, skew)
                         => D!CellsOpenTheirAudits
      BY DEF DashboardInv, AgreeInv, DrawnAgree, CellsOpenTheirAudits, D!CellsOpenTheirAudits,
             D!Fresh
    <2> QED BY DEF Agrees, D!CellsOpenTheirAudits, D!Drill, D!Queried
  <1> QED BY <1>1, DashboardAlways, PTL
=============================================================================
