------------------------ MODULE CollectionPropsProofs ------------------------
(***************************************************************************)
(* Proofs about CollectionProps, for any number of requests: while PUTs    *)
(* and DELETEs do not overlap, the properties of a collection keep their   *)
(* creation date and never lose their etag; while no requests overlap, it  *)
(* implements CollectionLock.                                              *)
(***************************************************************************)
EXTENDS MCCollectionProps, TLAPS

-----------------------------------------------------------------------------
(* Types.                                                                  *)

\* A step of a request leaves it at a label, with locals of their type.
LEMMA StepType ==
  ASSUME TypeOK, NEW r \in Request, NEW label \in Label, NEW locals \in Locals,
         Step(r, label, locals)
  PROVE  /\ pc' \in [Request -> Label]
         /\ req' \in [Request -> Locals]
<1>1. NoRequest \in Locals
  BY DEF NoRequest, Absent, Locals, Props, Method
<1>2. QED
  BY <1>1 DEF Step, TypeOK

\* A request that goes on keeps the types.
LEMMA GotoType ==
  ASSUME TypeOK, NEW r \in Request, NEW label \in Label, Goto(r, label)
  PROVE  /\ pc' \in [Request -> Label]
         /\ req' \in [Request -> Locals]
<1>1. req[r] \in Locals
  BY DEF TypeOK
<1>2. QED
  BY <1>1, StepType DEF Goto

\* What a request is given are properties.
LEMMA SeenType ==
  ASSUME TypeOK, NEW r \in Request, NEW p \in Props
  PROVE  [req[r] EXCEPT !.seen = p] \in Locals
BY DEF TypeOK, Locals

\* The values that are stored have their types.
LEMMA StoreTypes ==
  ASSUME TypeOK
  PROVE  /\ Absent \in Props /\ Fresh \in Props
         /\ [Fresh EXCEPT !.created = NoDate] \in Props
         /\ [props EXCEPT !.etag = issued + 1] \in Props
         /\ OldDate \in Nat \cup {NoDate}
         /\ issued \in Nat /\ issued + 1 \in Nat /\ born \in Nat \cup {NoDate}
BY DEF TypeOK, Props, Absent, Fresh, OldDate

\* A request that has been given properties keeps the types.
LEMMA InjectedType ==
  ASSUME TypeOK, NEW r \in Request, NEW p \in Props, Injected(r, p),
         cache' \in Props \cup {NotCached}
  PROVE  TypeOK'
<1> DEFINE label == CASE req[r].op = "GET" -> "idle"
                      [] req[r].op = "PUT" -> "check"
                      [] OTHER -> IF p = Absent THEN "idle" ELSE "check"
<1>1. label \in Label
  BY DEF Label
<1>2. Step(r, label, [req[r] EXCEPT !.seen = p])
  BY DEF Injected
<1>3. [req[r] EXCEPT !.seen = p] \in Locals
  BY SeenType
<1> HIDE DEF label
<1>4. pc' \in [Request -> Label] /\ req' \in [Request -> Locals]
  BY <1>1, <1>2, <1>3, StepType
<1>5. QED
  BY <1>4 DEF Injected, TypeOK, storeVars

\* The verdict on a write that is let through.
LEMMA AcceptType ==
  ASSUME TypeOK, NEW r \in Request, Accept(r)
  PROVE  verdict' \in [tag : Nat \cup {NoTag, Garbage}, over : Nat \cup {NoTag},
                       accepted : BOOLEAN]
BY DEF TypeOK, Accept, Locals, Props

\* Every step keeps the types.
LEMMA TypeStep == TypeOK /\ [Next]_vars => TypeOK'
<1> SUFFICES ASSUME TypeOK, [Next]_vars PROVE TypeOK'
  OBVIOUS
<1> USE DEF Label, Loading
<1>1. ASSUME NEW r \in Request, NEW o \in Method, NEW t \in Tags, Begin(r, o, t)
      PROVE  TypeOK'
  <2>1. t \in Nat \cup {NoTag, Garbage}
    <3>1. issued \in Nat
      BY DEF TypeOK
    <3>2. QED
      BY <3>1 DEF Tags
  <2>2. [NoRequest EXCEPT !.op = o, !.tag = t] \in Locals
    BY <2>1 DEF NoRequest, Absent, Locals, Props
  <2>3. Step(r, "inject", [NoRequest EXCEPT !.op = o, !.tag = t])
    BY <1>1 DEF Begin
  <2>4. pc' \in [Request -> Label] /\ req' \in [Request -> Locals]
    BY <2>2, <2>3, StepType
  <2>5. QED
    BY <1>1, <2>4 DEF Begin, TypeOK, storeVars
<1>2. ASSUME NEW r \in Request, CacheHit(r) PROVE TypeOK'
  <2>1. cache \in Props
    BY <1>2 DEF CacheHit, TypeOK
  <2>2. QED
    BY <1>2, <2>1, InjectedType DEF CacheHit
<1>3. ASSUME NEW r \in Request, Load(r) PROVE TypeOK'
  <2>1. [req[r] EXCEPT !.seen = props] \in Locals
    BY SeenType DEF TypeOK
  <2>2. pc' \in [Request -> Label] /\ req' \in [Request -> Locals]
    <3>1. CASE props = Absent
      BY <1>3, <2>1, <3>1, StepType DEF Load
    <3>2. CASE props # Absent
      BY <1>3, <2>1, <3>2, StepType DEF Load
    <3>3. QED
      BY <3>1, <3>2
  <2>3. QED
    BY <1>3, <2>2 DEF Load, TypeOK, storeVars
<1>4. ASSUME NEW r \in Request, Loaded(r) PROVE TypeOK'
  <2>1. req[r].seen \in Props
    BY DEF TypeOK, Locals
  <2>2. QED
    BY <1>4, <2>1, InjectedType DEF Loaded
<1>5. ASSUME NEW r \in Request, FixFind(r) PROVE TypeOK'
  BY <1>5, GotoType DEF FixFind, TypeOK, storeVars
<1>6. ASSUME NEW r \in Request, FixExists(r) PROVE TypeOK'
  BY <1>6, GotoType DEF FixExists, TypeOK, storeVars
<1>7. ASSUME NEW r \in Request, FixInsert(r) PROVE TypeOK'
  <2>1. pc' \in [Request -> Label] /\ req' \in [Request -> Locals]
    BY <1>7, GotoType DEF FixInsert, FixInsertOf
  <2>2. props' \in Props /\ issued' \in Nat /\ born' \in Nat \cup {NoDate}
    BY <1>7, StoreTypes DEF FixInsert, FixInsertOf
  <2>3. QED
    BY <1>7, <2>1, <2>2 DEF FixInsert, FixInsertOf, TypeOK
<1>8. ASSUME NEW r \in Request, FixDuplicate(r) PROVE TypeOK'
  BY <1>8, GotoType DEF FixDuplicate, TypeOK, storeVars
<1>9. ASSUME NEW r \in Request, Reload(r) PROVE TypeOK'
  <2>1. [req[r] EXCEPT !.seen = props] \in Locals
    BY SeenType DEF TypeOK
  <2>2. pc' \in [Request -> Label] /\ req' \in [Request -> Locals]
    BY <1>9, <2>1, StepType DEF Reload
  <2>3. QED
    BY <1>9, <2>2 DEF Reload, TypeOK, storeVars
<1>10. ASSUME NEW r \in Request, Refused(r) PROVE TypeOK'
  <2>1. pc' \in [Request -> Label] /\ req' \in [Request -> Locals]
    BY <1>10, GotoType DEF Refused
  <2>2. req[r].tag \in Nat \cup {NoTag, Garbage}
    BY DEF TypeOK, Locals
  <2>3. QED
    BY <1>10, <2>1, <2>2 DEF Refused, TypeOK
<1>11. ASSUME NEW r \in Request, Checked(r) PROVE TypeOK'
  BY <1>11, GotoType DEF Checked, TypeOK, storeVars
<1>12. ASSUME NEW r \in Request, Patch(r) PROVE TypeOK'
  <2>1. pc' \in [Request -> Label] /\ req' \in [Request -> Locals]
    BY <1>12, GotoType DEF Patch
  <2>2. props' \in Props /\ issued' \in Nat /\ born' \in Nat \cup {NoDate}
    BY <1>12, StoreTypes DEF Patch
  <2>3. QED
    BY <1>12, <2>1, <2>2, AcceptType DEF Patch, TypeOK
<1>13. ASSUME NEW r \in Request, Put(r) PROVE TypeOK'
  <2>1. [req[r] EXCEPT !.date = OldDate] \in Locals
    BY StoreTypes DEF TypeOK, Locals
  <2>2. pc' \in [Request -> Label] /\ req' \in [Request -> Locals]
    <3>1. CASE props = Absent
      BY <1>13, <2>1, <3>1, StepType DEF Put, PutWith
    <3>2. CASE props # Absent
      BY <1>13, <2>1, <3>2, StepType DEF Put, PutWith
    <3>3. QED
      BY <3>1, <3>2
  <2>3. props' \in Props /\ issued' \in Nat /\ born' \in Nat \cup {NoDate}
    BY <1>13, StoreTypes DEF Put, PutWith
  <2>4. QED
    BY <1>13, <2>2, <2>3, AcceptType DEF Put, PutWith, TypeOK
<1>14. ASSUME NEW r \in Request, PutBack(r) PROVE TypeOK'
  <2>1. req[r].date \in Nat \cup {NoDate}
    BY DEF TypeOK, Locals
  <2>2. pc' \in [Request -> Label] /\ req' \in [Request -> Locals]
    BY <1>14, GotoType DEF PutBack, PutBackOf
  <2>3. props' \in Props /\ born' \in Nat \cup {NoDate}
    BY <1>14, <2>1 DEF PutBack, PutBackOf, TypeOK, Props
  <2>4. QED
    BY <1>14, <2>2, <2>3 DEF PutBack, PutBackOf, TypeOK
<1>15. ASSUME NEW r \in Request, CreateIndexes(r) PROVE TypeOK'
  BY <1>15, GotoType DEF CreateIndexes, TypeOK
<1>16. ASSUME NEW r \in Request, RemoveProps(r) PROVE TypeOK'
  <2>1. pc' \in [Request -> Label] /\ req' \in [Request -> Locals]
    BY <1>16, GotoType DEF RemoveProps
  <2>2. QED
    BY <1>16, <2>1, StoreTypes, AcceptType DEF RemoveProps, TypeOK
<1>17. ASSUME NEW r \in Request, Drop(r) PROVE TypeOK'
  BY <1>17, GotoType DEF Drop, TypeOK
<1>18. ASSUME NEW r \in Request, Invalidate(r) PROVE TypeOK'
  BY <1>18, GotoType DEF Invalidate, TypeOK, storeVars
<1>19. CASE WriteDocument
  BY <1>19 DEF WriteDocument, TypeOK
<1>20. CASE Expire
  BY <1>20 DEF Expire, TypeOK, storeVars
<1>21. CASE Crash
  <2>1. NoRequest \in Locals
    BY DEF NoRequest, Absent, Locals, Props, Method
  <2>2. pc' \in [Request -> Label] /\ req' \in [Request -> Locals]
    BY <1>21, <2>1 DEF Crash
  <2>3. props' \in Props /\ issued' \in Nat
    <3>1. props \in Props
      BY DEF TypeOK
    <3>2. QED
      BY <1>21, <3>1, StoreTypes DEF Crash
  <2>4. born' \in Nat \cup {NoDate}
    BY <1>21, <2>3 DEF Crash, Props
  <2>5. crashes' \in Nat /\ cache' \in Props \cup {NotCached}
    <3>1. crashes \in Nat
      BY DEF TypeOK
    <3>2. QED
      BY <1>21, <3>1 DEF Crash
  <2>6. data' = data /\ verdict' = verdict
    BY <1>21 DEF Crash
  <2>7. QED
    BY <2>2, <2>3, <2>4, <2>5, <2>6 DEF TypeOK
<1>22. CASE UNCHANGED vars
  BY <1>22 DEF vars, storeVars, TypeOK
<1>23. QED
  BY <1>1, <1>2, <1>3, <1>4, <1>5, <1>6, <1>7, <1>8, <1>9, <1>10, <1>11, <1>12,
     <1>13, <1>14, <1>15, <1>16, <1>17, <1>18, <1>19, <1>20, <1>21, <1>22
     DEF Next, BeginAny, Serve

-----------------------------------------------------------------------------
(* The steps of a request that leave the stored properties alone, and do   *)
(* not reach a write of them.                                              *)

\* A request that goes on without touching the properties, and is at none of
\* the labels the invariant speaks of afterwards, disturbs nothing.
LEMMA QuietStep ==
  ASSUME TypeOK, StillThere, DateHeld, CreatedKept, NeverStuck,
         UNCHANGED <<props, born>>,
         NEW r \in Request, ~Redating(r),
         pc'[r] \notin {"write", "redate", "redate new"},
         \A s \in Request \ {r} : pc'[s] = pc[s] /\ req'[s] = req[s]
  PROVE  StillThere' /\ DateHeld' /\ CreatedKept' /\ NeverStuck'
<1>1. \A s \in Request : Redating(s)' => s # r /\ Redating(s)
  BY DEF Redating
<1>2. \A s \in Request : Redating(s) => Redating(s)'
  BY DEF Redating
<1>3. StillThere'
  BY <1>1 DEF StillThere, Redating
<1>4. DateHeld'
  BY <1>1 DEF DateHeld
<1>5. CreatedKept'
  BY <1>2 DEF CreatedKept
<1>6. NeverStuck'
  BY DEF NeverStuck
<1>7. QED
  BY <1>3, <1>4, <1>5, <1>6

\* A step leaves the other requests alone.
LEMMA OthersKept ==
  ASSUME TypeOK, NEW r \in Request, NEW label, NEW locals, Step(r, label, locals)
  PROVE  /\ pc'[r] = label
         /\ \A s \in Request \ {r} : pc'[s] = pc[s] /\ req'[s] = req[s]
BY DEF Step, TypeOK

\* While one request writes properties, the others neither put a date back nor
\* remove them; no other one patches while they are removed.
LEMMA Alone ==
  ASSUME OneWriter, NEW r \in Request, Active(r), NEW s \in Request \ {r}, Active(s)
  PROVE  /\ req[r].op \in {"PUT", "DELETE"} => req[s].op \in {"GET", "PATCH"}
         /\ req[r].op = "DELETE" => req[s].op = "GET"
BY DEF OneWriter, Compatible

-----------------------------------------------------------------------------
(* The inductive invariant.                                                *)

LEMMA PropsInit == Init => PropsInv
<1> SUFFICES ASSUME Init PROVE PropsInv
  OBVIOUS
<1>1. TypeOK
  BY DEF Init, TypeOK, Props, Absent, Label, Locals, NoRequest, Method
<1>2. \A r \in Request : pc[r] = "idle"
  BY DEF Init
<1>3. OneWriter /\ StillThere /\ DateHeld
  BY <1>2 DEF OneWriter, Compatible, Active, StillThere, DateHeld, Redating
<1>4. CreatedKept /\ NeverStuck
  BY DEF Init, CreatedKept, NeverStuck
<1>5. QED
  BY <1>1, <1>3, <1>4 DEF PropsInv

\* What each step does to the parts of the invariant that are not its type.
LEMMA PropsStep ==
  ASSUME TypeOK, OneWriter, StillThere, DateHeld, CreatedKept, NeverStuck, Next
  PROVE  StillThere' /\ DateHeld' /\ CreatedKept' /\ NeverStuck'
<1> USE DEF Redating
<1>1. ASSUME NEW r \in Request, BeginAny(r) PROVE StillThere' /\ DateHeld' /\ CreatedKept' /\ NeverStuck'
  <2>1. PICK o \in Method, t \in Tags : Begin(r, o, t)
    BY <1>1 DEF BeginAny
  <2>2. \E locals : Step(r, "inject", locals)
    BY <2>1 DEF Begin
  <2>3. pc[r] = "idle" /\ UNCHANGED <<props, born>>
    BY <2>1 DEF Begin, storeVars
  <2>4. pc'[r] = "inject" /\ \A s \in Request \ {r} : pc'[s] = pc[s] /\ req'[s] = req[s]
    BY <2>2, OthersKept
  <2>5. QED
    BY <2>3, <2>4, QuietStep
<1>2. ASSUME NEW r \in Request, NEW p, pc[r] \in {"inject", "loaded"}, Injected(r, p)
      PROVE  StillThere' /\ DateHeld' /\ CreatedKept' /\ NeverStuck'
  <2>1. \E label \in {"idle", "check"} : Step(r, label, [req[r] EXCEPT !.seen = p])
    BY <1>2 DEF Injected
  <2>2. UNCHANGED <<props, born>>
    BY <1>2 DEF Injected, storeVars
  <2>3. QED
    BY <1>2, <2>1, <2>2, OthersKept, QuietStep
<1>3. ASSUME NEW r \in Request, Load(r) PROVE StillThere' /\ DateHeld' /\ CreatedKept' /\ NeverStuck'
  <2>1. \E label \in {"fix", "loaded"} : Step(r, label, [req[r] EXCEPT !.seen = props])
    BY <1>3 DEF Load
  <2>2. QED
    BY <1>3, <2>1, OthersKept, QuietStep DEF Load, storeVars
<1>4. ASSUME NEW r \in Request, FixFind(r) \/ FixExists(r) \/ FixDuplicate(r) \/ Reload(r)
      PROVE  StillThere' /\ DateHeld' /\ CreatedKept' /\ NeverStuck'
  <2>1. pc[r] \in Loading
    BY <1>4 DEF FixFind, FixExists, FixDuplicate, Reload, Loading
  <2>2. \E label \in Loading \cup {"idle"} : \E locals : Step(r, label, locals)
    BY <1>4 DEF FixFind, FixExists, FixDuplicate, Reload, Loading, Goto
  <2>3. UNCHANGED <<props, born>>
    BY <1>4 DEF FixFind, FixExists, FixDuplicate, Reload, storeVars
  <2>4. QED
    BY <2>1, <2>2, <2>3, OthersKept, QuietStep DEF Loading
<1>5. ASSUME NEW r \in Request, Refused(r) \/ CreateIndexes(r) \/ Drop(r) \/ Invalidate(r)
      PROVE  StillThere' /\ DateHeld' /\ CreatedKept' /\ NeverStuck'
  <2>1. pc[r] \in {"check", "index", "drop", "answered"}
    BY <1>5 DEF Refused, CreateIndexes, Drop, Invalidate
  <2>2. \E label \in {"idle", "answered"} : \E locals : Step(r, label, locals)
    BY <1>5 DEF Refused, CreateIndexes, Drop, Invalidate, Goto
  <2>3. UNCHANGED <<props, born>>
    BY <1>5 DEF Refused, CreateIndexes, Drop, Invalidate, storeVars
  <2>4. QED
    BY <2>1, <2>2, <2>3, OthersKept, QuietStep
<1>6. ASSUME NEW r \in Request, Checked(r) PROVE StillThere' /\ DateHeld' /\ CreatedKept' /\ NeverStuck'
  <2>1. Step(r, "write", req[r]) /\ pc[r] = "check"
    BY <1>6 DEF Checked, Goto
  <2>2. req'[r] = req[r] /\ pc'[r] = "write"
    BY <2>1, OthersKept DEF Step, TypeOK
  <2>3. \A s \in Request \ {r} : pc'[s] = pc[s] /\ req'[s] = req[s]
    BY <2>1, OthersKept
  <2>4. UNCHANGED <<props, born>>
    BY <1>6 DEF Checked, storeVars
  <2>5. req[r].op = "PATCH" => props # Absent
    <3>1. req[r].op = "PATCH" => props.etag = req[r].tag /\ req[r].tag # NoTag
      BY <1>6 DEF Checked, EtagMatches, Updating
    <3>2. QED
      BY <3>1 DEF Absent
  <2>6. StillThere'
    BY <2>2, <2>3, <2>4, <2>5 DEF StillThere
  <2>7. DateHeld'
    BY <2>2, <2>3, <2>4 DEF DateHeld
  <2>8. CreatedKept'
    BY <2>1, <2>2, <2>3, <2>4 DEF CreatedKept
  <2>9. NeverStuck'
    BY <2>4 DEF NeverStuck
  <2>10. QED
    BY <2>6, <2>7, <2>8, <2>9
<1>7. ASSUME NEW r \in Request, FixInsert(r) PROVE StillThere' /\ DateHeld' /\ CreatedKept' /\ NeverStuck'
  <2>1. \A s \in Request : ~Redating(s) /\ ~(pc[s] = "write" /\ req[s].op = "PATCH")
    BY <1>7 DEF FixInsert, FixInsertOf, StillThere
  <2>2. pc'[r] = "reload" /\ \A s \in Request \ {r} : pc'[s] = pc[s] /\ req'[s] = req[s]
    BY <1>7, OthersKept DEF FixInsert, FixInsertOf, Goto
  <2>3. StillThere' /\ DateHeld'
    BY <2>1, <2>2 DEF StillThere, DateHeld
  <2>4. props'.created = issued + 1 /\ props'.etag = issued + 1 /\ born' = issued + 1
    BY <1>7 DEF FixInsert, FixInsertOf, Fresh
  <2>5. issued + 1 # NoTag
    BY StoreTypes, CollectionPropsAssumption
  <2>6. QED
    BY <2>3, <2>4, <2>5 DEF CreatedKept, NeverStuck
<1>8. ASSUME NEW r \in Request, Patch(r) PROVE StillThere' /\ DateHeld' /\ CreatedKept' /\ NeverStuck'
  <2>1. props # Absent /\ props \in Props /\ ~Redating(r)
    BY <1>8 DEF Patch, StillThere, TypeOK
  <2>2. pc'[r] = "answered" /\ \A s \in Request \ {r} : pc'[s] = pc[s] /\ req'[s] = req[s]
    BY <1>8, OthersKept DEF Patch, Goto
  <2>3. props'.created = props.created /\ props'.etag = issued + 1 /\ born' = born
    BY <1>8, <2>1 DEF Patch, Props
  <2>4. issued + 1 # NoTag
    BY StoreTypes, CollectionPropsAssumption
  <2>5. props' # Absent
    BY <2>3, <2>4 DEF Absent
  <2>6. StillThere' /\ DateHeld'
    BY <2>2, <2>3, <2>5 DEF StillThere, DateHeld
  <2>7. CreatedKept'
    BY <2>1, <2>2, <2>3 DEF CreatedKept
  <2>8. QED
    BY <2>3, <2>4, <2>6, <2>7 DEF NeverStuck
<1>9. ASSUME NEW r \in Request, Put(r) PROVE StillThere' /\ DateHeld' /\ CreatedKept' /\ NeverStuck'
  <2>1. PICK label \in {"redate", "redate new"} : Step(r, label, [req[r] EXCEPT !.date = OldDate])
    BY <1>9 DEF Put, PutWith
  <2>2. Redating(r)' /\ \A s \in Request \ {r} : pc'[s] = pc[s] /\ req'[s] = req[s]
    BY <2>1, OthersKept
  <2>3. req'[r].op = "PUT" /\ req'[r].date = OldDate
    <3>1. req[r] \in Locals /\ req[r].op = "PUT"
      BY <1>9 DEF Put, PutWith, TypeOK
    <3>2. req'[r] = [req[r] EXCEPT !.date = OldDate]
      BY <2>1 DEF Step, TypeOK
    <3>3. QED
      BY <3>1, <3>2 DEF Locals
  <2>4. \A s \in Request : ~Redating(s)
    <3>1. Active(r) /\ pc[r] = "write"
      BY <1>9 DEF Put, PutWith, Active
    <3>2. \A s \in Request \ {r} : Redating(s) => Active(s) /\ req[s].op = "PUT"
      BY DEF StillThere, Active
    <3>3. QED
      BY <1>9, <3>1, <3>2, Alone DEF Put, PutWith
  <2>5. props'.etag # NoTag
    <3>1. props' = [Fresh EXCEPT !.created = NoDate] \/ props' = Fresh
      BY <1>9 DEF Put, PutWith
    <3>2. [Fresh EXCEPT !.created = NoDate].etag = issued + 1 /\ Fresh.etag = issued + 1
      BY DEF Fresh
    <3>3. issued + 1 # NoTag
      BY StoreTypes, CollectionPropsAssumption
    <3>4. QED
      BY <3>1, <3>2, <3>3
  <2>6. props' # Absent
    <3>1. Absent.etag = NoTag
      BY DEF Absent
    <3>2. QED
      BY <2>5, <3>1
  <2>7. born' \in {NoDate, OldDate}
    <3>1. CASE props = Absent
      BY <1>9, <3>1 DEF Put, PutWith, OldDate, Absent
    <3>2. CASE props # Absent
      BY <1>9, <2>4, <3>2 DEF Put, PutWith, OldDate, CreatedKept
    <3>3. QED
      BY <3>1, <3>2
  <2>8. StillThere'
    BY <2>2, <2>3, <2>6 DEF StillThere
  <2>9. DateHeld'
    BY <2>2, <2>3, <2>4, <2>7 DEF DateHeld
  <2>10. QED
    BY <2>2, <2>5, <2>8, <2>9 DEF CreatedKept, NeverStuck
<1>10. ASSUME NEW r \in Request, PutBack(r) PROVE StillThere' /\ DateHeld' /\ CreatedKept' /\ NeverStuck'
  <2>1. props # Absent /\ props \in Props /\ props.etag # NoTag
    BY <1>10 DEF PutBack, PutBackOf, StillThere, TypeOK, NeverStuck
  <2>2. pc'[r] \in {"index", "answered"}
        /\ \A s \in Request \ {r} : pc'[s] = pc[s] /\ req'[s] = req[s]
    BY <1>10, OthersKept DEF PutBack, PutBackOf, Goto
  <2>3. props'.created = req[r].date /\ props'.etag = props.etag /\ born' = born
    BY <1>10, <2>1 DEF PutBack, PutBackOf, Props
  <2>4. props' # Absent
    BY <2>1, <2>3 DEF Absent
  <2>5. born \in {NoDate, req[r].date}
    BY <1>10 DEF PutBack, PutBackOf, DateHeld
  <2>6. StillThere' /\ DateHeld'
    BY <2>2, <2>3, <2>4 DEF StillThere, DateHeld
  <2>7. QED
    BY <2>1, <2>3, <2>5, <2>6 DEF CreatedKept, NeverStuck
<1>11. ASSUME NEW r \in Request, RemoveProps(r) PROVE StillThere' /\ DateHeld' /\ CreatedKept' /\ NeverStuck'
  <2>1. Active(r) /\ req[r].op = "DELETE" /\ props' = Absent
    BY <1>11 DEF RemoveProps, Active
  <2>2. pc'[r] = "drop" /\ \A s \in Request \ {r} : pc'[s] = pc[s] /\ req'[s] = req[s]
    BY <1>11, OthersKept DEF RemoveProps, Goto
  <2>3. \A s \in Request \ {r} : Active(s) => req[s].op = "GET"
    BY <2>1, Alone
  <2>4. \A s \in Request \ {r} : ~Redating(s) /\ ~(pc[s] = "write" /\ req[s].op = "PATCH")
    BY <2>3 DEF StillThere, Active
  <2>5. QED
    BY <2>1, <2>2, <2>4 DEF StillThere, DateHeld, CreatedKept, NeverStuck
<1>12. CASE WriteDocument \/ Expire
  <2>1. UNCHANGED <<props, born, pc, req>>
    BY <1>12 DEF WriteDocument, Expire, storeVars
  <2>2. QED
    BY <2>1 DEF StillThere, DateHeld, CreatedKept, NeverStuck
<1>13. CASE Crash
  <2>1. \A s \in Request : pc'[s] = "idle"
    BY <1>13 DEF Crash
  <2>2. born' = props'.created
    BY <1>13 DEF Crash
  <2>3. props' = props \/ props'.etag = issued + 1
    BY <1>13 DEF Crash, Fresh
  <2>4. issued + 1 # NoTag
    BY StoreTypes, CollectionPropsAssumption
  <2>5. QED
    BY <2>1, <2>2, <2>3, <2>4 DEF StillThere, DateHeld, CreatedKept, NeverStuck
<1>14. QED
  BY <1>1, <1>2, <1>3, <1>4, <1>5, <1>6, <1>7, <1>8, <1>9, <1>10, <1>11, <1>12, <1>13
     DEF Next, Serve, CacheHit, Loaded

\* The invariant holds while one PUT or DELETE is under way at a time.
LEMMA PropsInvariant == OneWriterSpec => []PropsInv
<1>1. PropsInv /\ [Next /\ OneWriter']_vars => PropsInv'
  <2> SUFFICES ASSUME PropsInv, [Next /\ OneWriter']_vars PROVE PropsInv'
    OBVIOUS
  <2>1. TypeOK'
    BY TypeStep DEF PropsInv
  <2>2. CASE Next /\ OneWriter'
    BY <2>1, <2>2, PropsStep DEF PropsInv
  <2>3. CASE UNCHANGED vars
    BY <2>1, <2>3 DEF PropsInv, vars, storeVars, OneWriter, Compatible, Active, StillThere,
                      DateHeld, CreatedKept, NeverStuck, Redating
  <2>4. QED
    BY <2>2, <2>3
<1>2. QED
  BY PropsInit, <1>1, PTL DEF OneWriterSpec

\* However many requests are served at a time, and whatever the cache holds, the
\* properties keep their creation date as long as PUTs and DELETEs do not overlap.
THEOREM CreationDateKept == OneWriterSpec => []CreatedKept
<1>1. PropsInv => CreatedKept
  BY DEF PropsInv
<1>2. QED
  BY PropsInvariant, <1>1, PTL

\* The same holds of their etag: they can always be changed and removed again.
THEOREM PropertiesNeverStuck == OneWriterSpec => []NeverStuck
<1>1. PropsInv => NeverStuck
  BY DEF PropsInv
<1>2. QED
  BY PropsInvariant, <1>1, PTL

-----------------------------------------------------------------------------
(* Requests that do not overlap.                                           *)

\* What a request does is a step to a label, with locals that name an etag
\* that was issued.
LEMMA StepShape ==
  ASSUME TypeOK, TagsIssued, NEW r \in Request, BeginAny(r) \/ Serve(r)
  PROVE  /\ \E label, locals : Step(r, label, locals) /\ locals.tag \in Tags
         /\ issued' \in {issued, issued + 1}
<1>1. /\ req[r] \in Locals /\ req[r].tag \in Tags
  BY DEF TypeOK, TagsIssued
<1>2. \A p : [req[r] EXCEPT !.seen = p].tag = req[r].tag
  BY <1>1 DEF Locals
<1>3. \A d : [req[r] EXCEPT !.date = d].tag = req[r].tag
  BY <1>1 DEF Locals
<1>4. ASSUME NEW o \in Method, NEW t \in Tags
      PROVE  [NoRequest EXCEPT !.op = o, !.tag = t].tag = t
  BY DEF NoRequest
<1>5. CASE BeginAny(r)
  BY <1>4, <1>5 DEF BeginAny, Begin, storeVars
<1>6. CASE CacheHit(r) \/ Loaded(r) \/ Load(r) \/ Reload(r)
  BY <1>1, <1>2, <1>6 DEF CacheHit, Loaded, Injected, Load, Reload, storeVars
<1>7. CASE Put(r)
  BY <1>1, <1>3, <1>7 DEF Put, PutWith
<1>8. CASE FixFind(r) \/ FixExists(r) \/ FixInsert(r) \/ FixDuplicate(r)
  BY <1>1, <1>8 DEF FixFind, FixExists, FixInsert, FixInsertOf, FixDuplicate, Goto, storeVars
<1>9. CASE Refused(r) \/ Checked(r) \/ Patch(r) \/ PutBack(r) \/ CreateIndexes(r)
  BY <1>1, <1>9 DEF Refused, Checked, Patch, PutBack, PutBackOf, CreateIndexes, Goto, storeVars
<1>10. CASE RemoveProps(r) \/ Drop(r) \/ Invalidate(r)
  BY <1>1, <1>10 DEF RemoveProps, Drop, Invalidate, Goto, storeVars
<1> QED BY <1>5, <1>6, <1>7, <1>8, <1>9, <1>10 DEF Serve

\* A request names only etags that were issued.
LEMMA TagsStep ==
  ASSUME TypeOK, TagsIssued, NEW r \in Request, BeginAny(r) \/ Serve(r)
  PROVE  TagsIssued'
<1>1. PICK label, locals : Step(r, label, locals) /\ locals.tag \in Tags
  BY StepShape
<1>2. Tags \subseteq Tags' /\ NoTag \in Tags'
  <2>1. issued \in Nat /\ issued' \in {issued, issued + 1}
    BY StepShape DEF TypeOK
  <2> QED BY <2>1 DEF Tags
<1>3. NoRequest.tag = NoTag
  BY DEF NoRequest
<1>4. \A s \in Request : req'[s].tag \in Tags'
  BY <1>1, <1>2, <1>3 DEF Step, TypeOK, TagsIssued
<1> QED BY <1>4 DEF TagsIssued

\* The invariant speaks of the one request there is.
LEMMA OneIsAll ==
  ASSUME NEW r \in Request, \A s \in Request \ {r} : pc'[s] = "idle",
         TypeOK', TagsIssued', NeverStuck',
         pc'[r] \notin Written => cache' \in {NotCached, props'},
         pc'[r] \in Loading => cache' = NotCached,
         Informed(r)',
         props' # Absent => Redating(r)' \/ props'.created # NoDate
  PROVE  SerialInv'
<1>1. OneRequest'
  BY DEF OneRequest
<1>2. CacheTrue'
  BY DEF CacheTrue, Loading
<1>3. \A s \in Request : Informed(s)'
  BY DEF Informed, Redating
<1>4. AllInformed'
  BY <1>3 DEF AllInformed
<1>5. Dated'
  BY DEF Dated
<1> QED BY <1>1, <1>2, <1>4, <1>5 DEF SerialInv

\* A step of the one request that leaves the store alone.
LEMMA StoreKept ==
  ASSUME SerialInv, NEW r \in Request, NEW label, NEW locals, Step(r, label, locals),
         \A s \in Request \ {r} : pc[s] = "idle",
         TypeOK', TagsIssued', props' = props, ~Redating(r),
         label \notin {"redate", "redate new"},
         label \notin Written => cache' \in {NotCached, props},
         label \in Loading => cache' = NotCached,
         label \in {"loaded", "check", "write"} => locals.seen = props,
         label \in {"check", "write"} =>
           locals.op # "GET" /\ (locals.op = "PUT" \/ props # Absent),
         label = "write" => EtagMatches(r) /\ locals = req[r],
         label = "insert" => data'
  PROVE  SerialInv'
<1> USE DEF SerialInv
<1>1. pc'[r] = label /\ \A s \in Request \ {r} : pc'[s] = "idle"
  BY OthersKept
<1>2. label \notin {"idle", "answered"} => req'[r] = locals
  BY DEF Step, TypeOK
<1>3. Informed(r)'
  BY <1>1, <1>2 DEF Informed, Redating, EtagMatches, Updating
<1>4. props' # Absent => props'.created # NoDate
  <2>1. \A s \in Request : ~Redating(s)
    BY DEF Redating
  <2> QED BY <2>1 DEF Dated
<1>5. NeverStuck'
  BY DEF NeverStuck
<1> QED BY <1>1, <1>3, <1>4, <1>5, OneIsAll
\* A request is told what is stored, from the cache or from its own load of it.
LEMMA InjectedSerial ==
  ASSUME SerialInv, NEW r \in Request, Injected(r, props),
         pc[r] \in {"inject", "loaded"}, cache' \in {NotCached, props},
         \A s \in Request \ {r} : pc[s] = "idle",
         TypeOK', TagsIssued'
  PROVE  SerialInv'
<1> DEFINE locals == [req[r] EXCEPT !.seen = props]
<1>1. locals.seen = props /\ locals.op = req[r].op
  BY DEF SerialInv, TypeOK, Locals
<1>2. PICK label \in {"idle", "check"} :
        /\ Step(r, label, locals)
        /\ label = "check" => req[r].op # "GET" /\ (req[r].op = "PUT" \/ props # Absent)
  BY DEF Injected
<1>3. props' = props /\ data' = data
  BY DEF Injected, storeVars
<1> HIDE DEF locals
<1> QED BY <1>1, <1>2, <1>3, StoreKept DEF Redating, Written, Loading

\* Steps that do not write properties.
LEMMA QuietSerial ==
  ASSUME SerialInv, NEW r \in Request,
         \/ BeginAny(r) \/ CacheHit(r) \/ Load(r) \/ Loaded(r) \/ FixFind(r) \/ FixExists(r)
         \/ FixDuplicate(r) \/ Reload(r) \/ Refused(r) \/ Checked(r)
         \/ CreateIndexes(r) \/ Drop(r) \/ Invalidate(r),
         \A s \in Request \ {r} : pc[s] = "idle",
         TypeOK', TagsIssued'
  PROVE  SerialInv'
<1> USE DEF SerialInv, Redating, Written, Loading
<1>1. pc[r] \notin Written => cache \in {NotCached, props}
  BY DEF CacheTrue
<1>2. CASE BeginAny(r)
  <2>1. pc[r] = "idle" /\ UNCHANGED <<storeVars, cache>> /\ \E locals : Step(r, "inject", locals)
    BY <1>2 DEF BeginAny, Begin
  <2> QED BY <1>1, <2>1, StoreKept DEF storeVars
<1>3. CASE CacheHit(r)
  <2>1. cache = props
    BY <1>1, <1>3 DEF CacheHit
  <2> QED BY <1>3, <2>1, InjectedSerial DEF CacheHit
<1>4. CASE Load(r)
  <2>1. [req[r] EXCEPT !.seen = props].seen = props
    BY DEF TypeOK, Locals
  <2>2. \E label \in {"fix", "loaded"} : Step(r, label, [req[r] EXCEPT !.seen = props])
    BY <1>4 DEF Load
  <2>3. pc[r] = "inject" /\ cache = NotCached /\ UNCHANGED <<storeVars, cache>>
    BY <1>4 DEF Load
  <2> QED BY <2>1, <2>2, <2>3, StoreKept DEF storeVars
<1>5. CASE Loaded(r)
  <2>1. req[r].seen = props
    BY <1>5 DEF Loaded, AllInformed, Informed
  <2> QED BY <1>5, <2>1, InjectedSerial DEF Loaded
<1>6. CASE FixFind(r) \/ FixExists(r)
  <2>1. cache = NotCached
    BY <1>6 DEF FixFind, FixExists, CacheTrue
  <2>2. \E label \in {"exists", "insert", "reload"} :
          Step(r, label, req[r]) /\ (label = "insert" => data)
    BY <1>6 DEF FixFind, FixExists, Goto
  <2>3. pc[r] \in {"fix", "exists"} /\ UNCHANGED <<storeVars, cache>>
    BY <1>6 DEF FixFind, FixExists
  <2> QED BY <2>1, <2>2, <2>3, StoreKept DEF storeVars
<1>7. CASE FixDuplicate(r)
  <2>1. pc[r] = "insert" /\ UNCHANGED <<storeVars, cache>>
    BY <1>7 DEF FixDuplicate
  <2>2. \E label \in {"idle"} : Step(r, label, req[r])
    BY <1>7 DEF FixDuplicate, Goto
  <2> QED BY <1>1, <2>1, <2>2, StoreKept DEF storeVars
<1>8. CASE Reload(r)
  <2>1. [req[r] EXCEPT !.seen = props].seen = props
    BY DEF TypeOK, Locals
  <2>2. pc[r] = "reload" /\ cache = NotCached /\ UNCHANGED <<storeVars, cache>>
    BY <1>8 DEF Reload, CacheTrue
  <2>3. \E label \in {"loaded"} : Step(r, label, [req[r] EXCEPT !.seen = props])
    BY <1>8 DEF Reload
  <2> QED BY <2>1, <2>2, <2>3, StoreKept DEF storeVars
<1>9. CASE Refused(r)
  <2>1. \E label \in {"idle", "answered"} : Step(r, label, req[r])
    BY <1>9 DEF Refused, Goto
  <2>2. pc[r] = "check" /\ UNCHANGED <<props, cache>>
    BY <1>9 DEF Refused
  <2> QED BY <1>1, <2>1, <2>2, StoreKept
<1>10. CASE Checked(r)
  <2>1. pc[r] = "check" /\ EtagMatches(r) /\ UNCHANGED <<storeVars, cache>>
    BY <1>10 DEF Checked
  <2>2. /\ req[r].seen = props
        /\ req[r].op # "GET" /\ (req[r].op = "PUT" \/ props # Absent)
    BY <2>1 DEF AllInformed, Informed
  <2>3. \E label \in {"write"} : Step(r, label, req[r])
    BY <1>10 DEF Checked, Goto
  <2> QED BY <1>1, <2>1, <2>2, <2>3, StoreKept DEF storeVars
<1>11. CASE CreateIndexes(r) \/ Drop(r)
  <2>1. pc[r] \in {"index", "drop"} /\ props' = props
    BY <1>11 DEF CreateIndexes, Drop
  <2>2. \E label \in {"answered"} : Step(r, label, req[r])
    BY <1>11 DEF CreateIndexes, Drop, Goto
  <2> QED BY <2>1, <2>2, StoreKept
<1>12. CASE Invalidate(r)
  <2>1. pc[r] = "answered" /\ cache' = NotCached /\ props' = props /\ Step(r, "idle", req[r])
    BY <1>12 DEF Invalidate, Goto, storeVars
  <2> QED BY <2>1, StoreKept
<1> QED BY <1>2, <1>3, <1>4, <1>5, <1>6, <1>7, <1>8, <1>9, <1>10, <1>11, <1>12

\* What a write leaves behind it.
LEMMA WriteSerial ==
  ASSUME SerialInv, NEW r \in Request,
         FixInsert(r) \/ Patch(r) \/ Put(r) \/ PutBack(r) \/ RemoveProps(r),
         \A s \in Request \ {r} : pc[s] = "idle",
         TypeOK', TagsIssued'
  PROVE  SerialInv'
<1> USE DEF SerialInv, Redating, Written, Loading
<1>1. /\ issued + 1 # NoTag /\ issued + 1 # NoDate
      /\ req[r] \in Locals /\ props \in Props
  BY StoreTypes, CollectionPropsAssumption DEF TypeOK
<1>2. Informed(r)
  BY DEF AllInformed
<1>3. props # Absent => Redating(r) \/ props.created # NoDate
  BY DEF Dated
<1>4. CASE FixInsert(r)
  <2>1. /\ Step(r, "reload", req[r]) /\ pc[r] = "insert" /\ cache' = cache
        /\ props' = Fresh
    BY <1>4 DEF FixInsert, FixInsertOf, Goto
  <2>2. pc'[r] = "reload" /\ \A s \in Request \ {r} : pc'[s] = "idle"
    BY <2>1, OthersKept
  <2>3. cache' = NotCached
    BY <2>1 DEF CacheTrue
  <2>4. props'.etag # NoTag /\ props'.created # NoDate
    BY <1>1, <2>1 DEF Fresh
  <2>5. Informed(r)' /\ NeverStuck'
    BY <2>2, <2>4 DEF Informed, NeverStuck
  <2> QED BY <2>2, <2>3, <2>4, <2>5, OneIsAll
<1>5. CASE Patch(r)
  <2>1. /\ Step(r, "answered", req[r]) /\ pc[r] = "write" /\ req[r].op = "PATCH"
        /\ props' = [props EXCEPT !.etag = issued + 1]
    BY <1>5 DEF Patch, Goto
  <2>2. pc'[r] = "answered" /\ \A s \in Request \ {r} : pc'[s] = "idle"
    BY <2>1, OthersKept
  <2>3. props # Absent
    BY <1>2, <2>1 DEF Informed
  <2>4. props'.etag # NoTag /\ props'.created # NoDate
    BY <1>1, <1>3, <2>1, <2>3 DEF Props
  <2>5. Informed(r)' /\ NeverStuck'
    BY <2>2, <2>4 DEF Informed, NeverStuck
  <2> QED BY <2>2, <2>4, <2>5, OneIsAll
<1>6. CASE Put(r)
  <2>1. PICK label \in {"redate", "redate new"} : Step(r, label, [req[r] EXCEPT !.date = OldDate])
    BY <1>6 DEF Put, PutWith
  <2>2. /\ pc'[r] = label /\ \A s \in Request \ {r} : pc'[s] = "idle"
        /\ req'[r] = [req[r] EXCEPT !.date = OldDate]
    BY <2>1, OthersKept DEF Step, TypeOK
  <2>3. req'[r].date # NoDate
    BY <1>1, <2>2 DEF OldDate, Locals
  <2>4. props'.etag = issued + 1
    BY <1>6 DEF Put, PutWith, Fresh
  <2>5. props' # Absent
    <3>1. Absent.etag = NoTag
      BY DEF Absent
    <3> QED BY <1>1, <2>4, <3>1
  <2>6. Informed(r)' /\ NeverStuck'
    BY <1>1, <2>2, <2>3, <2>4, <2>5 DEF Informed, NeverStuck
  <2> QED BY <2>2, <2>6, OneIsAll
<1>7. CASE PutBack(r)
  <2>1. PICK label \in {"index", "answered"} : Step(r, label, req[r])
    BY <1>7 DEF PutBack, PutBackOf, Goto
  <2>2. pc'[r] = label /\ \A s \in Request \ {r} : pc'[s] = "idle"
    BY <2>1, OthersKept
  <2>3. /\ Redating(r) /\ props # Absent /\ req[r].date # NoDate
        /\ props' = [props EXCEPT !.created = req[r].date]
    BY <1>2, <1>7 DEF PutBack, PutBackOf, Informed
  <2>4. props'.etag # NoTag /\ props'.created # NoDate
    BY <1>1, <2>3 DEF Props, NeverStuck
  <2>5. Informed(r)' /\ NeverStuck'
    BY <2>2, <2>4 DEF Informed, NeverStuck
  <2> QED BY <2>2, <2>4, <2>5, OneIsAll
<1>8. CASE RemoveProps(r)
  <2>1. Step(r, "drop", req[r]) /\ props' = Absent
    BY <1>8 DEF RemoveProps, Goto
  <2>2. pc'[r] = "drop" /\ \A s \in Request \ {r} : pc'[s] = "idle"
    BY <2>1, OthersKept
  <2>3. Informed(r)' /\ NeverStuck'
    BY <2>1, <2>2 DEF Informed, NeverStuck
  <2> QED BY <2>1, <2>2, <2>3, OneIsAll
<1> QED BY <1>4, <1>5, <1>6, <1>7, <1>8

\* Documents written and entries that expire do not touch what a request knows.
LEMMA OutsideSerial ==
  ASSUME SerialInv, WriteDocument \/ Expire \/ UNCHANGED vars, TypeOK'
  PROVE  SerialInv'
<1>1. UNCHANGED <<props, pc, req, issued>> /\ (data => data') /\ cache' \in {NotCached, cache}
  BY DEF WriteDocument, Expire, vars, storeVars
<1>2. OneRequest' /\ TagsIssued' /\ CacheTrue' /\ Dated' /\ NeverStuck'
  BY <1>1 DEF SerialInv, OneRequest, TagsIssued, Tags, CacheTrue, Dated, NeverStuck, Redating
<1>3. AllInformed'
  BY <1>1 DEF SerialInv, AllInformed, Informed, EtagMatches, Updating, Redating
<1> QED BY <1>2, <1>3 DEF SerialInv

\* The steps of requests that do not overlap are steps.
LEMMA SerialIsNext == SerialNext => Next
BY DEF SerialNext, Next

\* Every serial step keeps the serial invariant.
LEMMA SerialInvStep == SerialInv /\ [SerialNext]_vars => SerialInv'
<1> SUFFICES ASSUME SerialInv, [SerialNext]_vars PROVE SerialInv'
  OBVIOUS
<1>1. TypeOK'
  BY SerialIsNext, TypeStep DEF SerialInv
<1>2. ASSUME NEW r \in Request, BeginAny(r) \/ Serve(r),
             \A s \in Request \ {r} : pc[s] = "idle"
      PROVE  SerialInv'
  <2>1. TagsIssued'
    BY <1>2, TagsStep DEF SerialInv
  <2> QED BY <1>1, <1>2, <2>1, QuietSerial, WriteSerial DEF Serve
<1> QED BY <1>1, <1>2, OutsideSerial DEF SerialNext

\* It holds at first.
LEMMA SerialInvInit == Init => SerialInv
<1> SUFFICES ASSUME Init PROVE SerialInv
  OBVIOUS
<1>1. TypeOK /\ NeverStuck
  BY PropsInit DEF PropsInv
<1>2. \A r \in Request : pc[r] = "idle" /\ req[r].tag = NoTag
  BY DEF Init, NoRequest
<1>3. OneRequest /\ TagsIssued /\ AllInformed
  BY <1>2 DEF OneRequest, TagsIssued, Tags, AllInformed, Informed, Redating
<1>4. CacheTrue /\ Dated
  BY DEF Init, CacheTrue, Dated
<1> QED BY <1>1, <1>3, <1>4 DEF SerialInv
\* It holds of requests that do not overlap.
LEMMA SerialAlways == SerialSpec => []SerialInv
<1> QED BY SerialInvInit, SerialInvStep, PTL DEF SerialSpec

-----------------------------------------------------------------------------
(* The refinement of CollectionLock.                                       *)

\* The properties and the collection, as the lock sees them, are those the one
\* request is about to leave behind.
LEMMA Seen ==
  ASSUME NEW r \in Request, \A s \in Request \ {r} : pc[s] = "idle"
  PROVE  /\ Settled = IF Redating(r) THEN [props EXCEPT !.created = req[r].date] ELSE props
         /\ SettledData = CASE pc[r] \in {"redate new", "index"} -> TRUE
                            [] pc[r] = "drop" -> FALSE
                            [] OTHER -> data
<1>1. ASSUME NEW s \in Request, s # r PROVE ~Redating(s)
  <2>1. pc[s] = "idle"
    BY <1>1
  <2> QED BY <2>1 DEF Redating
<1>2. Settled = IF Redating(r) THEN [props EXCEPT !.created = req[r].date] ELSE props
  BY <1>1 DEF Settled
<1>3. /\ (\E s \in Request : pc[s] \in {"redate new", "index"}) <=> pc[r] \in {"redate new", "index"}
      /\ (\E s \in Request : pc[s] = "drop") <=> pc[r] = "drop"
  OBVIOUS
<1>4. SettledData = CASE pc[r] \in {"redate new", "index"} -> TRUE
                      [] pc[r] = "drop" -> FALSE
                      [] OTHER -> data
  BY <1>3 DEF SettledData
<1> QED BY <1>2, <1>4

\* What a request alone is about to store, of the next state.
LEMMA SeenNext ==
  ASSUME NEW r \in Request, \A s \in Request \ {r} : pc'[s] = "idle"
  PROVE  /\ Settled' = IF Redating(r)' THEN [props' EXCEPT !.created = req'[r].date] ELSE props'
         /\ SettledData' = CASE pc'[r] \in {"redate new", "index"} -> TRUE
                             [] pc'[r] = "drop" -> FALSE
                             [] OTHER -> data'
<1>1. ASSUME NEW s \in Request, s # r PROVE ~Redating(s)'
  <2>1. pc'[s] = "idle"
    BY <1>1
  <2> QED BY <2>1 DEF Redating
<1>2. Settled' = IF Redating(r)' THEN [props' EXCEPT !.created = req'[r].date] ELSE props'
  BY <1>1 DEF Settled
<1>3. /\ (\E s \in Request : pc'[s] \in {"redate new", "index"}) <=> pc'[r] \in {"redate new", "index"}
      /\ (\E s \in Request : pc'[s] = "drop") <=> pc'[r] = "drop"
  OBVIOUS
<1>4. SettledData' = CASE pc'[r] \in {"redate new", "index"} -> TRUE
                       [] pc'[r] = "drop" -> FALSE
                       [] OTHER -> data'
  BY <1>3 DEF SettledData
<1> QED BY <1>2, <1>4
\* Steps that neither write nor refuse change nothing the lock sees.
LEMMA LockStutters ==
  ASSUME SerialInv, NEW r \in Request,
         \/ BeginAny(r) \/ CacheHit(r) \/ Load(r) \/ Loaded(r) \/ FixFind(r) \/ FixExists(r)
         \/ FixDuplicate(r) \/ Reload(r) \/ Checked(r) \/ Invalidate(r),
         \A s \in Request \ {r} : pc[s] = "idle"
  PROVE  UNCHANGED Lock!vars
<1> USE DEF SerialInv, Redating
<1>1. UNCHANGED storeVars
  BY DEF BeginAny, Begin, CacheHit, Load, Loaded, Injected, FixFind, FixExists, FixDuplicate,
         Reload, Checked, Invalidate
<1>2. \E label \in Loading \cup {"idle", "inject", "check", "write", "answered"} :
        \E locals : Step(r, label, locals)
  <2>1. CASE BeginAny(r) \/ Load(r) \/ Reload(r) \/ Checked(r) \/ Invalidate(r)
    BY <2>1 DEF BeginAny, Begin, Load, Reload, Checked, Invalidate, Goto, Loading
  <2>2. CASE CacheHit(r) \/ Loaded(r)
    BY <2>2 DEF CacheHit, Loaded, Injected
  <2>3. CASE FixFind(r) \/ FixExists(r) \/ FixDuplicate(r)
    BY <2>3 DEF FixFind, FixExists, FixDuplicate, Goto, Loading
  <2> QED BY <2>1, <2>2, <2>3
<1>3. pc[r] \in Loading \cup {"idle", "inject", "check", "answered"}
  BY DEF BeginAny, Begin, CacheHit, Load, Loaded, FixFind, FixExists, FixDuplicate,
         Reload, Checked, Invalidate, Loading
<1>4. /\ pc'[r] \notin {"redate", "redate new", "index", "drop"}
      /\ \A s \in Request \ {r} : pc'[s] = "idle"
  BY <1>2, OthersKept DEF Loading
<1>5. Settled = props /\ SettledData = data
  BY <1>3, Seen DEF Loading
<1>6. Settled' = props' /\ SettledData' = data'
  BY <1>4, SeenNext
<1> QED BY <1>1, <1>5, <1>6 DEF Lock!vars, storeVars

\* The second half of a write is not seen: its first half promised it.
LEMMA LockSettles ==
  ASSUME SerialInv, NEW r \in Request, PutBack(r) \/ CreateIndexes(r) \/ Drop(r),
         \A s \in Request \ {r} : pc[s] = "idle"
  PROVE  UNCHANGED Lock!vars
<1> USE DEF SerialInv, Redating
<1>1. UNCHANGED <<issued, verdict>>
  BY DEF PutBack, PutBackOf, CreateIndexes, Drop
<1>2. PICK label \in {"index", "answered"} : Step(r, label, req[r]) /\ (label = "index" <=> pc[r] = "redate new")
  BY DEF PutBack, PutBackOf, CreateIndexes, Drop, Goto
<1>3. pc'[r] = label /\ \A s \in Request \ {r} : pc'[s] = "idle"
  BY <1>2, OthersKept
<1>4. Settled' = props' /\ SettledData' = IF label = "index" THEN TRUE ELSE data'
  BY <1>3, SeenNext
<1>5. CASE PutBack(r)
  <2>1. /\ props' = [props EXCEPT !.created = req[r].date] /\ data' = data
        /\ pc[r] \in {"redate", "redate new"}
    BY <1>5 DEF PutBack, PutBackOf
  <2>2. Settled = props' /\ SettledData = IF pc[r] = "redate new" THEN TRUE ELSE data
    BY <2>1, Seen
  <2> QED BY <1>1, <1>2, <1>4, <2>1, <2>2 DEF Lock!vars
<1>6. CASE CreateIndexes(r) \/ Drop(r)
  <2>1. /\ props' = props /\ pc[r] \in {"index", "drop"}
        /\ data' = (pc[r] = "index")
    BY <1>6 DEF CreateIndexes, Drop
  <2>2. Settled = props /\ SettledData = (pc[r] = "index")
    BY <2>1, Seen
  <2> QED BY <1>1, <1>2, <1>4, <2>1, <2>2 DEF Lock!vars
<1> QED BY <1>5, <1>6

\* Writes of documents and entries that expire.
LEMMA LockOutside ==
  ASSUME SerialInv, WriteDocument \/ Expire \/ UNCHANGED vars
  PROVE  Lock!WriteDocument \/ UNCHANGED Lock!vars
<1>1. UNCHANGED <<props, pc, req, issued, verdict>>
  BY DEF WriteDocument, Expire, vars, storeVars
<1>2. Settled' = Settled
  BY <1>1 DEF Settled, Redating
<1>3. data' = data \/ data' = TRUE
  BY DEF WriteDocument, Expire, vars, storeVars
<1>4. SettledData' = SettledData \/ SettledData' = TRUE
  <2> DEFINE created == \E r \in Request : pc[r] \in {"redate new", "index"}
             dropped == \E r \in Request : pc[r] = "drop"
  <2>1. /\ SettledData = CASE created -> TRUE [] dropped -> FALSE [] OTHER -> data
        /\ SettledData' = CASE created -> TRUE [] dropped -> FALSE [] OTHER -> data'
    BY <1>1 DEF SettledData
  <2>2. ~(created /\ dropped)
    BY DEF SerialInv, OneRequest
  <2> HIDE DEF created, dropped
  <2>3. CASE created
    BY <2>1, <2>2, <2>3
  <2>4. CASE ~created /\ dropped
    BY <2>1, <2>4
  <2>5. CASE ~created /\ ~dropped
    <3>1. SettledData = data /\ SettledData' = data'
      BY <2>1, <2>5
    <3> QED BY <1>3, <3>1
  <2> QED BY <2>3, <2>4, <2>5
<1> QED BY <1>1, <1>2, <1>4 DEF Lock!WriteDocument, Lock!vars

\* A repair gives a collection without properties some.
LEMMA LockFix ==
  ASSUME SerialInv, NEW r \in Request, FixInsert(r),
         \A s \in Request \ {r} : pc[s] = "idle"
  PROVE  Lock!Fix
<1> USE DEF SerialInv, Redating
<1>1. /\ pc[r] = "insert" /\ props = Absent /\ Step(r, "reload", req[r])
      /\ props' = Fresh /\ issued' = issued + 1 /\ UNCHANGED <<data, verdict>>
  BY DEF FixInsert, FixInsertOf, Goto
<1>2. data
  BY <1>1 DEF AllInformed, Informed
<1>3. pc'[r] = "reload" /\ \A s \in Request \ {r} : pc'[s] = "idle"
  BY <1>1, OthersKept
<1>4. Settled = props /\ SettledData = data
  BY <1>1, Seen
<1>5. Settled' = props' /\ SettledData' = data'
  BY <1>3, SeenNext
<1> QED BY <1>1, <1>2, <1>4, <1>5 DEF Lock!Fix, Lock!Absent, Absent, Fresh

\* A request is refused only if there are properties with another etag.
LEMMA LockRefuse ==
  ASSUME SerialInv, NEW r \in Request, Refused(r),
         \A s \in Request \ {r} : pc[s] = "idle"
  PROVE  Lock!Refuse(req[r].tag)
<1> USE DEF SerialInv, Redating
<1>1. /\ pc[r] = "check" /\ ~EtagMatches(r) /\ UNCHANGED <<props, data, issued>>
      /\ verdict' = [tag |-> req[r].tag, over |-> NoTag, accepted |-> FALSE]
  BY DEF Refused
<1>2. PICK label \in {"idle", "answered"} : Step(r, label, req[r])
  BY DEF Refused, Goto
<1>3. pc'[r] = label /\ \A s \in Request \ {r} : pc'[s] = "idle"
  BY <1>2, OthersKept
<1>4. Settled = props /\ SettledData = data
  BY <1>1, Seen
<1>5. Settled' = props' /\ SettledData' = data'
  BY <1>3, SeenNext
<1>6. props # Absent
  BY <1>1 DEF AllInformed, Informed, EtagMatches, Updating
<1>7. req[r].tag # props.etag
  BY <1>1, <1>6 DEF EtagMatches, NeverStuck
<1> QED BY <1>1, <1>4, <1>5, <1>6, <1>7 DEF Lock!Refuse, Lock!Absent, Absent

\* What is written names the etag of what it replaces.
LEMMA LockWrite ==
  ASSUME SerialInv, NEW r \in Request, Patch(r) \/ Put(r) \/ RemoveProps(r),
         \A s \in Request \ {r} : pc[s] = "idle"
  PROVE  Lock!Create(req[r].tag) \/ Lock!Change(req[r].tag) \/ Lock!Remove(req[r].tag)
<1> USE DEF SerialInv, Redating
<1>1. /\ pc[r] = "write" /\ EtagMatches(r) /\ Accept(r)
      /\ req[r] \in Locals /\ props \in Props /\ UNCHANGED data
  BY DEF Patch, Put, PutWith, RemoveProps, AllInformed, Informed, TypeOK
<1>2. Updating(r) <=> props # Absent
  BY <1>1 DEF Updating, AllInformed, Informed
<1>3. props # Absent => req[r].tag # NoTag /\ req[r].tag = props.etag /\ props.created # NoDate
  <2>1. \A s \in Request : ~Redating(s)
    BY <1>1
  <2> QED BY <1>1, <1>2, <2>1 DEF EtagMatches, Dated
<1>4. Settled = props /\ SettledData = data
  BY <1>1, Seen
<1>5. Lock!Accept(req[r].tag)
  BY <1>1, <1>4 DEF Accept, Lock!Accept
<1>6. CASE Patch(r)
  <2>1. /\ Step(r, "answered", req[r]) /\ req[r].op = "PATCH" /\ issued' = issued + 1
        /\ props' = [props EXCEPT !.etag = issued + 1]
    BY <1>6 DEF Patch, Goto
  <2>2. pc'[r] = "answered" /\ \A s \in Request \ {r} : pc'[s] = "idle"
    BY <2>1, OthersKept
  <2>3. Settled' = props' /\ SettledData' = data'
    BY <2>2, SeenNext
  <2>4. props # Absent
    BY <1>2, <2>1 DEF Updating
  <2> QED BY <1>1, <1>3, <1>4, <1>5, <2>1, <2>3, <2>4 DEF Lock!Change
<1>7. CASE Put(r)
  <2>1. /\ issued' = issued + 1
        /\ props' = IF Updating(r) THEN [Fresh EXCEPT !.created = NoDate] ELSE Fresh
    BY <1>7 DEF Put, PutWith
  <2>2. PICK label \in {"redate", "redate new"} :
          /\ Step(r, label, [req[r] EXCEPT !.date = OldDate])
          /\ label = "redate new" <=> props = Absent
    BY <1>7 DEF Put, PutWith
  <2>3. /\ pc'[r] = label /\ \A s \in Request \ {r} : pc'[s] = "idle"
        /\ req'[r] = [req[r] EXCEPT !.date = OldDate]
    BY <2>2, OthersKept DEF Step, TypeOK
  <2>4. req'[r].date = OldDate
    BY <1>1, <2>3 DEF Locals
  <2>5. Settled' = [etag |-> issued + 1, created |-> OldDate]
    <3>1. Settled' = [props' EXCEPT !.created = OldDate]
      BY <2>3, <2>4, SeenNext
    <3> QED BY <2>1, <3>1 DEF Fresh
  <2>6. SettledData' = IF label = "redate new" THEN TRUE ELSE data'
    BY <2>3, SeenNext
  <2>7. CASE props = Absent
    <3>1. OldDate = issued + 1
      BY <2>7 DEF OldDate, Absent
    <3> QED BY <1>4, <1>5, <2>1, <2>2, <2>5, <2>6, <2>7, <3>1 DEF Lock!Create, Lock!Absent, Absent
  <2>8. CASE props # Absent
    <3>1. OldDate = props.created
      BY <1>3, <2>8 DEF OldDate
    <3>2. [props EXCEPT !.etag = issued + 1] = [etag |-> issued + 1, created |-> props.created]
      <4> DEFINE changed == [props EXCEPT !.etag = issued + 1]
      <4>1. changed \in Props
        BY StoreTypes
      <4>2. changed.etag = issued + 1 /\ changed.created = props.created
        BY <1>1 DEF Props
      <4> HIDE DEF changed
      <4>3. changed = [etag |-> issued + 1, created |-> props.created]
        BY <4>1, <4>2 DEF Props
      <4> QED BY <4>3 DEF changed
    <3> QED BY <1>1, <1>3, <1>4, <1>5, <2>1, <2>2, <2>5, <2>6, <2>8, <3>1, <3>2 DEF Lock!Change
  <2> QED BY <2>7, <2>8
<1>8. CASE RemoveProps(r)
  <2>1. Step(r, "drop", req[r]) /\ req[r].op = "DELETE" /\ props' = Absent /\ issued' = issued
    BY <1>8 DEF RemoveProps, Goto
  <2>2. pc'[r] = "drop" /\ \A s \in Request \ {r} : pc'[s] = "idle"
    BY <2>1, OthersKept
  <2>3. Settled' = props' /\ SettledData' = FALSE
    BY <2>2, SeenNext
  <2>4. props # Absent
    BY <1>2, <2>1 DEF Updating
  <2> QED BY <1>3, <1>4, <1>5, <2>1, <2>3, <2>4 DEF Lock!Remove, Lock!Absent, Absent
<1> QED BY <1>6, <1>7, <1>8

\* A serial step is one of CollectionLock, or none.
LEMMA LockStep == SerialInv /\ [SerialNext]_vars => Lock!Next \/ UNCHANGED Lock!vars
<1> SUFFICES ASSUME SerialInv, [SerialNext]_vars PROVE Lock!Next \/ UNCHANGED Lock!vars
  OBVIOUS
<1>1. ASSUME NEW r \in Request, BeginAny(r) \/ Serve(r),
             \A s \in Request \ {r} : pc[s] = "idle"
      PROVE  Lock!Next \/ UNCHANGED Lock!vars
  <2>1. req[r].tag \in 1..issued \cup {NoTag, Garbage}
    BY DEF SerialInv, TagsIssued, Tags
  <2>2. CASE Refused(r)
    BY <1>1, <2>1, <2>2, LockRefuse DEF Lock!Next
  <2>3. CASE Patch(r) \/ Put(r) \/ RemoveProps(r)
    BY <1>1, <2>1, <2>3, LockWrite DEF Lock!Next
  <2>4. CASE FixInsert(r)
    BY <1>1, <2>4, LockFix DEF Lock!Next
  <2>5. CASE PutBack(r) \/ CreateIndexes(r) \/ Drop(r)
    BY <1>1, <2>5, LockSettles
  <2> QED BY <1>1, <2>2, <2>3, <2>4, <2>5, LockStutters DEF Serve
<1>2. WriteDocument \/ Expire \/ UNCHANGED vars => Lock!Next \/ UNCHANGED Lock!vars
  BY LockOutside DEF Lock!Next
<1> QED BY <1>1, <1>2 DEF SerialNext

\* The initial states are those of CollectionLock.
LEMMA LockInit == Init => Lock!Init
<1> SUFFICES ASSUME Init PROVE Lock!Init
  OBVIOUS
<1>1. Settled = props /\ SettledData = data
  BY DEF Init, Settled, SettledData, Redating
<1> QED BY <1>1 DEF Init, Lock!Init, Lock!Absent, Absent

\* As long as requests do not overlap, the cached existence check, the etag query
\* and the two writes of a PUT or DELETE are the optimistic lock they are meant to
\* be: every step is a step of CollectionLock or is not seen by it (CollectionDAO).
THEOREM LockImplemented == SerialSpec => ImplementsLock
<1>1. SerialInv /\ [SerialNext]_vars => [Lock!Next]_(Lock!vars)
  BY LockStep
<1> QED BY <1>1, LockInit, SerialAlways, PTL DEF SerialSpec, ImplementsLock, Lock!Spec

\* The same of the behaviours TLC explores, of which only some are serial.
THEOREM SerialBehavioursImplementLock == RegimeSpec => SerialImplementsLock
<1> DEFINE Serial == regime = "serial" => SerialInv
<1>1. RegimeInit => Serial /\ (regime = "serial" => Lock!Init)
  BY SerialInvInit, LockInit DEF RegimeInit
<1>2. Serial /\ [RegimeNext]_<<vars, regime>> => Serial'
  BY SerialInvStep DEF RegimeNext
<1>3. Serial /\ [RegimeNext]_<<vars, regime>>
        => [regime = "serial" => Lock!Next \/ UNCHANGED Lock!vars]_<<vars, regime>>
  BY LockStep DEF RegimeNext
<1> HIDE DEF Serial
<1> QED BY <1>1, <1>2, <1>3, PTL DEF RegimeSpec, SerialImplementsLock
=============================================================================
