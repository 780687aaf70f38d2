------------------------------ MODULE CursorPool ------------------------------
(* The pool of database cursors that pages of a collection are read with   *)
(* (DBCursorPool) and the page read itself                                  *)
(* (CollectionDAO.getCollectionData).  Entries of one collection, filter    *)
(* and sort order are modelled: cursorsPoolFilterGt and cursorsPoolFilterEq *)
(* keep the entries of others apart, which show only as evictions.          *)
(*                                                                          *)
(* The driver is external.  A DBCursor runs its query when it is first      *)
(* read; until then skip(n) sets the number of documents the query will     *)
(* skip, replacing the number set before, and close() does nothing.         *)
EXTENDS Integers, Sequences, FiniteSets

CONSTANTS
    Request,        \* requests that read a page
    Skips,          \* the toskip of the pages asked for
    SliceWidth, SliceDelta, SliceHeights,   \* eager-cursor-allocation-linear-*
    RndMinWidth, RndMaxCursors,             \* eager-cursor-allocation-random-*
    PoolSize,       \* eager-cursor-allocation-pool-size
    Sizes,          \* the sizes the collection may have
    None,           \* no cursor, no task
    MaxIssued,      \* bound: cursors the pool creates
    MaxTasks        \* bound: tasks that wait for the executor

ASSUME SkipsAssumption == Skips \subseteq Nat
ASSUME SliceAssumption ==
    /\ SliceWidth \in Nat \ {0} /\ SliceDelta \in 0..SliceWidth
    /\ SliceHeights \in Seq(Nat \ {0})
ASSUME RandomAssumption ==
    /\ RndMinWidth \in Nat \ {0} /\ RndMaxCursors \in Nat \ {0} /\ Sizes \subseteq Nat
ASSUME PoolAssumption == PoolSize \in Nat \ {0} /\ MaxIssued \in Nat /\ MaxTasks \in Nat
ASSUME NoneAssumption == None \notin Int /\ None \notin [id : Nat, skipped : Int, skip : Int]

VARIABLES
    pool,       \* the cache: its entries
    issued,     \* cursors the pool has created; the last one's cursorId
    tasks,      \* the queue of the executor
    slices,     \* slices the running task has still to fill
    missing,    \* cursors the task has still to create for the first of them
    req         \* what each request holds
vars == <<pool, issued, tasks, slices, missing, req>>

\* An entry: its key's cursorId and skipped, and the skip set in its cursor.
Entry == [id : Nat, skipped : Int, skip : Int]

Idle == [pc |-> "idle", toskip |-> 0, policy |-> "NONE", cursor |-> None]
Policy == {"LINEAR", "RANDOM", "NONE"}

-----------------------------------------------------------------------------
(* What a task creates: slices with the number of cursors each should have. *)

Linear(toskip) ==
    [k \in DOMAIN SliceHeights |->
        [skips |-> (toskip \div SliceWidth + k - 1) * SliceWidth - SliceDelta,
         want  |-> SliceHeights[k]]]

Random(size) ==
    LET total == size \div RndMinWidth + 1
        count == IF total <= RndMaxCursors THEN total ELSE RndMaxCursors
        width == IF total <= RndMaxCursors THEN RndMinWidth ELSE size \div count
    IN  [k \in 1..(count - 1) |-> [skips |-> k * width, want |-> 1]]

At(skips) == {e \in pool : e.skipped = skips}
Height(skips) == Cardinality(At(skips))
-----------------------------------------------------------------------------
(* Reading a page.                                                          *)

\* The cursors that can be used for a page: those that stop short of it.
Usable(toskip) == {e \in pool : e.skipped < toskip}
Best(toskip) ==
    {e \in Usable(toskip) : \A f \in Usable(toskip) : f.skipped <= e.skipped}

Read(r, toskip, policy, cursor) ==
    req' = [req EXCEPT ![r] = [pc |-> "read", toskip |-> toskip, policy |-> policy,
                               cursor |-> cursor]]

Submit(toskip, policy) ==
    /\ Len(tasks) < MaxTasks
    /\ tasks' = Append(tasks, [policy |-> policy, toskip |-> toskip])

\* DBCursorPool.get is not asked, or looks for nothing: the page is near.
NewCursor(r) ==
    /\ req[r].pc = "idle"
    /\ \E toskip \in Skips, policy \in Policy :
        /\ policy = "NONE" \/ toskip < SliceWidth
        /\ Read(r, toskip, policy, None)
    /\ UNCHANGED <<pool, issued, tasks, slices, missing>>

\* A mutation of Take: the cursor stays in the pool.
TakeShared(r) ==
    /\ req[r].pc = "idle"
    /\ \E toskip \in Skips, policy \in Policy \ {"NONE"} :
        /\ toskip >= SliceWidth
        /\ \E e \in Best(toskip) : Read(r, toskip, policy, e)
        /\ Submit(toskip, policy)
    /\ UNCHANGED <<pool, issued, slices, missing>>

\* get finds a cursor, takes it out of the pool and has the pool filled again.
Take(r) ==
    /\ req[r].pc = "idle"
    /\ \E toskip \in Skips, policy \in Policy \ {"NONE"} :
        /\ toskip >= SliceWidth
        /\ \E e \in Best(toskip) :
            /\ pool' = pool \ {e}
            /\ Read(r, toskip, policy, e)
        /\ Submit(toskip, policy)
    /\ UNCHANGED <<issued, slices, missing>>

\* get finds none, or the one it found has expired before it is taken out.
TakeNone(r) ==
    /\ req[r].pc = "idle"
    /\ \E toskip \in Skips, policy \in Policy \ {"NONE"} :
        /\ toskip >= SliceWidth
        /\ \/ Best(toskip) = {} /\ pool' = pool
           \/ \E e \in Best(toskip) : pool' = pool \ {e}
        /\ Read(r, toskip, policy, None)
        /\ Submit(toskip, policy)
    /\ UNCHANGED <<issued, slices, missing>>

\* The documents skipped by the query that a request runs: a cursor that is
\* not at the page yet has its skip set to what is left to skip.
FirstDocument(q) ==
    LET already == IF q.cursor = None THEN 0 ELSE q.cursor.skipped
    IN  IF q.toskip - already > 0 THEN q.toskip - already
        ELSE IF q.cursor = None THEN 0 ELSE q.cursor.skip

\* The page is read and the request ends.
Answer(r) ==
    /\ req[r].pc = "read"
    /\ req' = [req EXCEPT ![r] = Idle]
    /\ UNCHANGED <<pool, issued, tasks, slices, missing>>
-----------------------------------------------------------------------------
(* Filling the pool, one task after the other in the executor's thread.     *)

\* A task starts; the RANDOM policy asks for the (cached) size of the collection.
StartTask ==
    /\ slices = <<>> /\ tasks # <<>>
    /\ tasks' = Tail(tasks)
    /\ IF Head(tasks).policy = "LINEAR"
       THEN slices' = Linear(Head(tasks).toskip)
       ELSE \E size \in Sizes : slices' = Random(size)
    /\ UNCHANGED <<pool, issued, missing, req>>

\* A mutation of CountSlice: the cursors the slice has are not counted.
CountNothing ==
    /\ slices # <<>> /\ missing = None
    /\ missing' = Head(slices).want
    /\ UNCHANGED <<pool, issued, tasks, slices, req>>

\* The cursors the slice has are counted.
CountSlice ==
    /\ slices # <<>> /\ missing = None
    /\ missing' = Head(slices).want - Height(Head(slices).skips)
    /\ UNCHANGED <<pool, issued, tasks, slices, req>>

\* A mutation of PutCursor: the key names the start of the slice, the cursor not.
PutUnskipped ==
    /\ missing # None /\ missing > 0 /\ issued < MaxIssued
    /\ Cardinality(pool) < PoolSize
    /\ pool' = pool \cup {[id |-> issued + 1, skipped |-> Head(slices).skips, skip |-> 0]}
    /\ issued' = issued + 1 /\ missing' = missing - 1
    /\ UNCHANGED <<tasks, slices, req>>

\* A cursor is created and cached; a cache that is full makes room for it.
PutCursor ==
    /\ missing # None /\ missing > 0 /\ issued < MaxIssued
    /\ LET e == [id |-> issued + 1, skipped |-> Head(slices).skips,
                 skip |-> Head(slices).skips]
       IN  \/ Cardinality(pool) < PoolSize /\ pool' = pool \cup {e}
           \/ /\ Cardinality(pool) >= PoolSize
              /\ \E old \in pool : pool' = (pool \ {old}) \cup {e}
    /\ issued' = issued + 1 /\ missing' = missing - 1
    /\ UNCHANGED <<tasks, slices, req>>

NextSlice ==
    /\ missing # None /\ missing <= 0
    /\ missing' = None /\ slices' = Tail(slices)
    /\ UNCHANGED <<pool, issued, tasks, req>>

\* An entry was not used for long, or the cache makes room.
Evict ==
    /\ \E e \in pool : pool' = pool \ {e}
    /\ UNCHANGED <<issued, tasks, slices, missing, req>>
-----------------------------------------------------------------------------
Init ==
    /\ pool = {} /\ issued = 0 /\ tasks = <<>> /\ slices = <<>> /\ missing = None
    /\ req = [r \in Request |-> Idle]

RequestStep(r) == NewCursor(r) \/ Take(r) \/ TakeNone(r) \/ Answer(r)
TaskStep == StartTask \/ CountSlice \/ PutCursor \/ NextSlice
Next == (\E r \in Request : RequestStep(r)) \/ TaskStep \/ Evict

Spec == Init /\ [][Next]_vars
-----------------------------------------------------------------------------
(* Properties.                                                              *)

Slice == [skips : Int, want : Int]
Task == [policy : Policy, toskip : Nat]

TypeOK ==
    /\ pool \subseteq Entry /\ issued \in Nat
    /\ tasks \in Seq(Task) /\ slices \in Seq(Slice) /\ missing \in Int \cup {None}
    /\ req \in [Request -> [pc : {"idle", "read"}, toskip : Nat, policy : Policy,
                             cursor : Entry \cup {None}]]

\* A cursor is read by one request only, and not while it is in the pool for
\* another: get is synchronized and takes out what it hands out, while the
\* executor adds cursors and the cache drops them at any time.
HeldOnce ==
    \A r \in Request : req[r].cursor # None =>
        /\ \A e \in pool : e.id # req[r].cursor.id
        /\ \A s \in Request \ {r} :
             req[s].cursor # None => req[s].cursor.id # req[r].cursor.id

\* The heights a slice may be asked to have.
Heights == {SliceHeights[k] : k \in DOMAIN SliceHeights} \cup {1}

\* A slice never gets more cursors than the configured heights, however many
\* requests ask for it at once: a task counts first and creates afterwards,
\* which is safe only because the executor has one thread.
HeightBound == \A e \in pool : \E h \in Heights : Height(e.skipped) <= h

\* The page a request reads starts at the document it asked for
\* (config/restheart.yml:170), whichever cursor it is read with.
PageInPlace ==
    \A r \in Request : req[r].pc = "read" => FirstDocument(req[r]) = req[r].toskip
-----------------------------------------------------------------------------
(* The inductive invariant.                                                 *)

\* A cursor's skip is what its key says, and the pool handed it out at most once.
EntriesTrue == \A e \in pool : e.skip = e.skipped /\ e.id <= issued
HeldIssued ==
    \A r \in Request : req[r].cursor # None =>
        /\ req[r].cursor.id <= issued /\ req[r].cursor.skip = req[r].cursor.skipped
        /\ req[r].cursor.skipped < req[r].toskip
IdsDiffer == \A e, f \in pool : e.id = f.id => e = f
PoolBound == IsFiniteSet(pool) /\ Cardinality(pool) <= PoolSize

\* What the running task still creates fits under its slice's height.
TaskFits ==
    /\ \A k \in DOMAIN slices : slices[k].want \in Heights
    /\ missing # None =>
        /\ slices # <<>>
        /\ missing > 0 => Height(Head(slices).skips) + missing <= Head(slices).want

PoolInv ==
    /\ TypeOK /\ EntriesTrue /\ HeldIssued /\ IdsDiffer /\ PoolBound
    /\ HeldOnce /\ TaskFits /\ HeightBound
=============================================================================
