--------------------------- MODULE CursorPoolProofs ---------------------------
(* The invariants of CursorPool hold for any number of requests, any slices *)
(* and any sizes.  PoolInv is inductive: cursors are told apart by the      *)
(* counter they are numbered with, and a task never has more to create than *)
(* the height of its slice leaves room for.                                 *)
EXTENDS CursorPool, FiniteSetTheorems, TLAPS

-----------------------------------------------------------------------------
(* What the tasks of DBCursorPool put on their list has its type.          *)

\* A slice whose height is one of the configured ones.
Piece == [skips : Int, want : Heights]
\* Heights are positive numbers.
LEMMA HeightsNat == Heights \subseteq Nat \ {0}
  BY SliceAssumption DEF Heights
\* The integer division of the slice computations.
LEMMA DivNat == ASSUME NEW a \in Nat, NEW b \in Nat \ {0} PROVE a \div b \in Nat
  BY SMTT(20)
\* populateCacheLinear fills slices of the configured heights.
LEMMA LinearPieces == ASSUME NEW t \in Nat PROVE Linear(t) \in Seq(Piece)
  <1>1. t \div SliceWidth \in Nat BY DivNat, SliceAssumption
  <1>2. \A k \in DOMAIN SliceHeights : (t \div SliceWidth + k - 1) * SliceWidth - SliceDelta \in Int
    BY <1>1, SliceAssumption
  <1>3. \A k \in DOMAIN SliceHeights : SliceHeights[k] \in Heights BY DEF Heights
  <1>4. Linear(t) \in [1..Len(SliceHeights) -> Piece]
    BY <1>2, <1>3, SliceAssumption DEF Linear, Piece
  <1> QED BY <1>4, SliceAssumption
\* populateCacheRandom fills slices of height one.
LEMMA RandomPieces == ASSUME NEW s \in Nat PROVE Random(s) \in Seq(Piece)
  <1> DEFINE total == s \div RndMinWidth + 1
             count == IF total <= RndMaxCursors THEN total ELSE RndMaxCursors
             width == IF total <= RndMaxCursors THEN RndMinWidth ELSE s \div count
  <1>1. count \in Nat \ {0} BY DivNat, RandomAssumption
  <1>2. width \in Nat BY <1>1, DivNat, RandomAssumption
  <1> HIDE DEF count, width
  <1>3. \A k \in 1..(count - 1) : k * width \in Int BY <1>1, <1>2
  <1>4. 1 \in Heights BY DEF Heights
  <1>5. [k \in 1..(count - 1) |-> [skips |-> k * width, want |-> 1]] \in [1..(count-1) -> Piece]
    BY <1>1, <1>3, <1>4 DEF Piece
  <1>6. Random(s) = [k \in 1..(count - 1) |-> [skips |-> k * width, want |-> 1]]
    BY DEF Random, count, width
  <1> QED BY <1>1, <1>5, <1>6

-----------------------------------------------------------------------------
(* Counting entries.                                                        *)

\* The entries of a set that are in a slice.
Count(P, s) == Cardinality({e \in P : e.skipped = s})

\* Dropping entries makes no slice higher.
LEMMA CountSub ==
  ASSUME NEW P, IsFiniteSet(P), NEW Q \in SUBSET P, NEW s
  PROVE  /\ IsFiniteSet(Q)
         /\ Count(Q, s) \in Nat
         /\ Count(P, s) \in Nat
         /\ Count(Q, s) <= Count(P, s)
  <1> DEFINE A == {e \in Q : e.skipped = s}
             B == {e \in P : e.skipped = s}
  <1>1. A \in SUBSET B /\ B \in SUBSET P OBVIOUS
  <1>2. IsFiniteSet(B) /\ IsFiniteSet(Q) BY <1>1, FS_Subset
  <1>3. IsFiniteSet(A) /\ Cardinality(A) <= Cardinality(B) BY <1>1, <1>2, FS_Subset
  <1>4. Cardinality(A) \in Nat /\ Cardinality(B) \in Nat BY <1>2, <1>3, FS_CardinalityType
  <1> QED BY <1>2, <1>3, <1>4 DEF Count

\* Adding one makes its own slice higher by at most one, and no other.
LEMMA CountAdd ==
  ASSUME NEW P, IsFiniteSet(P), NEW x, NEW Q \in SUBSET (P \cup {x}), NEW s
  PROVE  /\ IsFiniteSet(Q)
         /\ Count(Q, s) \in Nat
         /\ Count(P, s) \in Nat
         /\ Count(Q, s) <= Count(P, s) + 1
         /\ x.skipped # s => Count(Q, s)
                               <= Count(P, s)
  <1> DEFINE A == {e \in Q : e.skipped = s}
             B == {e \in P : e.skipped = s}
  <1>1. IsFiniteSet(P \cup {x}) BY FS_AddElement
  <1>2. IsFiniteSet(Q) BY <1>1, FS_Subset
  <1>3. IsFiniteSet(B) BY FS_Subset
  <1>4. IsFiniteSet(B \cup {x}) /\ Cardinality(B \cup {x}) <= Cardinality(B) + 1
    <2>1. Cardinality(B) \in Nat BY <1>3, FS_CardinalityType
    <2>2. /\ IsFiniteSet(B \cup {x})
          /\ Cardinality(B \cup {x}) = IF x \in B THEN Cardinality(B) ELSE Cardinality(B) + 1
      <3> HIDE DEF B
      <3> QED BY <1>3, FS_AddElement
    <2> HIDE DEF B
    <2> QED BY <2>1, <2>2
  <1>5. A \in SUBSET (B \cup {x}) OBVIOUS
  <1>6. IsFiniteSet(A) /\ Cardinality(A) <= Cardinality(B \cup {x}) BY <1>4, <1>5, FS_Subset
  <1>7. Cardinality(A) \in Nat /\ Cardinality(B) \in Nat /\ Cardinality(B \cup {x}) \in Nat
    BY <1>3, <1>4, <1>6, FS_CardinalityType
  <1>8. ASSUME x.skipped # s PROVE Cardinality(A) <= Cardinality(B)
    <2>1. A \in SUBSET B BY <1>8
    <2> QED BY <1>3, <2>1, FS_Subset
  <1>9. Cardinality(A) <= Cardinality(B) + 1 BY <1>4, <1>6, <1>7
  <1> QED BY <1>2, <1>7, <1>8, <1>9 DEF Count

\* A slice of a finite pool has a height.
LEMMA HeightNat == ASSUME IsFiniteSet(pool), NEW s PROVE Height(s) \in Nat
  <1>1. At(s) \in SUBSET pool BY DEF At
  <1> QED BY <1>1, FS_Subset, FS_CardinalityType DEF Height

\* The height of a slice is the number of its cursors.
LEMMA HeightIsCount == \A s : Height(s) = Count(pool, s)
  BY DEF Height, At, Count
-----------------------------------------------------------------------------
(* Types.                                                                   *)

Types == TypeOK /\ slices \in Seq(Piece)

\* A piece is a slice.
LEMMA PieceIsSlice == Seq(Piece) \subseteq Seq(Slice)
  <1>1. Piece \subseteq Slice
    <2>1. Heights \subseteq Int BY HeightsNat
    <2> QED BY <2>1 DEF Piece, Slice
  <1> SUFFICES ASSUME NEW s \in Seq(Piece) PROVE s \in Seq(Slice) OBVIOUS
  <1>2. s \in [1..Len(s) -> Slice] BY <1>1
  <1> QED BY <1>2

\* The pool stays finite.
LEMMA FiniteStep == ASSUME IsFiniteSet(pool), [Next]_vars PROVE IsFiniteSet(pool')
  <1>1. CASE PutCursor
    <2> PICK e : pool' \subseteq pool \cup {e} BY <1>1 DEF PutCursor
    <2> QED BY CountAdd
  <1>2. CASE pool' \subseteq pool BY <1>2, CountSub
  <1>3. \A r \in Request : RequestStep(r) => pool' \subseteq pool
    BY DEF RequestStep, NewCursor, Take, TakeNone, Answer
  <1>4. StartTask \/ CountSlice \/ NextSlice \/ Evict \/ UNCHANGED vars => pool' \subseteq pool
    BY DEF StartTask, CountSlice, NextSlice, Evict, vars
  <1> QED BY <1>1, <1>2, <1>3, <1>4 DEF Next, TaskStep

\* The heights pieces ask for.
LEMMA PieceHeights == ASSUME NEW q \in Seq(Piece) PROVE \A k \in DOMAIN q : q[k].want \in Heights
  <1>1. \A k \in DOMAIN q : q[k] \in Piece OBVIOUS
  <1> QED BY <1>1 DEF Piece

\* Every step keeps the types.
LEMMA TypesStep ==
  ASSUME Types, IsFiniteSet(pool), [Next]_vars,
         missing # None => slices # <<>>
  PROVE  Types'
  <1> USE DEF Types, TypeOK
  <1>1. ASSUME NEW r \in Request, NewCursor(r) PROVE Types'
    BY <1>1, SkipsAssumption DEF NewCursor, Read, Policy
  <1>2. ASSUME NEW r \in Request, Take(r) PROVE Types'
    <2> PICK toskip \in Skips, policy \in Policy \ {"NONE"}, e \in pool :
             e \in Best(toskip) /\ pool' = pool \ {e} /\ Read(r, toskip, policy, e) /\ Submit(toskip, policy)
      BY <1>2 DEF Take, Best, Usable
    <2>1. e \in Entry OBVIOUS
    <2>2. [policy |-> policy, toskip |-> toskip] \in Task BY SkipsAssumption DEF Task
    <2> QED BY <1>2, <2>1, <2>2, SkipsAssumption DEF Take, Read, Submit
  <1>3. ASSUME NEW r \in Request, TakeNone(r) PROVE Types'
    <2> PICK toskip \in Skips, policy \in Policy \ {"NONE"} :
             /\ pool' \subseteq pool
             /\ Read(r, toskip, policy, None) /\ Submit(toskip, policy)
      BY <1>3 DEF TakeNone
    <2>1. [policy |-> policy, toskip |-> toskip] \in Task BY SkipsAssumption DEF Task
    <2> QED BY <1>3, <2>1, SkipsAssumption DEF TakeNone, Read, Submit
  <1>4. ASSUME NEW r \in Request, Answer(r) PROVE Types'
    BY <1>4 DEF Answer, Idle, Policy
  <1>5. CASE StartTask
    <2>1. Head(tasks) \in Task /\ tasks' \in Seq(Task) BY <1>5 DEF StartTask
    <2>2. slices' \in Seq(Piece)
      BY <1>5, <2>1, LinearPieces, RandomPieces, RandomAssumption DEF StartTask, Task
    <2> QED BY <1>5, <2>1, <2>2, PieceIsSlice DEF StartTask
  <1>6. CASE CountSlice
    <2>1. Head(slices) \in Piece BY <1>6 DEF CountSlice
    <2>2. Height(Head(slices).skips) \in Int BY HeightNat
    <2>3. Head(slices).want \in Int
      <3>1. Heights \subseteq Int BY HeightsNat
      <3> QED BY <2>1, <3>1 DEF Piece
    <2>4. missing' \in Int BY <1>6, <2>2, <2>3 DEF CountSlice
    <2> QED BY <1>6, <2>4 DEF CountSlice
  <1>7. CASE PutCursor
    <2>1. Head(slices) \in Piece BY <1>7 DEF PutCursor
    <2>2. PICK e : /\ e = [id |-> issued + 1, skipped |-> Head(slices).skips,
                          skip |-> Head(slices).skips]
                   /\ pool' \subseteq pool \cup {e}
      BY <1>7 DEF PutCursor
    <2>3. e \in Entry BY <2>1, <2>2 DEF Entry, Piece
    <2>4. pool' \subseteq Entry
      <3>1. pool \subseteq Entry OBVIOUS
      <3> QED BY <2>2, <2>3, <3>1
    <2>5. missing' \in Int /\ issued' \in Nat BY <1>7 DEF PutCursor
    <2> QED BY <1>7, <2>4, <2>5 DEF PutCursor
  <1>8. CASE NextSlice BY <1>8, PieceIsSlice DEF NextSlice
  <1>9. CASE Evict BY <1>9 DEF Evict
  <1>10. CASE UNCHANGED vars BY <1>10 DEF vars
  <1> QED BY <1>1, <1>2, <1>3, <1>4, <1>5, <1>6, <1>7, <1>8, <1>9, <1>10
          DEF Next, RequestStep, TaskStep
-----------------------------------------------------------------------------
(* A cursor is held once.                                                   *)

HeldInv == EntriesTrue /\ HeldIssued /\ IdsDiffer /\ HeldOnce

\* A cursor that is handed out was in the pool and leaves it.
LEMMA HeldTake ==
  ASSUME Types, HeldInv, NEW r \in Request, Take(r)
  PROVE  HeldInv'
  <1> PICK toskip \in Skips, policy \in Policy \ {"NONE"}, e \in pool :
           /\ e \in Best(toskip) /\ pool' = pool \ {e}
           /\ Read(r, toskip, policy, e) /\ issued' = issued
    BY DEF Take, Best, Usable
  <1>1. e \in Entry /\ e.skipped < toskip BY DEF Types, TypeOK, Best, Usable
  <1>2. req'[r].cursor = e /\ req'[r].toskip = toskip BY DEF Read, Types, TypeOK
  <1>3. \A s \in Request \ {r} : req'[s] = req[s] BY DEF Read, Types, TypeOK
  <1>4. EntriesTrue' /\ IdsDiffer' BY DEF HeldInv, EntriesTrue, IdsDiffer
  <1>5. HeldIssued'
    BY <1>1, <1>2, <1>3 DEF HeldInv, HeldIssued, EntriesTrue
  <1>6. HeldOnce'
    BY <1>1, <1>2, <1>3 DEF HeldInv, HeldOnce, IdsDiffer
  <1> QED BY <1>4, <1>5, <1>6 DEF HeldInv

\* A step that hands nothing out and creates nothing.
LEMMA HeldQuiet ==
  ASSUME HeldInv, pool' \subseteq pool, issued' = issued,
         \A s \in Request : req'[s].cursor = None \/ req'[s] = req[s]
  PROVE  HeldInv'
  <1>1. EntriesTrue' /\ IdsDiffer' BY DEF HeldInv, EntriesTrue, IdsDiffer
  <1>2. HeldIssued' BY DEF HeldInv, HeldIssued
  <1>3. HeldOnce' BY DEF HeldInv, HeldOnce
  <1> QED BY <1>1, <1>2, <1>3 DEF HeldInv

\* A cursor that is created has a number of its own.
LEMMA HeldPut ==
  ASSUME Types, HeldInv, PutCursor
  PROVE  HeldInv'
  <1> DEFINE e == [id |-> issued + 1, skipped |-> Head(slices).skips,
                   skip |-> Head(slices).skips]
  <1>1. pool' \subseteq pool \cup {e} /\ issued' = issued + 1 /\ req' = req
    BY DEF PutCursor
  <1>2. e.id = issued + 1 /\ e.skip = e.skipped OBVIOUS
  <1> HIDE DEF e
  <1>3. issued \in Nat BY DEF Types, TypeOK
  <1>4. \A f \in pool : f.id \in Nat BY DEF Types, TypeOK, Entry
  <1>5. \A s \in Request : req[s].cursor # None => req[s].cursor.id \in Nat
    BY DEF Types, TypeOK, Entry
  <1>6. EntriesTrue' BY <1>1, <1>2, <1>3, <1>4 DEF HeldInv, EntriesTrue
  <1>7. IdsDiffer' BY <1>1, <1>2, <1>3, <1>4 DEF HeldInv, IdsDiffer, EntriesTrue
  <1>8. HeldIssued' BY <1>1, <1>3, <1>5 DEF HeldInv, HeldIssued
  <1>9. HeldOnce' BY <1>1, <1>2, <1>3, <1>5 DEF HeldInv, HeldOnce, HeldIssued
  <1> QED BY <1>6, <1>7, <1>8, <1>9 DEF HeldInv

\* Every step keeps who holds which cursor.
LEMMA HeldStep == ASSUME Types, HeldInv, [Next]_vars PROVE HeldInv'
  <1>1. ASSUME NEW r \in Request, NewCursor(r) \/ TakeNone(r) \/ Answer(r) PROVE HeldInv'
    <2>1. /\ pool' \subseteq pool /\ issued' = issued
          /\ \A s \in Request : req'[s].cursor = None \/ req'[s] = req[s]
      BY <1>1 DEF NewCursor, TakeNone, Answer, Read, Idle, Types, TypeOK
    <2> QED BY <2>1, HeldQuiet
  <1>2. ASSUME NEW r \in Request, Take(r) PROVE HeldInv' BY <1>2, HeldTake
  <1>3. CASE PutCursor BY <1>3, HeldPut
  <1>4. CASE StartTask \/ CountSlice \/ NextSlice \/ Evict \/ UNCHANGED vars
    <2>1. pool' \subseteq pool /\ issued' = issued /\ req' = req
      BY <1>4 DEF StartTask, CountSlice, NextSlice, Evict, vars
    <2> QED BY <2>1, HeldQuiet
  <1> QED BY <1>1, <1>2, <1>3, <1>4 DEF Next, RequestStep, TaskStep
-----------------------------------------------------------------------------
(* Slices stay within their heights.                                        *)

HeightInv == TaskFits /\ HeightBound

\* Dropping entries leaves room.
LEMMA HeightQuiet ==
  ASSUME Types, IsFiniteSet(pool), HeightInv, pool' \subseteq pool,
         slices' = slices, missing' = missing
  PROVE  HeightInv'
  <1>1. \A s : /\ Count(pool', s) \in Nat /\ Count(pool, s) \in Nat
              /\ Count(pool', s) <= Count(pool, s)
    BY CountSub
  <1>2. \A h \in Heights : h \in Nat BY HeightsNat
  <1>3. \A f \in pool' : \E h \in Heights : Count(pool', f.skipped) <= h
    <2> SUFFICES ASSUME NEW f \in pool' PROVE \E h \in Heights : Count(pool', f.skipped) <= h
      OBVIOUS
    <2>1. PICK h \in Heights : Count(pool, f.skipped) <= h
      BY HeightIsCount DEF HeightInv, HeightBound
    <2> QED BY <1>1, <1>2, <2>1
  <1>4. ASSUME missing # None, missing > 0
        PROVE  Count(pool', Head(slices).skips) + missing <= Head(slices).want
    <2>1. Head(slices) \in Piece /\ slices # <<>>
      BY <1>4 DEF HeightInv, TaskFits, Types
    <2>2. missing \in Int /\ Head(slices).want \in Nat
      BY <1>2, <1>4, <2>1 DEF Types, TypeOK, Piece
    <2>3. Count(pool, Head(slices).skips) + missing <= Head(slices).want
      BY <1>4, HeightIsCount DEF HeightInv, TaskFits
    <2> QED BY <1>1, <2>2, <2>3
  <1> QED BY <1>3, <1>4 DEF HeightInv, HeightBound, TaskFits, Height, At, Count, Heights

\* A cursor is created only while the slice has room for it.
LEMMA HeightPut ==
  ASSUME Types, IsFiniteSet(pool), HeightInv, PutCursor
  PROVE  HeightInv'
  <1> PICK e, at, most :
           /\ e.skipped = at /\ pool' \in SUBSET (pool \cup {e})
           /\ at = Head(slices).skips /\ most = Head(slices).want
    BY DEF PutCursor
  <1>1. slices' = slices /\ missing' = missing - 1 BY DEF PutCursor
  <1>2. slices # <<>> /\ Head(slices) \in Piece
    BY DEF PutCursor, HeightInv, TaskFits, Types
  <1>3. /\ missing \in Int /\ missing > 0
        /\ missing' # None
    BY NoneAssumption DEF PutCursor, Types, TypeOK
  <1>4. most \in Heights BY <1>2 DEF Piece
  <1>5. Count(pool, at) + missing <= most
    BY <1>3, HeightIsCount DEF PutCursor, HeightInv, TaskFits
  <1>6. \A h \in Heights : h \in Nat BY HeightsNat
  <1>8. Count(pool', at) + missing' <= most /\ Count(pool', at) <= most
    <2>1. /\ Count(pool', at) \in Nat /\ Count(pool, at) \in Nat
          /\ Count(pool', at) <= Count(pool, at) + 1
      BY CountAdd
    <2>2. most \in Nat BY <1>4, <1>6
    <2> QED BY <1>1, <1>3, <1>5, <2>1, <2>2
  <1>9. \A f \in pool' : \E h \in Heights : Count(pool', f.skipped) <= h
    <2> SUFFICES ASSUME NEW f \in pool' PROVE \E h \in Heights : Count(pool', f.skipped) <= h
      OBVIOUS
    <2>1. CASE f.skipped = at BY <1>4, <1>8, <2>1
    <2>2. CASE f.skipped # at
      <3>1. f \in pool BY <2>2
      <3>2. PICK h \in Heights : Count(pool, f.skipped) <= h
        BY <3>1, HeightIsCount DEF HeightInv, HeightBound
      <3>3. /\ Count(pool', f.skipped) \in Nat /\ Count(pool, f.skipped) \in Nat
            /\ Count(pool', f.skipped) <= Count(pool, f.skipped)
        BY <2>2, CountAdd
      <3>4. h \in Nat BY <1>6
      <3>5. Count(pool', f.skipped) <= h BY <3>2, <3>3, <3>4
      <3> QED BY <3>5
    <2> QED BY <2>1, <2>2
  <1>10. Head(slices').skips = at /\ Head(slices').want = most BY <1>1
  <1> QED BY <1>1, <1>2, <1>3, <1>8, <1>9, <1>10
          DEF HeightInv, HeightBound, TaskFits, Height, At, Count, Heights

\* A task starts, counts a slice or leaves it: the pool is as it was.
LEMMA HeightTask ==
  ASSUME Types, IsFiniteSet(pool), HeightInv, StartTask \/ CountSlice \/ NextSlice, Types'
  PROVE  HeightInv'
  <1>1. pool' = pool BY DEF StartTask, CountSlice, NextSlice
  <1>2. HeightBound' BY <1>1 DEF HeightInv, HeightBound, Height, At, Heights
  <1>3. \A k \in DOMAIN slices' : slices'[k].want \in Heights
    <2>1. slices' \in Seq(Piece) BY DEF Types, Piece, Heights
    <2> QED BY <2>1, PieceHeights
  <1>4. CASE StartTask
    <2>1. missing = None
      BY <1>4 DEF StartTask, HeightInv, TaskFits
    <2> QED BY <1>2, <1>3, <1>4, <2>1 DEF StartTask, HeightInv, TaskFits, Heights
  <1>5. CASE CountSlice
    <2>1. Head(slices) \in Piece BY <1>5 DEF CountSlice, Types
    <2>2. Head(slices).want \in Nat BY <2>1, HeightsNat DEF Piece
    <2>3. Height(Head(slices).skips) \in Nat BY HeightNat
    <2>4. Height(Head(slices).skips)' = Height(Head(slices).skips)
      BY <1>1, <1>5 DEF CountSlice, Height, At
    <2>5. Height(Head(slices).skips)' + missing' <= Head(slices).want
      BY <1>5, <2>2, <2>3, <2>4 DEF CountSlice
    <2> QED BY <1>2, <1>3, <1>5, <2>5 DEF CountSlice, HeightInv, TaskFits, Heights
  <1>6. CASE NextSlice
    BY <1>2, <1>3, <1>6 DEF NextSlice, HeightInv, TaskFits, Heights
  <1> QED BY <1>4, <1>5, <1>6

\* Every step keeps the heights bounded.
LEMMA HeightStep ==
  ASSUME Types, IsFiniteSet(pool), HeightInv, [Next]_vars, Types'
  PROVE  HeightInv'
  <1>1. CASE PutCursor BY <1>1, HeightPut
  <1>2. CASE StartTask \/ CountSlice \/ NextSlice BY <1>2, HeightTask
  <1>3. CASE pool' \subseteq pool /\ slices' = slices /\ missing' = missing
    BY <1>3, HeightQuiet
  <1>4. \A r \in Request : RequestStep(r) =>
            pool' \subseteq pool /\ slices' = slices /\ missing' = missing
    BY DEF RequestStep, NewCursor, Take, TakeNone, Answer
  <1>5. Evict \/ UNCHANGED vars => pool' \subseteq pool /\ slices' = slices /\ missing' = missing
    BY DEF Evict, vars
  <1> QED BY <1>1, <1>2, <1>3, <1>4, <1>5 DEF Next, TaskStep
-----------------------------------------------------------------------------
(* The theorems.                                                            *)

Inductive == Types /\ IsFiniteSet(pool) /\ HeldInv /\ HeightInv

\* The invariant holds in every behaviour.
LEMMA InductiveInvariant == Spec => []Inductive
  <1>1. Init => Inductive
    <2> SUFFICES ASSUME Init PROVE Inductive OBVIOUS
    <2>1. Types BY DEF Init, Idle, Types, TypeOK, Policy
    <2>2. IsFiniteSet(pool) BY FS_EmptySet DEF Init
    <2>3. HeldInv BY DEF Init, Idle, HeldInv, EntriesTrue, HeldIssued, IdsDiffer, HeldOnce
    <2>4. HeightInv BY DEF Init, HeightInv, TaskFits, HeightBound
    <2> QED BY <2>1, <2>2, <2>3, <2>4 DEF Inductive
  <1>2. Inductive /\ [Next]_vars => Inductive'
    <2> SUFFICES ASSUME Inductive, [Next]_vars PROVE Inductive' OBVIOUS
    <2>1. missing # None => slices # <<>> BY DEF Inductive, HeightInv, TaskFits
    <2>2. Types' BY <2>1, TypesStep DEF Inductive
    <2>3. IsFiniteSet(pool)' BY FiniteStep DEF Inductive
    <2>4. HeldInv' BY HeldStep DEF Inductive
    <2>5. HeightInv' BY <2>2, HeightStep DEF Inductive
    <2> QED BY <2>2, <2>3, <2>4, <2>5 DEF Inductive
  <1> QED BY <1>1, <1>2, PTL DEF Spec

\* A cursor of the pool is held by one request only, whatever the interleaving
\* of requests, executor and evictions (DBCursorPool.get).
THEOREM CursorsHeldOnce == Spec => []HeldOnce
  <1>1. Inductive => HeldOnce BY DEF Inductive, HeldInv
  <1> QED BY <1>1, InductiveInvariant, PTL

\* No slice gets more cursors than the configured heights
\* (DBCursorPool.populateCacheLinear, populateCacheRandom).
THEOREM HeightsBounded == Spec => []HeightBound
  <1>1. Inductive => HeightBound BY DEF Inductive, HeightInv
  <1> QED BY <1>1, InductiveInvariant, PTL

\* The pool never exceeds its size: what is put into a full one replaces an entry
\* (the Guava cache of DBCursorPool, maximumSize).
LEMMA PoolBoundStep ==
  ASSUME IsFiniteSet(pool), Types, PoolBound, [Next]_vars
  PROVE  PoolBound'
  <1>1. IsFiniteSet(pool') BY FiniteStep
  <1>2. CASE pool' \subseteq pool
    <2>1. Cardinality(pool') <= Cardinality(pool) BY <1>2, FS_Subset
    <2>2. Cardinality(pool) \in Nat /\ Cardinality(pool') \in Nat BY <1>1, FS_CardinalityType
    <2> QED BY <1>1, <2>1, <2>2, PoolAssumption DEF PoolBound
  <1>3. CASE PutCursor
    <2>1. PICK e : \/ Cardinality(pool) < PoolSize /\ pool' = pool \cup {e}
                   \/ \E old \in pool : pool' = (pool \ {old}) \cup {e}
      BY <1>3 DEF PutCursor
    <2>2. CASE Cardinality(pool) < PoolSize /\ pool' = pool \cup {e}
      <3>1. Cardinality(pool') <= Cardinality(pool) + 1 BY <2>2, FS_AddElement, FS_CardinalityType
      <3>2. Cardinality(pool) \in Nat /\ Cardinality(pool') \in Nat BY <1>1, FS_CardinalityType
      <3> QED BY <1>1, <2>2, <3>1, <3>2, PoolAssumption DEF PoolBound
    <2>3. CASE \E old \in pool : pool' = (pool \ {old}) \cup {e}
      <3>1. PICK old \in pool : pool' = (pool \ {old}) \cup {e} BY <2>3
      <3>2. /\ IsFiniteSet(pool \ {old})
            /\ Cardinality(pool \ {old}) = Cardinality(pool) - 1
        BY FS_RemoveElement
      <3>3. Cardinality(pool') <= Cardinality(pool \ {old}) + 1
        <4> DEFINE rest == pool \ {old}
        <4>1. IsFiniteSet(rest) /\ pool' = (rest \cup {e}) BY <3>1, <3>2
        <4> HIDE DEF rest
        <4>2. Cardinality(rest) \in Nat BY <4>1, FS_CardinalityType
        <4>3. Cardinality(rest \cup {e}) \in {Cardinality(rest), Cardinality(rest) + 1}
          BY <4>1, FS_AddElement
        <4>4. Cardinality(pool') <= Cardinality(rest) + 1 BY <4>1, <4>2, <4>3
        <4> QED BY <4>4 DEF rest
      <3>4. Cardinality(pool) \in Nat /\ Cardinality(pool') \in Nat BY <1>1, FS_CardinalityType
      <3> QED BY <1>1, <3>2, <3>3, <3>4, PoolAssumption DEF PoolBound
    <2> QED BY <2>1, <2>2, <2>3
  <1>4. PutCursor \/ pool' \subseteq pool
    BY DEF Next, RequestStep, TaskStep, NewCursor, Take, TakeNone, Answer, StartTask,
           CountSlice, NextSlice, Evict, vars
  <1> QED BY <1>2, <1>3, <1>4

\* Everything the pool promises holds together, in whatever order requests,
\* executor and evictions come (DBCursorPool).
THEOREM PoolIsSound == Spec => []PoolInv
  <1>1. Init => PoolBound
    BY FS_EmptySet, PoolAssumption DEF Init, PoolBound
  <1>2. Inductive /\ PoolBound /\ [Next]_vars => PoolBound'
    BY PoolBoundStep DEF Inductive
  <1>3. Inductive /\ PoolBound => PoolInv
    BY DEF Inductive, Types, HeldInv, HeightInv, PoolInv
  <1> QED BY <1>1, <1>2, <1>3, InductiveInvariant, PTL DEF Spec
=============================================================================
