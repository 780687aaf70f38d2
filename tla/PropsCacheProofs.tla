-------------------------- MODULE PropsCacheProofs --------------------------
(***************************************************************************)
(* Proofs about PropsCache: for every time to live and every load time,    *)
(* how stale the properties a request is given can be.                     *)
(***************************************************************************)
EXTENDS PropsCache, TLAPS

\* The invariant holds at first.
LEMMA CacheInit == Init => CacheInv
BY PropsCacheAssumption
   DEF Init, CacheInv, TypeOK, Recent, Ordered, StaleBound, InvalidatedForGood,
       StoredWithin, Version

\* The parts of the types that the steps below compute with.
LEMMA Types ==
  ASSUME TypeOK
  PROVE  /\ now \in Nat /\ stored \in Nat /\ answered \in Nat /\ floor \in Nat
         /\ stored \in Version /\ floor \in Version
         /\ TTL \in Int /\ MaxLoad \in Nat /\ MaxVersion \in Nat
         /\ entry # None => entry.version \in Version /\ entry.at \in Nat
         /\ load # None => load.started \in Nat
         /\ load # None /\ load.version # None => load.version \in Version
         /\ \A v \in Version : v \in Nat /\ (ended[v] # Never => ended[v] \in Nat)
         /\ None \notin Nat /\ Never \notin Nat
BY PropsCacheAssumption DEF TypeOK, Version

\* What is found in an entry that is alive was stored within the bound.
LEMMA AliveIsRecent ==
  ASSUME CacheInv, Alive, TTL > 0
  PROVE  StoredWithin(entry.version, now, TTL + MaxLoad)
BY Types DEF CacheInv, Recent, Alive, StoredWithin

\* What a load has read was stored within the bound.
LEMMA LoadIsRecent ==
  ASSUME CacheInv, load # None, load.version # None, TTL > 0
  PROVE  StoredWithin(load.version, now, TTL + MaxLoad)
BY Types DEF CacheInv, Recent, StoredWithin

\* A version that is replaced later on stays within the bound of earlier times.
LEMMA GivenKept ==
  ASSUME CacheInv, given' = given, UNCHANGED ended
  PROVE  StaleBound'
BY DEF CacheInv, StaleBound, StoredWithin

\* A hit gives what is recent enough.
LEMMA HitKeeps == CacheInv /\ Hit => CacheInv'
<1> SUFFICES ASSUME CacheInv, Hit PROVE CacheInv'
  OBVIOUS
<1>1. TypeOK'
  BY Types DEF CacheInv, Hit, Alive, Give, TypeOK
<1>2. Recent' /\ Ordered' /\ InvalidatedForGood'
  BY Types DEF CacheInv, Hit, Give, Recent, Ordered, InvalidatedForGood
<1>3. StaleBound'
  BY AliveIsRecent DEF Hit, Give, StaleBound, StoredWithin
<1>4. QED
  BY <1>1, <1>2, <1>3 DEF CacheInv

\* A miss starts a load.
LEMMA MissKeeps == CacheInv /\ Miss => CacheInv'
<1> SUFFICES ASSUME CacheInv, Miss PROVE CacheInv'
  OBVIOUS
<1>1. TypeOK'
  BY DEF CacheInv, Miss, TypeOK
<1>2. Recent' /\ Ordered' /\ InvalidatedForGood'
  BY Types DEF CacheInv, Miss, Recent, Ordered, InvalidatedForGood
<1>3. StaleBound'
  BY GivenKept DEF Miss
<1>4. QED
  BY <1>1, <1>2, <1>3 DEF CacheInv

\* A load reads what is stored now.
LEMMA ReadKeeps == CacheInv /\ Read => CacheInv'
<1> SUFFICES ASSUME CacheInv, Read PROVE CacheInv'
  OBVIOUS
<1>1. load' = [version |-> stored, started |-> load.started]
  BY DEF CacheInv, TypeOK, Read
<1>2. TypeOK'
  BY <1>1, Types DEF CacheInv, Read, TypeOK
<1>3. ended[stored] = Never
  BY Types DEF CacheInv, Ordered
<1>4. Recent' /\ Ordered' /\ InvalidatedForGood'
  BY <1>1, <1>3, Types DEF CacheInv, Read, Recent, Ordered, InvalidatedForGood
<1>5. StaleBound'
  BY GivenKept DEF Read
<1>6. QED
  BY <1>2, <1>4, <1>5 DEF CacheInv

\* A load that ends within its time caches what is recent enough.
LEMMA FinishKeeps == CacheInv /\ Finish => CacheInv'
<1> SUFFICES ASSUME CacheInv, Finish PROVE CacheInv'
  OBVIOUS
<1>1. TypeOK'
  BY Types DEF CacheInv, Finish, Give, TypeOK
<1>2. entry' = [version |-> load.version, at |-> now] /\ load' = None
  BY DEF Finish
<1>3. Recent' /\ Ordered' /\ InvalidatedForGood'
  BY <1>2, Types DEF CacheInv, Finish, Give, Recent, Ordered, InvalidatedForGood
<1>4. StaleBound'
  BY LoadIsRecent DEF Finish, Give, StaleBound, StoredWithin
<1>5. QED
  BY <1>1, <1>3, <1>4 DEF CacheInv

\* A change stores a later version.
LEMMA ChangeKeeps == CacheInv /\ Change => CacheInv'
<1> SUFFICES ASSUME CacheInv, Change PROVE CacheInv'
  OBVIOUS
<1>1. stored + 1 \in Version /\ stored \in Version /\ ended[stored] = Never
  BY Types DEF CacheInv, Change, Ordered, Version
<1>2. /\ ended'[stored] = now
      /\ \A v \in Version \ {stored} : ended'[v] = ended[v]
  BY <1>1 DEF CacheInv, Change, TypeOK
<1>3. TypeOK'
  BY <1>1, Types DEF CacheInv, Change, TypeOK
<1>4. Recent'
  BY <1>1, <1>2, Types DEF CacheInv, Change, Recent, Ordered
<1>5. Ordered'
  BY <1>1, <1>2, Types DEF CacheInv, Change, Ordered
<1>6. InvalidatedForGood'
  BY DEF CacheInv, Change, InvalidatedForGood
<1>7. StaleBound'
  <2>1. SUFFICES ASSUME TTL > 0, given # None, ended'[given.version] # Never
                 PROVE  given.at < ended'[given.version] + (TTL + MaxLoad)
    BY DEF Change, StaleBound, StoredWithin
  <2>2. given.version \in Version /\ given.at \in Nat /\ given.at <= now
    BY <2>1 DEF CacheInv, TypeOK, Ordered
  <2>3. CASE given.version = stored
    BY <1>2, <2>1, <2>2, <2>3, Types DEF CacheInv
  <2>4. CASE given.version # stored
    BY <1>2, <2>1, <2>2, <2>4 DEF CacheInv, StaleBound, StoredWithin
  <2>5. QED
    BY <2>3, <2>4
<1>8. QED
  BY <1>3, <1>4, <1>5, <1>6, <1>7 DEF CacheInv

\* An invalidation leaves nothing older cached.
LEMMA InvalidateKeeps == CacheInv /\ Invalidate => CacheInv'
<1> SUFFICES ASSUME CacheInv, Invalidate PROVE CacheInv'
  OBVIOUS
<1>1. TypeOK'
  BY Types DEF CacheInv, Invalidate, TypeOK
<1>2. Recent' /\ Ordered' /\ InvalidatedForGood'
  BY Types DEF CacheInv, Invalidate, Recent, Ordered, InvalidatedForGood
<1>3. StaleBound'
  BY GivenKept DEF Invalidate
<1>4. QED
  BY <1>1, <1>2, <1>3 DEF CacheInv

\* Time passes only as far as an entry or a load may last.
LEMMA TickKeeps == CacheInv /\ Tick => CacheInv'
<1> SUFFICES ASSUME CacheInv, Tick PROVE CacheInv'
  OBVIOUS
<1>1. TypeOK'
  BY Types DEF CacheInv, Tick, TypeOK
<1>2. Recent' /\ Ordered' /\ InvalidatedForGood'
  <2>1. given # None => given.at \in Nat
    BY DEF CacheInv, TypeOK
  <2>2. Recent'
    BY Types DEF CacheInv, Tick, Recent
  <2>3. Ordered'
    BY <2>1, Types DEF CacheInv, Tick, Ordered
  <2>4. InvalidatedForGood'
    BY DEF CacheInv, Tick, InvalidatedForGood
  <2>5. QED
    BY <2>2, <2>3, <2>4
<1>3. StaleBound'
  BY GivenKept DEF Tick
<1>4. QED
  BY <1>1, <1>2, <1>3 DEF CacheInv

\* The invariant holds in every behaviour.
LEMMA CacheInvariant == Spec => []CacheInv
<1>1. CacheInv /\ [Next]_vars => CacheInv'
  <2> SUFFICES ASSUME CacheInv, [Next]_vars PROVE CacheInv'
    OBVIOUS
  <2>1. CASE Next
    BY <2>1, HitKeeps, MissKeeps, ReadKeeps, FinishKeeps, ChangeKeeps, InvalidateKeeps,
       TickKeeps DEF Next
  <2>2. CASE UNCHANGED vars
    BY <2>2 DEF vars, CacheInv, TypeOK, Recent, Ordered, StaleBound, InvalidatedForGood,
                StoredWithin
  <2>3. QED
    BY <2>1, <2>2
<1>2. QED
  BY CacheInit, <1>1, PTL DEF Spec

\* Whatever the time to live and the time of a load, a request is given
\* properties that were stored within the two.
THEOREM StalenessIsBounded == Spec => []StaleBound
<1>1. CacheInv => StaleBound
  BY DEF CacheInv
<1>2. QED
  BY CacheInvariant, <1>1, PTL

\* An invalidation that meets no load is final.
THEOREM InvalidationIsFinal == Spec => []InvalidatedForGood
<1>1. CacheInv => InvalidatedForGood
  BY DEF CacheInv
<1>2. QED
  BY CacheInvariant, <1>1, PTL
=============================================================================
