------------------------- MODULE DocumentStoreProofs -------------------------
(***************************************************************************)
(* Theorems about DocumentStore, for every value of its constants. The     *)
(* argument is OnePlace: findAndModify moves the stored document into the  *)
(* hands of one request, and save moves it back, so that an etag is never  *)
(* in two places, and one that was replaced for good is nowhere.           *)
(***************************************************************************)
EXTENDS DocumentStore, TLAPS

\* The versions nobody wrote have no etag.
LEMMA VersionTypes ==
  /\ Absent \in Version /\ Foreign \in Version
  /\ Absent.etag = NoTag /\ Foreign.etag = NoTag
  BY DEF Absent, Foreign, Version

\* The document a write stores carries the new etag, or is none.
LEMMA WrittenFresh ==
  ASSUME doc \in Version, issued \in Nat, NEW op \in Op
  PROVE  /\ Written(op, issued + 1) \in Version
         /\ Written(op, issued + 1).etag \in {NoTag, issued + 1}
         /\ Written(op, issued + 1).etag = NoTag => Written(op, issued + 1) = Absent
<1>1. CASE op = "PUT"
  BY <1>1, DocumentStoreAssumption DEF Written, Version
<1>2. CASE op = "PATCH"
  BY <1>2, DocumentStoreAssumption DEF Written, Version
<1>3. CASE op = "DELETE"
  BY <1>3, VersionTypes DEF Written
<1> QED BY <1>1, <1>2, <1>3 DEF Op

\* The invariant holds at first.
LEMMA InitInv == Init => LockInv
<1> SUFFICES ASSUME Init PROVE LockInv
  OBVIOUS
<1>1. doc \in {Absent, Foreign} /\ doc \in Version /\ doc.etag = NoTag
  BY VersionTypes DEF Init
<1>2. TypeOK
  BY <1>1, VersionTypes DEF Init, TypeOK
<1>3. OnePlace /\ VersionsIssued
  BY <1>1 DEF Init, OnePlace, VersionsIssued, Held
<1>4. OneWinner /\ EtagNamesVersion
  BY DEF Init, OneWinner, EtagNamesVersion
<1> QED BY <1>2, <1>3, <1>4 DEF LockInv

-----------------------------------------------------------------------------
(* One lemma per action.                                                   *)

\* What every write adds to the documents ever stored.
LEMMA WriteVersions ==
  ASSUME LockInv, NEW r \in Request, NEW op \in Op, Write(r, op)
  PROVE  /\ doc' \in Version /\ doc' \in versions'
         /\ doc'.etag \in {NoTag, issued + 1}
         /\ issued' = issued + 1
         /\ versions \subseteq versions' /\ versions' \subseteq Version
         /\ \A v \in versions' : v.etag # NoTag => v.etag \in 1..issued'
         /\ EtagNamesVersion'
<1> USE DEF LockInv, TypeOK
<1>1. /\ doc' = Written(op, issued + 1)
      /\ issued' = issued + 1
      /\ versions' = versions \cup {doc'}
  BY DEF Write
<1>2. doc' \in Version /\ doc'.etag \in {NoTag, issued + 1}
  BY <1>1, WrittenFresh
<1>3. \A v \in versions : v.etag # NoTag => v.etag \in 1..issued
  BY DEF VersionsIssued
<1>4. \A v \in versions' : v.etag # NoTag => v.etag \in 1..issued'
  BY <1>1, <1>2, <1>3
<1>5. EtagNamesVersion'
  <2> SUFFICES ASSUME NEW v \in versions', NEW w \in versions',
                      v.etag # NoTag, v.etag = w.etag
               PROVE  v = w
    BY DEF EtagNamesVersion
  <2>1. v.etag \in 1..issued => v # doc'
    BY <1>2, DocumentStoreAssumption
  <2>2. v \in versions <=> w \in versions
    BY <1>1, <1>2, <1>3
  <2> QED BY <1>1, <2>2 DEF EtagNamesVersion
<1> QED BY <1>1, <1>2, <1>4, <1>5

\* A write whose etag is that of the document is accepted.
LEMMA AcceptedInv ==
  ASSUME LockInv, NEW r \in Request, NEW op \in Op, NEW tag \in Tags,
         Accepted(r, op, tag)
  PROVE  LockInv'
<1> USE DEF LockInv, TypeOK
<1>1. Write(r, op)
  BY DEF Accepted
<1>2. /\ doc' \in Version /\ doc' \in versions'
      /\ doc'.etag \in {NoTag, issued + 1}
      /\ issued' = issued + 1
      /\ versions \subseteq versions' /\ versions' \subseteq Version
      /\ \A v \in versions' : v.etag # NoTag => v.etag \in 1..issued'
      /\ EtagNamesVersion'
  BY <1>1, WriteVersions
<1>3. /\ wins' = IF tag \in {NoTag, Garbage} THEN wins
                 ELSE wins \cup {[named |-> tag, over |-> doc, by |-> issued + 1]}
      /\ verdict' = [tag |-> tag, accepted |-> TRUE]
      /\ UNCHANGED <<pc, held, mine, crashes, refused>>
  BY DEF Accepted, reqVars
<1>4. ASSUME tag \notin {NoTag, Garbage}
      PROVE  tag \in 1..issued /\ (doc # Absent => doc.etag = tag)
  BY <1>4 DEF Accepted, Matches, Tags, OnePlace
<1>5. TypeOK'
  <2>1. wins' \subseteq [named : Nat, over : Version, by : Nat]
    BY <1>3, <1>4
  <2>2. verdict' \in [tag : Nat \cup {NoTag, Garbage}, accepted : BOOLEAN]
    BY <1>3 DEF Tags
  <2> QED BY <1>2, <1>3, <2>1, <2>2
<1>6. OnePlace'
  <2>1. /\ doc'.etag # NoTag => doc'.etag \in 1..issued'
        /\ doc'.etag = NoTag => doc' = Absent
    BY <1>1, <1>2, WrittenFresh DEF Write
  <2>2. ASSUME NEW s \in Request, pc'[s] = "restore"
        PROVE  /\ held'[s].etag \in 1..issued'
               /\ held'[s].etag # doc'.etag
               /\ \A t \in Request :
                    pc'[t] = "restore" /\ held'[t].etag = held'[s].etag => t = s
    BY <1>2, <1>3, <2>2, DocumentStoreAssumption DEF OnePlace, Held
  <2>3. ASSUME NEW x \in wins', x.over # Absent
        PROVE  /\ x.named \in 1..issued'
               /\ x.named # doc'.etag
               /\ \A s \in Request : pc'[s] = "restore" => x.named # held'[s].etag
    <3>1. CASE x \in wins
      BY <1>2, <1>3, <2>3, <3>1, DocumentStoreAssumption DEF OnePlace, Held
    <3>2. CASE x \notin wins
      <4>1. x.named = doc.etag /\ doc.etag \in 1..issued
        BY <1>3, <1>4, <2>3, <3>2
      <4> QED BY <1>2, <1>3, <4>1, DocumentStoreAssumption DEF OnePlace, Held
    <3> QED BY <3>1, <3>2
  <2> QED BY <2>1, <2>2, <2>3 DEF OnePlace, Held
<1>7. OneWinner'
  <2> SUFFICES ASSUME NEW x \in wins', NEW y \in wins',
                      x.named = y.named, x.over # Absent, y.over # Absent
               PROVE  x = y
    BY DEF OneWinner
  <2>1. ASSUME NEW z \in wins, z.over # Absent PROVE z.named # doc.etag
    BY <2>1 DEF OnePlace
  <2>2. ASSUME NEW z \in wins', z \notin wins, z.over # Absent
        PROVE  z.named = doc.etag
    BY <1>3, <1>4, <2>2
  <2> QED BY <1>3, <2>1, <2>2 DEF OneWinner
<1>8. VersionsIssued'
  BY <1>2, <1>3 DEF VersionsIssued, Held
<1> QED BY <1>2, <1>5, <1>6, <1>7, <1>8

\* One whose etag is not is written, and holds what it replaced, to put it back.
LEMMA MismatchedInv ==
  ASSUME LockInv, NEW r \in Request, NEW op \in Op, NEW tag \in Tags,
         Mismatched(r, op, tag)
  PROVE  LockInv'
<1> USE DEF LockInv, TypeOK
<1>1. Write(r, op) /\ pc[r] = "idle"
  BY DEF Mismatched, Write
<1>2. /\ doc' \in Version /\ doc' \in versions'
      /\ doc'.etag \in {NoTag, issued + 1}
      /\ issued' = issued + 1
      /\ versions \subseteq versions' /\ versions' \subseteq Version
      /\ \A v \in versions' : v.etag # NoTag => v.etag \in 1..issued'
      /\ EtagNamesVersion'
  BY <1>1, WriteVersions
<1>3. /\ pc' = [pc EXCEPT ![r] = "restore"]
      /\ held' = [held EXCEPT ![r] = doc]
      /\ mine' = [mine EXCEPT ![r] = issued + 1]
      /\ verdict' = [tag |-> tag, accepted |-> FALSE]
      /\ UNCHANGED <<crashes, wins, refused>>
  BY DEF Mismatched
<1>4. doc.etag \in 1..issued
  BY DEF Mismatched, Matches, OnePlace
<1>5. TypeOK'
  <2>1. verdict' \in [tag : Nat \cup {NoTag, Garbage}, accepted : BOOLEAN]
    BY <1>3 DEF Tags
  <2> QED BY <1>2, <1>3, <2>1
<1>6. OnePlace'
  <2>1. /\ doc'.etag # NoTag => doc'.etag \in 1..issued'
        /\ doc'.etag = NoTag => doc' = Absent
    BY <1>1, <1>2, WrittenFresh DEF Write
  <2>2. ASSUME NEW s \in Request, pc'[s] = "restore"
        PROVE  /\ held'[s].etag \in 1..issued
               /\ s = r => held'[s] = doc
               /\ s # r => pc[s] = "restore" /\ held'[s] = held[s]
    BY <1>3, <1>4, <2>2 DEF OnePlace, Held
  <2>3. ASSUME NEW s \in Request, pc'[s] = "restore"
        PROVE  /\ held'[s].etag \in 1..issued'
               /\ held'[s].etag # doc'.etag
               /\ \A t \in Request :
                    pc'[t] = "restore" /\ held'[t].etag = held'[s].etag => t = s
    BY <1>2, <2>2, <2>3, DocumentStoreAssumption DEF OnePlace, Held
  <2>4. ASSUME NEW x \in wins', x.over # Absent
        PROVE  /\ x.named \in 1..issued'
               /\ x.named # doc'.etag
               /\ \A s \in Request : pc'[s] = "restore" => x.named # held'[s].etag
    BY <1>2, <1>3, <2>2, <2>4, DocumentStoreAssumption DEF OnePlace, Held
  <2> QED BY <2>1, <2>3, <2>4 DEF OnePlace, Held
<1>7. OneWinner'
  BY <1>3 DEF OneWinner
<1>8. VersionsIssued'
  BY <1>2, <1>3 DEF VersionsIssued, Held
<1> QED BY <1>2, <1>5, <1>6, <1>7, <1>8

\* The document a refused write replaced is put back.
LEMMA RestoreInv ==
  ASSUME LockInv, NEW r \in Request, Restore(r)
  PROVE  LockInv'
<1> USE DEF LockInv, TypeOK
<1>1. /\ pc[r] = "restore"
      /\ doc' = held[r]
      /\ versions' = versions \cup {held[r]}
      /\ pc' = [pc EXCEPT ![r] = "idle"]
      /\ refused' = refused \cup {mine[r]}
      /\ UNCHANGED <<issued, held, mine, crashes, wins, verdict>>
  BY DEF Restore, RestoreWith
<1>2. held[r] \in versions /\ held[r] \in Version
  BY <1>1 DEF VersionsIssued, Held
<1>3. TypeOK'
  BY <1>1, <1>2
<1>4. OnePlace'
  BY <1>1, DocumentStoreAssumption DEF OnePlace, Held
<1>5. OneWinner' /\ EtagNamesVersion' /\ VersionsIssued'
  BY <1>1, <1>2 DEF OneWinner, EtagNamesVersion, VersionsIssued, Held
<1> QED BY <1>3, <1>4, <1>5

\* A crash forgets the requests.
LEMMA CrashInv ==
  ASSUME LockInv, Crash
  PROVE  LockInv'
<1> USE DEF LockInv, TypeOK
<1>1. /\ \A r \in Request : pc'[r] = "idle"
      /\ pc' \in [Request -> {"idle", "restore"}]
      /\ crashes' \in Nat
      /\ UNCHANGED <<doc, issued, held, mine, wins, refused, versions, verdict>>
  BY DEF Crash
<1> QED BY <1>1 DEF OnePlace, OneWinner, EtagNamesVersion, VersionsIssued, Held

\* Every step keeps the invariant.
LEMMA LockInvStep == LockInv /\ [Next]_vars => LockInv'
<1> SUFFICES ASSUME LockInv, [Next]_vars PROVE LockInv'
  OBVIOUS
<1>1. CASE UNCHANGED vars
  BY <1>1 DEF vars, reqVars, LockInv, TypeOK, OnePlace, OneWinner, VersionsIssued,
              EtagNamesVersion, Held
<1> QED BY <1>1, AcceptedInv, MismatchedInv, RestoreInv, CrashInv DEF Next, RequestStep

-----------------------------------------------------------------------------
\* It holds in every behaviour.
LEMMA LockAlways == Spec => []LockInv
  BY InitInv, LockInvStep, PTL DEF Spec

\* Of the writes that name the same etag at most one is accepted in place of a
\* stored document, however many requests write it at a time and wherever the
\* process crashes.
THEOREM OneWinnerPerEtag == Spec => []OneWinner
<1>1. LockInv => OneWinner
  BY DEF LockInv
<1> QED BY <1>1, LockAlways, PTL

\* An etag names one content of the document for good.
THEOREM EtagsNameVersions == Spec => []EtagNamesVersion
<1>1. LockInv => EtagNamesVersion
  BY DEF LockInv
<1> QED BY <1>1, LockAlways, PTL

-----------------------------------------------------------------------------
(* Writes that do not overlap implement DocumentLock.                      *)

OneAtATime == \A r, s \in Request : Held(r) /\ Held(s) => r = s

SerialLockInv == LockInv /\ OneAtATime

\* What the document will be once the one write under way has ended.
LEMMA SettledIs ==
  ASSUME OneAtATime
  PROVE  /\ \A r \in Request : Held(r) => Settled = held[r]
         /\ (\A r \in Request : ~Held(r)) => Settled = doc
<1>1. ASSUME NEW r \in Request, Held(r) PROVE Settled = held[r]
  <2>1. (CHOOSE s \in Request : pc[s] = "restore") = r
    BY <1>1 DEF OneAtATime, Held
  <2> QED BY <1>1, <2>1 DEF Settled, Held
<1>2. ASSUME \A r \in Request : ~Held(r) PROVE Settled = doc
  BY <1>2 DEF Settled, Held
<1> QED BY <1>1, <1>2

\* A step of the only write is one of DocumentLock, or none.
LEMMA SerialStep ==
  ASSUME SerialLockInv, NEW r \in Request, RequestStep(r),
         \A s \in Request \ {r} : pc[s] = "idle"
  PROVE  OneAtATime' /\ [Lock!Next]_(Lock!vars)
<1> USE DEF SerialLockInv, LockInv, TypeOK
<1>1. CASE \E op \in Op, tag \in Tags : Accepted(r, op, tag)
  <2>1. PICK op \in Op, tag \in Tags : Accepted(r, op, tag)
    BY <1>1
  <2>2. /\ Write(r, op) /\ pc[r] = "idle" /\ pc' = pc
        /\ doc.etag \in {NoTag, tag}
        /\ verdict' = [tag |-> tag, accepted |-> TRUE]
        /\ issued' = issued + 1
        /\ doc' = Written(op, issued + 1)
        /\ op # "PUT" => doc # Absent
    BY <2>1 DEF Accepted, Write, Matches, reqVars
  <2>3. \A s \in Request : ~Held(s) /\ ~Held(s)'
    BY <2>2 DEF Held
  <2>4. OneAtATime'
    BY <2>3 DEF OneAtATime
  <2>5. Settled = doc /\ Settled' = doc'
    BY <2>3, <2>4, SettledIs DEF Settled, Held
  <2>6. Lock!Put(tag) \/ Lock!Patch(tag) \/ Lock!Delete(tag)
    BY <2>2, <2>5 DEF Lock!Put, Lock!Patch, Lock!Delete, Lock!Granted, Lock!Absent,
                      Absent, Written, Op
  <2> QED BY <2>4, <2>6 DEF Lock!Next, Tags
<1>2. CASE \E op \in Op, tag \in Tags : Mismatched(r, op, tag)
  <2>1. PICK op \in Op, tag \in Tags : Mismatched(r, op, tag)
    BY <1>2
  <2>2. /\ pc[r] = "idle"
        /\ pc' = [pc EXCEPT ![r] = "restore"]
        /\ held' = [held EXCEPT ![r] = doc]
        /\ doc.etag \notin {NoTag, tag}
        /\ verdict' = [tag |-> tag, accepted |-> FALSE]
        /\ issued' = issued + 1
    BY <2>1 DEF Mismatched, Write, Matches
  <2>3. (\A s \in Request : ~Held(s)) /\ (\A s \in Request : Held(s)' <=> s = r)
    BY <2>2 DEF Held
  <2>4. OneAtATime'
    BY <2>3 DEF OneAtATime
  <2>5. Settled = doc
    BY <2>3, SettledIs DEF OneAtATime
  <2>6. Settled' = doc
    <3>1. (CHOOSE s \in Request : pc'[s] = "restore") = r
      BY <2>3 DEF Held
    <3> QED BY <2>2, <3>1 DEF Settled
  <2>7. Lock!Refuse(tag)
    BY <2>2, <2>5, <2>6 DEF Lock!Refuse
  <2> QED BY <2>4, <2>7 DEF Lock!Next, Tags
<1>3. CASE Restore(r)
  <2>1. /\ pc[r] = "restore" /\ pc' = [pc EXCEPT ![r] = "idle"]
        /\ doc' = held[r]
        /\ UNCHANGED <<issued, held, verdict>>
    BY <1>3 DEF Restore, RestoreWith
  <2>2. Held(r) /\ \A s \in Request : ~Held(s)'
    BY <2>1 DEF Held
  <2>3. OneAtATime'
    BY <2>2 DEF OneAtATime
  <2>4. Settled = held[r] /\ Settled' = doc'
    BY <2>2, SettledIs DEF Settled, Held
  <2> QED BY <2>1, <2>3, <2>4 DEF Lock!vars
<1> QED BY <1>1, <1>2, <1>3 DEF RequestStep

\* As long as writes do not overlap, a document is an optimistic lock: every
\* step is a step of DocumentLock or leaves it unchanged.
THEOREM SerialImplementsLock == SerialSpec => ImplementsLock
<1>1. Init => SerialLockInv /\ Lock!Init
  <2> SUFFICES ASSUME Init PROVE SerialLockInv /\ Lock!Init
    OBVIOUS
  <2>1. \A r \in Request : ~Held(r)
    BY DEF Init, Held
  <2>2. OneAtATime
    BY <2>1 DEF OneAtATime
  <2>3. Settled = doc
    BY <2>1, <2>2, SettledIs
  <2>4. Lock!Init
    BY <2>3 DEF Init, Lock!Init, Lock!Absent, Absent, Foreign
  <2> QED BY <2>2, <2>4, InitInv DEF SerialLockInv
<1>2. SerialLockInv /\ [SerialNext]_vars => SerialLockInv' /\ [Lock!Next]_(Lock!vars)
  <2> SUFFICES ASSUME SerialLockInv, [SerialNext]_vars
               PROVE  SerialLockInv' /\ [Lock!Next]_(Lock!vars)
    OBVIOUS
  <2>1. LockInv'
    BY LockInvStep DEF SerialLockInv, SerialNext, Next
  <2>2. CASE UNCHANGED vars
    <3>1. OneAtATime' /\ Settled' = Settled
      BY <2>2 DEF vars, reqVars, OneAtATime, Held, SerialLockInv, Settled
    <3> QED BY <2>1, <2>2, <3>1 DEF SerialLockInv, vars, Lock!vars
  <2>3. CASE SerialNext
    BY <2>1, <2>3, SerialStep DEF SerialNext, SerialLockInv
  <2> QED BY <2>2, <2>3
<1> QED BY <1>1, <1>2, PTL DEF SerialSpec, ImplementsLock, Lock!Spec
=============================================================================
