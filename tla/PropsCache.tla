----------------------------- MODULE PropsCache -----------------------------
(***************************************************************************)
(* One entry of LocalCachesSingleton over time: the properties of one      *)
(* collection or database as one node caches them, while requests to this  *)
(* node and to others change the stored ones.                              *)
(*                                                                         *)
(* The cache is a Guava loading cache that expires entries after their     *)
(* write. One request loads at a time and the others wait for it. An       *)
(* invalidation removes an entry but not a load that is under way, which   *)
(* may have read the properties before they were changed.                  *)
(***************************************************************************)
EXTENDS Integers

CONSTANTS
  TTL,         \* time to live of an entry; one that is not positive never ends
  MaxLoad,     \* the time a load may take
  None,        \* no entry, no load, not read yet
  Never,       \* the time at which stored properties are replaced
  MaxVersion,  \* bound: changes of the stored properties
  Horizon      \* bound: time

ASSUME PropsCacheAssumption ==
  /\ TTL \in Int /\ MaxLoad \in Nat
  /\ MaxVersion \in Nat /\ Horizon \in Nat
  /\ None \notin Nat /\ Never \notin Nat
  /\ None \notin [version : Nat, at : Nat]
  /\ None \notin [version : Nat \cup {None}, started : Nat]

VARIABLES
  now,       \* the time
  stored,    \* the version of the stored properties
  entry,     \* the cache entry: a version, and when it was written
  load,      \* the load under way: the version it read, and when it started
  answered,  \* requests to this node that changed the properties, were answered
             \* and have not invalidated the entry yet
  ended,     \* history: when each version was replaced
  given,     \* history: the version last given to a request, and when
  floor      \* history: the version at the last invalidation without a load

vars == <<now, stored, entry, load, answered, ended, given, floor>>

Version == 0..MaxVersion

\* expireAfterWrite, for a positive TTL.
Alive == entry # None /\ (TTL > 0 => now < entry.at + TTL)

Give(version) == given' = [version |-> version, at |-> now]

-----------------------------------------------------------------------------
\* Mutation: EXPIRE_POLICY.AFTER_READ, a read renews the entry.
HitRenewing ==
  /\ Alive
  /\ Give(entry.version)
  /\ entry' = [entry EXCEPT !.at = now]
  /\ UNCHANGED <<now, stored, load, answered, ended, floor>>

\* A request finds the entry.
Hit ==
  /\ Alive
  /\ Give(entry.version)
  /\ UNCHANGED <<now, stored, entry, load, answered, ended, floor>>

\* A request does not, and loads it.
Miss ==
  /\ ~Alive
  /\ load = None
  /\ load' = [version |-> None, started |-> now]
  /\ entry' = None
  /\ UNCHANGED <<now, stored, answered, ended, given, floor>>

Read ==
  /\ load # None
  /\ load.version = None
  /\ load' = [load EXCEPT !.version = stored]
  /\ UNCHANGED <<now, stored, entry, answered, ended, given, floor>>

\* What was read is cached and given to the requests that wait for it.
Finish ==
  /\ load # None
  /\ load.version # None
  /\ entry' = [version |-> load.version, at |-> now]
  /\ Give(load.version)
  /\ load' = None
  /\ UNCHANGED <<now, stored, answered, ended, floor>>

\* The properties change, by a request to this node or to another one.
Change ==
  /\ stored < MaxVersion
  /\ stored' = stored + 1
  /\ ended' = [ended EXCEPT ![stored] = now]
  /\ answered' \in {answered, answered + 1}
  /\ UNCHANGED <<now, entry, load, given, floor>>

\* Mutation: the wrong key is invalidated.
InvalidateOther ==
  /\ answered > 0
  /\ answered' = answered - 1
  /\ floor' = IF load = None THEN stored ELSE floor
  /\ UNCHANGED <<now, stored, entry, load, ended, given>>

Invalidate ==
  /\ answered > 0
  /\ answered' = answered - 1
  /\ entry' = None
  /\ floor' = IF load = None THEN stored ELSE floor
  /\ UNCHANGED <<now, stored, load, ended, given>>

Tick ==
  /\ now < Horizon
  /\ load # None => now < load.started + MaxLoad
  /\ now' = now + 1
  /\ UNCHANGED <<stored, entry, load, answered, ended, given, floor>>

Init ==
  /\ now = 0
  /\ stored = 0
  /\ entry = None
  /\ load = None
  /\ answered = 0
  /\ ended = [v \in Version |-> Never]
  /\ given = None
  /\ floor = 0

Next == Hit \/ Miss \/ Read \/ Finish \/ Change \/ Invalidate \/ Tick

Spec == Init /\ [][Next]_vars

-----------------------------------------------------------------------------
(* Properties.                                                             *)

TypeOK ==
  /\ now \in Nat
  /\ stored \in Version
  /\ entry \in [version : Version, at : Nat] \cup {None}
  /\ load \in [version : Version \cup {None}, started : Nat] \cup {None}
  /\ answered \in Nat
  /\ ended \in [Version -> Nat \cup {Never}]
  /\ given \in [version : Version, at : Nat] \cup {None}
  /\ floor \in Version

\* Version v was still stored less than d before time t, or is.
StoredWithin(v, t, d) == ended[v] # Never => t < ended[v] + d

\* A request is given properties that were stored within the time to live and
\* the time of a load (restheart.yml:185-187: a change "would reflect on other
\* nodes at worst after the TTL"), whatever node changed them and however loads
\* and invalidations interleave: a read never renews an entry.
StaleBound ==
  TTL > 0 /\ given # None => StoredWithin(given.version, given.at, TTL + MaxLoad)

\* Properties that were cached before an invalidation are not given again after
\* it, unless a load was under way (PutCollectionHandler.java:128-129).
InvalidatedForGood == entry # None => entry.version >= floor

\* The load and the entry are as recent as their times say.
Recent ==
  /\ load # None =>
       /\ now <= load.started + MaxLoad
       /\ load.version # None /\ ended[load.version] # Never =>
            load.started <= ended[load.version]
  /\ entry # None /\ ended[entry.version] # Never =>
       entry.at <= ended[entry.version] + MaxLoad

\* Versions replace one another in time; what is invalidated was stored.
Ordered ==
  /\ \A v \in Version : v >= stored <=> ended[v] = Never
  /\ \A v \in Version : ended[v] # Never => ended[v] <= now
  /\ floor <= stored
  /\ load # None /\ load.version # None => floor <= load.version /\ load.version <= stored
  /\ load # None => load.started <= now
  /\ entry # None => entry.at <= now /\ entry.version <= stored
  /\ given # None => given.at <= now

CacheInv == TypeOK /\ Recent /\ Ordered /\ StaleBound /\ InvalidatedForGood
=============================================================================
