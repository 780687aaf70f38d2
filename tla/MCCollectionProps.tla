-------------------------- MODULE MCCollectionProps --------------------------
(* Instances of CollectionProps for TLC.                                   *)
EXTENDS CollectionProps, TLC

CONSTANTS r1, r2, r3

\* How the requests of a behaviour meet, chosen when it starts.
VARIABLE regime

Symmetric == Permutations(Request)

RegimeInit == Init /\ regime \in {"one writer", "serial"}

RegimeNext ==
  /\ UNCHANGED regime
  /\ \/ regime = "one writer" /\ Next /\ OneWriter'
     \/ regime = "serial" /\ SerialNext

RegimeSpec == RegimeInit /\ [][RegimeNext]_<<vars, regime>>

FreeSpec == Init /\ regime = "any" /\ [][Next /\ UNCHANGED regime]_<<vars, regime>>

\* As long as requests do not overlap, the cached existence check, the etag
\* query and the writes of a request implement the optimistic lock of
\* CollectionLock: ImplementsLock, for the behaviours of the serial regime.
SerialImplementsLock ==
  /\ regime = "serial" => Lock!Init
  /\ [][regime = "serial" => Lock!Next \/ UNCHANGED Lock!vars]_<<vars, regime>>
=============================================================================
