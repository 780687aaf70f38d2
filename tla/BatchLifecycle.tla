--------------------------- MODULE BatchLifecycle ---------------------------
(***************************************************************************)
(* What the batch replay promises of one batch, seen from outside: it is   *)
(* stored, claimed by the job once for every time it was armed, settled,   *)
(* armed again only after it failed, and final once it was done.           *)
(* BatchReplay implements this as long as executions do not overlap.       *)
(***************************************************************************)
EXTENDS Naturals

CONSTANT BatchId

VARIABLES life, arms, runs

vars == <<life, arms, runs>>

Move(i, from, to) ==
  /\ life[i] \in from
  /\ life' = [life EXCEPT ![i] = to]

\* A user stores a batch: it is to be replayed once.
Store(i) ==
  /\ Move(i, {"none"}, "armed")
  /\ arms' = [arms EXCEPT ![i] = @ + 1]
  /\ UNCHANGED runs

\* The job stores the failed audits of a batch it claimed as a failed batch.
Spawn(i, parent) ==
  /\ life[parent] \in {"claimed", "removed"}
  /\ Move(i, {"none"}, "failed")
  /\ UNCHANGED <<arms, runs>>

Claim(i) ==
  /\ Move(i, {"armed"}, "claimed")
  /\ runs' = [runs EXCEPT ![i] = @ + 1]
  /\ UNCHANGED arms

Settle(i) ==
  /\ \E to \in {"done", "failed"} : Move(i, {"claimed"}, to)
  /\ UNCHANGED <<arms, runs>>

Rearm(i) ==
  /\ Move(i, {"failed"}, "armed")
  /\ arms' = [arms EXCEPT ![i] = @ + 1]
  /\ UNCHANGED runs

Remove(i) ==
  /\ Move(i, {"armed", "claimed", "done", "failed"}, "removed")
  /\ UNCHANGED <<arms, runs>>

\* A batch removed after the job listed it is replayed all the same.
RunRemoved(i) ==
  /\ life[i] = "removed"
  /\ runs[i] < arms[i]
  /\ runs' = [runs EXCEPT ![i] = @ + 1]
  /\ UNCHANGED <<life, arms>>

Init ==
  /\ life = [i \in BatchId |-> "none"]
  /\ arms = [i \in BatchId |-> 0]
  /\ runs = [i \in BatchId |-> 0]

Next == \E i \in BatchId :
  \/ Store(i) \/ Claim(i) \/ Settle(i) \/ Rearm(i) \/ Remove(i) \/ RunRemoved(i)
  \/ \E parent \in BatchId : Spawn(i, parent)

Spec == Init /\ [][Next]_vars
=============================================================================
