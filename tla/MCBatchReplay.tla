---------------------------- MODULE MCBatchReplay ----------------------------
(* Instances of BatchReplay for TLC.                                       *)
EXTENDS BatchReplay, TLC

CONSTANTS b1, b2, b3, b4, a1, a2, w1, w2, c1

Symmetric == Permutations(BatchId) \cup Permutations(Audit) \cup Permutations(Worker)
=============================================================================
