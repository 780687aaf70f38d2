--------------------------- MODULE MCDocumentStore ---------------------------
(* Instances of DocumentStore for TLC.                                     *)
EXTENDS DocumentStore, TLC

CONSTANTS r1, r2, r3

Symmetric == Permutations(Request)
=============================================================================
