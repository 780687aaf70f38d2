---------------------------- MODULE MCCursorPool ----------------------------
(* Instances of CursorPool for TLC.                                        *)
EXTENDS CursorPool, TLC

CONSTANTS r1, r2, r3

\* eager-cursor-allocation-linear-slice-heights: [4, 2, 1], made smaller.
TwoOne == <<2, 1>>
Symmetric == Permutations(Request)
=============================================================================
