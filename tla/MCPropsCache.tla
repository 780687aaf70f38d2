---------------------------- MODULE MCPropsCache ----------------------------
(* Instance of PropsCache for TLC.                                         *)
EXTENDS PropsCache
=============================================================================
