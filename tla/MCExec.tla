------------------------------- MODULE MCExec -------------------------------
(***************************************************************************)
(* Instances of Exec for TLC.                                              *)
(***************************************************************************)
EXTENDS Exec

CONSTANTS sh, d1
=============================================================================
