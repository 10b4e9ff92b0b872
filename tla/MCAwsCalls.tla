------------------------------ MODULE MCAwsCalls ------------------------------
(***************************************************************************)
(* The instance of AwsCalls for TLC.                                       *)
(***************************************************************************)
EXTENDS AwsCalls
=============================================================================
