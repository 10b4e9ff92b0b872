-------------------------- MODULE MCSessionControl --------------------------
(***************************************************************************)
(* Instances of SessionControl for TLC.                                    *)
(***************************************************************************)
EXTENDS SessionControl

CONSTANTS s1, s2, t1, t2, t3
=============================================================================
