--------------------------- MODULE MCDataChannel ----------------------------
(***************************************************************************)
(* Instances of DataChannel for TLC: every constant is a number, which the *)
(* configuration gives.                                                    *)
(***************************************************************************)
EXTENDS DataChannel
=============================================================================
