---------------------------- MODULE MCSelfUpdate ----------------------------
(***************************************************************************)
(* Instances of SelfUpdate for TLC: the configuration gives the bounds,    *)
(* and NoFile is a model value.                                            *)
(***************************************************************************)
EXTENDS SelfUpdate
=============================================================================
