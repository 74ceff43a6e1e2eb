---------------------------- MODULE MCGenericRing ----------------------------
(* Instances of GenericRing for TLC; finite without a constraint. *)
EXTENDS GenericRing, TLC
=============================================================================
