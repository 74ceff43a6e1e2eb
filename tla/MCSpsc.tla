------------------------------- MODULE MCSpsc -------------------------------
(***************************************************************************)
(* Instances of Spsc for TLC.  The state space is finite without a         *)
(* constraint: indices wrap at Modulus and both threads call for ever.     *)
(***************************************************************************)
EXTENDS Spsc, TLC
=============================================================================
