---------------------------- MODULE MCAtomicFull ----------------------------
(* Instances of AtomicFull for TLC *)
EXTENDS AtomicFull, TLC

CONSTANTS p1, p2, c1, c2
=============================================================================
