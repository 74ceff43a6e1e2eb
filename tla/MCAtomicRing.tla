---------------------------- MODULE MCAtomicRing ----------------------------
(* Instances of AtomicRing for TLC *)
EXTENDS AtomicRing, TLC

CONSTANTS p1, p2, c1, c2

\* Threads that play the same part are interchangeable.
ThreadSymmetry == Permutations({p1, p2}) \cup Permutations({c1, c2})
=============================================================================
