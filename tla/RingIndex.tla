----------------------------- MODULE RingIndex -----------------------------
(***************************************************************************)
(* Index arithmetic of the ring buffer core (src/core.rs).             *)
(*                                                                         *)
(* Read and write indices are usize counters that are only ever advanced   *)
(* with wrapping_add and compared with wrapping_sub; a slot is found with  *)
(* `index & mask`, mask = capacity - 1.  Modulus stands for 2^64, the      *)
(* number of values of a usize, and is small in the model checker's runs   *)
(* so that the indices really wrap.  The capacity is a power of two no     *)
(* greater than 2^63; all that is used of it is that it divides Modulus    *)
(* and that two laps of the buffer fit in one lap of the counter.          *)
(***************************************************************************)
EXTENDS Integers

CONSTANTS Capacity,   \* number of slots of the buffer
          Modulus     \* number of values of an index

ASSUME RingIndexAssumption ==
    /\ Capacity \in Nat \ {0}
    /\ Modulus \in Nat
    /\ Modulus >= 2 * Capacity
    /\ Modulus % Capacity = 0

Index == 0 .. Modulus - 1
Slot  == 0 .. Capacity - 1

AddNoWrap(i, n) == i + n   \* mutation: an index that never wraps

\* i.wrapping_add(n), for an index i and a count n of at most Modulus
WrapAdd(i, n) == IF i + n < Modulus THEN i + n ELSE i + n - Modulus

\* i.wrapping_sub(j), for indices i and j
WrapSub(i, j) == IF j <= i THEN i - j ELSE i - j + Modulus

\* i & mask
SlotOf(i) == i % Capacity

(***************************************************************************)
(* The slot that copy_from_slice / copy_to_slice touches for element k     *)
(* (from 0) of a batch that starts at index `start`: a batch that does not *)
(* fit before the end of the array is copied in two parts, the second one  *)
(* from slot 0.                                                            *)
(***************************************************************************)
CopySlotNoRestart(start, k) ==   \* mutation: part two is not moved to slot 0
    LET first == Capacity - SlotOf(start)
    IN  IF k < first THEN SlotOf(start) + k ELSE k

CopySlot(start, k) ==
    LET first == Capacity - SlotOf(start)   \* slots left before the end
    IN  IF k < first THEN SlotOf(start) + k ELSE k - first
=============================================================================
