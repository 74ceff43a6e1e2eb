-------------------------- MODULE RingIndexProofs --------------------------
(***************************************************************************)
(* Facts about the index arithmetic, for every Capacity and Modulus.       *)
(***************************************************************************)
EXTENDS RingIndex, TLAPS

\* wrapping_add of an index and a count is an index.
LEMMA AddType ==
    ASSUME NEW i \in Index, NEW n \in 0 .. Modulus
    PROVE  WrapAdd(i, n) \in Index
BY RingIndexAssumption DEF WrapAdd, Index

\* wrapping_sub of two indices is an index, and zero only if they are equal.
LEMMA SubType ==
    ASSUME NEW i \in Index, NEW j \in Index
    PROVE  /\ WrapSub(i, j) \in Index
           /\ WrapSub(i, j) \in Nat /\ WrapSub(i, j) < Modulus
           /\ WrapSub(i, j) = 0 <=> i = j
BY RingIndexAssumption DEF WrapSub, Index

\* Advancing the front index by n adds n to its distance from the back index, as
\* long as the distance stays below Modulus (write_idx in push and push_slice).
LEMMA AdvanceFront ==
    ASSUME NEW i \in Index, NEW j \in Index, NEW n \in Nat,
           WrapSub(i, j) + n < Modulus
    PROVE  WrapSub(WrapAdd(i, n), j) = WrapSub(i, j) + n
BY RingIndexAssumption DEF WrapAdd, WrapSub, Index

\* Advancing the back index by at most the distance takes n off the distance
\* (read_idx in pop and pop_slice).
LEMMA AdvanceBack ==
    ASSUME NEW i \in Index, NEW j \in Index, NEW n \in Nat,
           n <= WrapSub(i, j)
    PROVE  WrapSub(i, WrapAdd(j, n)) = WrapSub(i, j) - n
BY RingIndexAssumption DEF WrapAdd, WrapSub, Index

-----------------------------------------------------------------------------
(* Slots *)

\* What a remainder is: the only number below the divisor that leaves a multiple.
LEMMA RemainderUnique ==
    ASSUME NEW a \in Int, NEW b \in Nat \ {0}, NEW q \in Int, NEW r \in 0 .. b - 1,
           a = b * q + r
    PROVE  a % b = r
OBVIOUS

\* And that there is one, with the quotient it belongs to.
LEMMA RemainderExists ==
    ASSUME NEW a \in Int, NEW b \in Nat \ {0}
    PROVE  /\ a % b \in 0 .. b - 1
           /\ a \div b \in Int
           /\ a = (b * (a \div b)) + (a % b)
OBVIOUS

\* Distributivity, where the product is not linear for the provers.
LEMMA Multiples ==
    ASSUME NEW b \in Int, NEW q \in Int, NEW m \in Int
    PROVE  /\ b * (q + 1) = (b * q) + b
           /\ b * (q - m) = (b * q) - (b * m)
           /\ b * q \in Int
OBVIOUS

\* The wrap of an index keeps its slot, since Capacity divides Modulus: for a sum of
\* two indices, advancing index i by n < Capacity advances its slot by n, modulo
\* Capacity.
LEMMA SlotOfAdvance ==
    ASSUME NEW i \in Index, NEW n \in 0 .. Capacity - 1
    PROVE  /\ SlotOf(i) \in Slot
           /\ SlotOf(WrapAdd(i, n)) = IF SlotOf(i) + n < Capacity
                                      THEN SlotOf(i) + n
                                      ELSE SlotOf(i) + n - Capacity
<1> DEFINE s == i % Capacity
           q == i \div Capacity
           m == Modulus \div Capacity
           t == IF s + n < Capacity THEN s + n ELSE s + n - Capacity
           p == IF s + n < Capacity THEN q ELSE q + 1
<1>1. i \in Int /\ n \in Int /\ Modulus \in Int /\ Capacity \in Nat \ {0}
  BY RingIndexAssumption DEF Index
<1>2. s \in 0 .. Capacity - 1 /\ q \in Int /\ m \in Int
  BY <1>1, RemainderExists
<1>3. i = (Capacity * q) + s
  BY <1>1, RemainderExists
<1>4. Modulus = Capacity * m
  BY <1>1, RemainderExists, RingIndexAssumption
<1> HIDE DEF s, q, m
<1>5. t \in 0 .. Capacity - 1 /\ p \in Int
  BY <1>1, <1>2
<1>6. i + n = (Capacity * p) + t
  <2>1. CASE s + n < Capacity
    BY <2>1, <1>1, <1>2, <1>3, Multiples
  <2>2. CASE ~(s + n < Capacity)
    <3>1. Capacity * (q + 1) = (Capacity * q) + Capacity /\ Capacity * q \in Int
      BY <1>1, <1>2, Multiples
    <3> QED BY <2>2, <3>1, <1>1, <1>2, <1>3
  <2> QED BY <2>1, <2>2
<1> HIDE DEF t, p
<1>7. i + n - Modulus = (Capacity * (p - m)) + t
  <2>1. Capacity * (p - m) = (Capacity * p) - (Capacity * m)
    BY <1>1, <1>2, <1>5, Multiples
  <2>2. Capacity * p \in Int /\ Capacity * m \in Int
    BY <1>1, <1>2, <1>5, Multiples
  <2> QED BY <2>1, <2>2, <1>1, <1>4, <1>5, <1>6
<1>8. (i + n) % Capacity = t
  <2>1. i + n \in Int
    BY <1>1
  <2> QED BY <2>1, <1>1, <1>5, <1>6, RemainderUnique
<1>9. (i + n - Modulus) % Capacity = t
  <2>1. p - m \in Int /\ i + n - Modulus \in Int
    BY <1>1, <1>2, <1>5
  <2> QED BY <2>1, <1>1, <1>5, <1>7, RemainderUnique
<1> QED BY <1>1, <1>2, <1>8, <1>9 DEF SlotOf, Slot, WrapAdd, s, t

\* copy_from_slice and copy_to_slice put element k of a batch where a push or pop of
\* single elements would: in the slot of the start index advanced by k.
THEOREM CopySlotIsSlotOf ==
    ASSUME NEW i \in Index, NEW k \in 0 .. Capacity - 1
    PROVE  /\ CopySlot(i, k) = SlotOf(WrapAdd(i, k))
           /\ CopySlot(i, k) \in Slot
BY SlotOfAdvance, RingIndexAssumption DEF CopySlot, Slot

\* The elements of a window of at most Capacity indices have slots of their own.
THEOREM WindowIsInjective ==
    ASSUME NEW i \in Index, NEW m \in 0 .. Capacity - 1, NEW n \in 0 .. Capacity - 1,
           m # n
    PROVE  SlotOf(WrapAdd(i, m)) # SlotOf(WrapAdd(i, n))
BY SlotOfAdvance, RingIndexAssumption DEF Slot

\* Advancing twice is advancing once by the sum.
LEMMA AdvanceTwice ==
    ASSUME NEW i \in Index, NEW m \in Nat, NEW n \in Nat, m + n < Modulus
    PROVE  WrapAdd(WrapAdd(i, m), n) = WrapAdd(i, m + n)
BY RingIndexAssumption DEF WrapAdd, Index

\* Advancing by the distance to another index leads there.
LEMMA AdvanceByDistance ==
    ASSUME NEW i \in Index, NEW j \in Index
    PROVE  /\ WrapAdd(j, WrapSub(i, j)) = i
           /\ WrapAdd(j, 0) = j
BY RingIndexAssumption DEF WrapAdd, WrapSub, Index

\* A whole lap leads back to the same slot.
LEMMA LapSlot ==
    ASSUME NEW i \in Index
    PROVE  SlotOf(WrapAdd(i, Capacity)) = SlotOf(i)
<1>1. CASE Capacity = 1
  <2>1. WrapAdd(i, Capacity) \in Index
    BY AddType, RingIndexAssumption
  <2>2. \A j \in Index : SlotOf(j) = 0
    BY <1>1, RingIndexAssumption DEF SlotOf, Index
  <2> QED BY <2>1, <2>2
<1>2. CASE Capacity # 1
  <2> DEFINE j == WrapAdd(i, Capacity - 1)
             s == SlotOf(i)
  <2>1. Capacity - 1 \in 0 .. Capacity - 1 /\ 1 \in 0 .. Capacity - 1
        /\ Capacity - 1 \in Nat /\ (Capacity - 1) + 1 = Capacity /\ Capacity < Modulus
        /\ Capacity - 1 \in 0 .. Modulus
    BY <1>2, RingIndexAssumption
  <2>2. j \in Index /\ WrapAdd(j, 1) = WrapAdd(i, Capacity)
    BY <2>1, AddType, AdvanceTwice
  <2>3. s \in Slot /\ SlotOf(j) = IF s + (Capacity - 1) < Capacity THEN s + (Capacity - 1)
                                  ELSE s + (Capacity - 1) - Capacity
    BY <2>1, SlotOfAdvance
  <2>4. SlotOf(WrapAdd(j, 1)) = IF SlotOf(j) + 1 < Capacity THEN SlotOf(j) + 1
                                ELSE SlotOf(j) + 1 - Capacity
    BY <2>1, <2>2, SlotOfAdvance
  <2> HIDE DEF j, s
  <2>5. SlotOf(WrapAdd(j, 1)) = s
    BY <2>3, <2>4, <1>2, RingIndexAssumption DEF Slot
  <2> QED BY <2>2, <2>5 DEF s
<1> QED BY <1>1, <1>2
=============================================================================
