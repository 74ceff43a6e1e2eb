--------------------------- MODULE StorageProofs ---------------------------
(***************************************************************************)
(* What every run of Storage shows: that the capacity that round_to_power_ *)
(* of_two returns divides the range of the indices, that every access is   *)
(* to a cell that was allocated and holds what it should, and that every   *)
(* element has one owner whatever panics.                                  *)
(***************************************************************************)
EXTENDS Storage, WellFoundedInduction, SequenceTheorems, TLAPS

\* The index arithmetic of a buffer of this capacity, with what is proved of it
Ring == INSTANCE RingIndexProofs WITH Capacity <- capacity

-----------------------------------------------------------------------------
(* Powers of two *)

LEMMA LeastElement ==
    ASSUME NEW T \in SUBSET Nat, T # {}
    PROVE  \E x \in T : \A y \in T : x <= y
<1> DEFINE lt == OpToRel(<, Nat)
<1>1. PICK x \in T : \A y \in T : ~ (<<y, x>> \in lt)
  BY NatLessThanWellFounded, WFMin
<1>2. \A y \in Nat, z \in Nat : y < z => <<y, z>> \in lt
  BY DEF OpToRel
<1> HIDE DEF lt
<1>3. ASSUME NEW y \in T PROVE x <= y
  <2>1. x \in Nat /\ y \in Nat
    OBVIOUS
  <2>2. ~(y < x)
    BY <1>1, <1>2, <2>1
  <2> QED BY <2>1, <2>2
<1> QED BY <1>3

\* Divisibility, with the quotient
Quotient(a, d) == \E q \in Nat \ {0} : a = d * q

LEMMA QuotientIs ==
    ASSUME NEW a \in Nat \ {0}, NEW d \in Nat \ {0}, a % d = 0
    PROVE  Quotient(a, d)
<1> DEFINE q == a \div d
<1>1. q \in Int /\ a = d * q
  OBVIOUS
<1> HIDE DEF q
<1>2. q > 0
  BY <1>1, SMTT(30)
<1> QED BY <1>1, <1>2 DEF Quotient

LEMMA MultipleIs ==
    ASSUME NEW a \in Nat \ {0}, NEW d \in Nat \ {0}, NEW q \in Nat, a = d * q
    PROVE  a % d = 0 /\ d <= a
<1>1. a % d = 0
  OBVIOUS
<1>2. q # 0
  OBVIOUS
<1>3. d <= a
  BY <1>2, SMTT(30)
<1> QED BY <1>1, <1>3

\* Doubling and halving lead from one power of two to another.
LEMMA TwicePower ==
    ASSUME NEW h \in Nat \ {0}
    PROVE  IsPowerOfTwo(h) <=> IsPowerOfTwo(2 * h)
<1> DEFINE c == 2 * h
<1>0. c \in Nat \ {0}
  OBVIOUS
<1>1. ASSUME IsPowerOfTwo(h), NEW d \in 1 .. c, c % d = 0, d % 2 # 0
      PROVE  d = 1
  <2>1. PICK q \in Nat \ {0} : c = d * q
    <3> HIDE DEF c
    <3>1. d \in Nat \ {0}
      BY <1>0
    <3>2. Quotient(c, d)
      BY <1>0, <1>1, <3>1, QuotientIs
    <3> QED BY <3>2 DEF Quotient
  <2>2. PICK j \in Nat : d = 2 * j + 1
    <3>1. d = 2 * (d \div 2) + 1 /\ d \div 2 \in Nat
      BY <1>1
    <3> QED BY <3>1
  <2> DEFINE p == h - j * q
  <2>3. j * q \in Nat /\ d * q = 2 * (j * q) + q
    BY <2>2
  <2>4. q = 2 * p /\ p \in Nat
    BY <2>1, <2>3
  <2>5. h = d * p
    <3> HIDE DEF p
    <3>1. d * (2 * p) = 2 * (d * p) /\ d * p \in Int
      BY <2>4, SMTT(30)
    <3> QED BY <2>1, <2>4, <3>1
  <2> HIDE DEF p
  <2>6. h % d = 0 /\ d <= h
    BY <2>4, <2>5, MultipleIs
  <2> QED BY <1>1, <2>6 DEF IsPowerOfTwo
<1>2. ASSUME IsPowerOfTwo(c), NEW d \in 1 .. h, h % d = 0
      PROVE  d = 1 \/ d % 2 = 0
  <2>1. PICK q \in Nat \ {0} : h = d * q
    <3>1. d \in Nat \ {0} /\ h % d = 0
      BY <1>2
    <3>2. Quotient(h, d)
      BY <3>1, QuotientIs
    <3> QED BY <3>2 DEF Quotient
  <2>2. c = d * (2 * q)
    BY <2>1, SMTT(30)
  <2>3. c % d = 0 /\ d <= c
    <3> DEFINE r == 2 * q
    <3>1. r \in Nat /\ c = d * r
      BY <2>2
    <3> HIDE DEF r, c
    <3> QED BY <1>0, <3>1, MultipleIs
  <2> QED BY <1>2, <2>3 DEF IsPowerOfTwo
<1> QED BY <1>1, <1>2 DEF IsPowerOfTwo

LEMMA HalfOfPower ==
    ASSUME NEW c \in Nat, c > 1, IsPowerOfTwo(c)
    PROVE  \E h \in Nat \ {0} : c = 2 * h /\ IsPowerOfTwo(h) /\ h < c
<1>1. c % 2 = 0
  <2>1. c % c = 0 /\ c \in 1 .. c
    OBVIOUS
  <2> QED BY <2>1 DEF IsPowerOfTwo
<1>2. PICK h \in Nat : c = 2 * h
  <2>1. c \div 2 \in Nat /\ c = 2 * (c \div 2)
    BY <1>1
  <2> QED BY <2>1
<1>3. h \in Nat \ {0} /\ h < c
  BY <1>2
<1> QED BY <1>2, <1>3, TwicePower

\* A power of two divides every greater one: indices that wrap keep their cell.
THEOREM PowersDivide ==
    \A m \in Nat \ {0}, c \in Nat \ {0} :
        IsPowerOfTwo(m) /\ IsPowerOfTwo(c) /\ c <= m => m % c = 0
<1> DEFINE Fails(m) == \E c \in Nat \ {0} :
                          IsPowerOfTwo(m) /\ IsPowerOfTwo(c) /\ c <= m /\ m % c # 0
           T == {m \in Nat \ {0} : Fails(m)}
<1> SUFFICES ASSUME T # {} PROVE FALSE
  OBVIOUS
<1>1. PICK m \in T : \A y \in T : m <= y
  BY LeastElement
<1>2. PICK c \in Nat \ {0} : IsPowerOfTwo(m) /\ IsPowerOfTwo(c) /\ c <= m /\ m % c # 0
  BY <1>1
<1>3. m \in Nat \ {0}
  BY <1>1
<1>4. c > 1 /\ m > 1
  BY <1>2, <1>3
<1>5. PICK h \in Nat \ {0} : m = 2 * h /\ IsPowerOfTwo(h) /\ h < m
  BY <1>2, <1>3, <1>4, HalfOfPower
<1>6. PICK d \in Nat \ {0} : c = 2 * d /\ IsPowerOfTwo(d)
  BY <1>2, <1>4, HalfOfPower
<1>7. d <= h
  BY <1>2, <1>5, <1>6
<1>8. h % d = 0
  <2>1. h \notin T
    BY <1>1, <1>3, <1>5
  <2> QED BY <1>5, <1>6, <1>7, <2>1
<1>9. PICK q \in Nat \ {0} : h = d * q
  <2>1. Quotient(h, d)
    BY <1>8, QuotientIs
  <2> QED BY <2>1 DEF Quotient
<1>10. m = c * q
  BY <1>5, <1>6, <1>9, SMTT(30)
<1>11. m % c = 0
  <2> HIDE DEF T
  <2>1. m \in Nat \ {0} /\ c \in Nat \ {0} /\ q \in Nat
    BY <1>3
  <2> QED BY <1>10, <2>1, MultipleIs
<1> QED BY <1>2, <1>11

\* usize::next_power_of_two finds one.
LEMMA NextPower == \A n \in Nat \ {0} : \E c \in n .. 2 * n - 1 : IsPowerOfTwo(c)
<1> DEFINE T == {n \in Nat \ {0} : \A c \in n .. 2 * n - 1 : ~IsPowerOfTwo(c)}
<1> SUFFICES ASSUME T # {} PROVE FALSE
  OBVIOUS
<1>1. PICK n \in T : \A y \in T : n <= y
  BY LeastElement
<1>2. n \in Nat \ {0}
  BY <1>1
<1>3. n # 1
  <2>1. IsPowerOfTwo(1)
    BY DEF IsPowerOfTwo
  <2> QED BY <1>1, <2>1
<1> DEFINE m == (n + 1) \div 2
<1>4. m \in Nat \ {0} /\ m < n /\ (n = 2 * m \/ n = 2 * m - 1)
  BY <1>2, <1>3
<1> HIDE DEF m
<1>5. PICK c \in m .. 2 * m - 1 : IsPowerOfTwo(c)
  BY <1>1, <1>4
<1>6. c \in Nat \ {0}
  BY <1>4
<1>7. IsPowerOfTwo(2 * c)
  BY <1>5, <1>6, TwicePower
<1>8. CASE n = 2 * m
  <2>1. 2 * c \in n .. 2 * n - 1
    BY <1>4, <1>8
  <2> QED BY <1>1, <1>7, <2>1
<1>9. CASE n = 2 * m - 1
  <2>1. c # n
    BY <1>1, <1>2, <1>5
  <2>2. 2 * c \in n .. 2 * n - 1
    BY <1>4, <1>9, <2>1
  <2> QED BY <1>1, <1>7, <2>2
<1> QED BY <1>4, <1>8, <1>9

\* What round_to_power_of_two returns: no less than was asked for, less than twice as
\* much, and an assumption of the index arithmetic.
LEMMA RoundIs ==
    ASSUME NEW n \in Requests, capacity = Round(n)
    PROVE  Ring!RingIndexAssumption /\ n <= capacity
<1>1. /\ n \in Nat /\ 2 * n <= Modulus
      /\ Modulus \in Nat /\ Modulus > 1 /\ IsPowerOfTwo(Modulus)
  BY StorageAssumption
<1>2. capacity \in Nat \ {0} /\ IsPowerOfTwo(capacity) /\ capacity < Modulus /\ n <= capacity
  <2>1. CASE n = 0
    <3>1. IsPowerOfTwo(1)
      BY DEF IsPowerOfTwo
    <3> QED BY <1>1, <2>1, <3>1 DEF Round
  <2>2. CASE n # 0
    <3>1. capacity \in n .. 2 * n - 1 /\ IsPowerOfTwo(capacity)
      BY <1>1, <2>2, NextPower DEF Round
    <3> QED BY <1>1, <2>2, <3>1
  <2> QED BY <2>1, <2>2
<1>3. Modulus % capacity = 0
  BY <1>1, <1>2, PowersDivide
<1>4. PICK q \in Nat \ {0} : Modulus = capacity * q
  <2>1. Modulus \in Nat \ {0} /\ capacity \in Nat \ {0}
    BY <1>1, <1>2
  <2>2. Quotient(Modulus, capacity)
    BY <1>3, <2>1, QuotientIs
  <2> QED BY <2>2 DEF Quotient
<1>5. q # 1
  BY <1>1, <1>2, <1>4
<1>6. Modulus >= 2 * capacity
  BY <1>1, <1>2, <1>4, <1>5, SMTT(30)
<1> QED BY <1>1, <1>2, <1>3, <1>6 DEF Ring!RingIndexAssumption

-----------------------------------------------------------------------------
(* The indices between two others, and what the cells own between them *)

Between(r, w) == {Inc(r, n) : n \in 0 .. Dist(w, r) - 1}
Owns(f, r, w) == {f[Masked(i)] : i \in Between(r, w)}
Single(f, r, w) == \A i, j \in Between(r, w) : f[Masked(i)] = f[Masked(j)] => i = j

\* The first n of them
First(r, n) == {Inc(r, k) : k \in 0 .. n - 1}

\* wrapping_add and wrapping_sub as remainders
LEMMA WrapIs ==
    ASSUME Ring!RingIndexAssumption, NEW i \in Ring!Index
    PROVE  /\ \A n \in 0 .. Modulus : Inc(i, n) = Ring!WrapAdd(i, n)
           /\ \A j \in Ring!Index : Dist(i, j) = Ring!WrapSub(i, j)
<1>1. Modulus \in Nat \ {0} /\ i \in 0 .. Modulus - 1
  BY DEF Ring!RingIndexAssumption, Ring!Index
<1>2. ASSUME NEW n \in 0 .. Modulus PROVE Inc(i, n) = Ring!WrapAdd(i, n)
  BY <1>1 DEF Inc, Ring!WrapAdd
<1>3. ASSUME NEW j \in Ring!Index PROVE Dist(i, j) = Ring!WrapSub(i, j)
  BY <1>1 DEF Dist, Ring!WrapSub, Ring!Index
<1> QED BY <1>2, <1>3

\* All there is to know of the indices of a buffer that is not overfull
LEMMA BetweenIs ==
    ASSUME Ring!RingIndexAssumption, NEW r \in Ring!Index, NEW w \in Ring!Index
    PROVE  LET u == Dist(w, r)
           IN  /\ u \in Nat /\ u < Modulus /\ (u = 0 <=> w = r)
               /\ Inc(r, u) = w /\ Inc(r, 0) = r
               /\ \A n \in 0 .. Modulus : Inc(r, n) \in Ring!Index
               /\ \A n \in 0 .. u : Dist(w, Inc(r, n)) = u - n
               /\ u + 1 < Modulus => Dist(Inc(w, 1), r) = u + 1
               /\ \A m, n \in 0 .. capacity - 1 :
                     m # n => Masked(Inc(r, m)) # Masked(Inc(r, n))
               /\ \A m, n \in Nat : m + n < Modulus => Inc(Inc(r, m), n) = Inc(r, m + n)
               /\ Masked(Inc(r, capacity)) = Masked(r)
<1> DEFINE u == Dist(w, r)
           v == Ring!WrapSub(w, r)
<1>1. /\ capacity \in Nat \ {0} /\ Modulus \in Nat /\ Modulus >= 2 * capacity
  BY DEF Ring!RingIndexAssumption
<1>2. u = v
  BY WrapIs
<1>3. v \in Nat /\ v < Modulus /\ (v = 0 <=> w = r)
  BY Ring!SubType
<1>4. \A n \in 0 .. Modulus : /\ Inc(r, n) = Ring!WrapAdd(r, n)
                              /\ Ring!WrapAdd(r, n) \in Ring!Index
  BY WrapIs, Ring!AddType
<1>5. Ring!WrapAdd(r, v) = w /\ Ring!WrapAdd(r, 0) = r
  BY Ring!AdvanceByDistance
<1>6. \A n \in 0 .. v : Dist(w, Inc(r, n)) = v - n
  <2> SUFFICES ASSUME NEW n \in 0 .. v PROVE Dist(w, Inc(r, n)) = v - n
    OBVIOUS
  <2>1. n \in 0 .. Modulus /\ n \in Nat /\ n <= v
    BY <1>1, <1>3
  <2>2. Ring!WrapSub(w, Ring!WrapAdd(r, n)) = v - n
    BY <2>1, Ring!AdvanceBack
  <2>3. Dist(w, Inc(r, n)) = Ring!WrapSub(w, Inc(r, n))
    BY <1>4, <2>1, WrapIs
  <2> QED BY <1>4, <2>1, <2>2, <2>3
<1>7. ASSUME v + 1 < Modulus PROVE Dist(Inc(w, 1), r) = v + 1
  <2>1. 1 \in 0 .. Modulus /\ 1 \in Nat
    BY <1>1
  <2>2. Inc(w, 1) = Ring!WrapAdd(w, 1) /\ Ring!WrapAdd(w, 1) \in Ring!Index
    BY <2>1, WrapIs, Ring!AddType
  <2>3. Dist(Ring!WrapAdd(w, 1), r) = Ring!WrapSub(Ring!WrapAdd(w, 1), r)
    BY <2>2, WrapIs
  <2>4. Ring!WrapSub(Ring!WrapAdd(w, 1), r) = v + 1
    BY <1>7, <2>1, Ring!AdvanceFront
  <2> QED BY <2>2, <2>3, <2>4
<1>8. \A m, n \in 0 .. capacity - 1 : m # n => Masked(Inc(r, m)) # Masked(Inc(r, n))
  <2> SUFFICES ASSUME NEW m \in 0 .. capacity - 1, NEW n \in 0 .. capacity - 1, m # n
      PROVE  Masked(Inc(r, m)) # Masked(Inc(r, n))
    OBVIOUS
  <2>1. m \in 0 .. Modulus /\ n \in 0 .. Modulus
    BY <1>1
  <2>2. Ring!SlotOf(Ring!WrapAdd(r, m)) # Ring!SlotOf(Ring!WrapAdd(r, n))
    BY Ring!WindowIsInjective
  <2> QED BY <1>4, <2>1, <2>2 DEF Masked, Ring!SlotOf
<1>9. ASSUME NEW m \in Nat, NEW n \in Nat, m + n < Modulus
      PROVE  Inc(Inc(r, m), n) = Inc(r, m + n)
  <2>1. m \in 0 .. Modulus /\ n \in 0 .. Modulus /\ m + n \in 0 .. Modulus
    BY <1>1, <1>9
  <2>2. Ring!WrapAdd(Ring!WrapAdd(r, m), n) = Ring!WrapAdd(r, m + n)
    BY <1>9, Ring!AdvanceTwice
  <2>3. Inc(Ring!WrapAdd(r, m), n) = Ring!WrapAdd(Ring!WrapAdd(r, m), n)
    BY <1>4, <2>1, WrapIs
  <2> QED BY <1>4, <2>1, <2>2, <2>3
<1>10. Masked(Inc(r, capacity)) = Masked(r)
  <2>1. capacity \in 0 .. Modulus
    BY <1>1
  <2>2. Ring!SlotOf(Ring!WrapAdd(r, capacity)) = Ring!SlotOf(r)
    BY Ring!LapSlot
  <2> QED BY <1>4, <2>1, <2>2 DEF Masked, Ring!SlotOf
<1>11. v \in 0 .. Modulus /\ 0 \in 0 .. Modulus
  BY <1>1, <1>3
<1> HIDE DEF v
<1> QED BY <1>2, <1>3, <1>4, <1>5, <1>6, <1>7, <1>8, <1>9, <1>10, <1>11

\* A place is taken at the end.
LEMMA BetweenGrows ==
    ASSUME Ring!RingIndexAssumption, NEW r \in Ring!Index, NEW w \in Ring!Index,
           Dist(w, r) < capacity
    PROVE  /\ Inc(w, 1) \in Ring!Index
           /\ Dist(Inc(w, 1), r) = Dist(w, r) + 1
           /\ Between(r, Inc(w, 1)) = Between(r, w) \cup {w}
           /\ \A i \in Between(r, w) : Masked(i) # Masked(w)
<1> DEFINE u == Dist(w, r)
<1>1. capacity \in Nat \ {0} /\ Modulus \in Nat /\ Modulus >= 2 * capacity
  BY DEF Ring!RingIndexAssumption
<1>2. /\ u \in Nat /\ u < Modulus /\ Inc(r, u) = w
      /\ u + 1 < Modulus => Dist(Inc(w, 1), r) = u + 1
      /\ \A m, n \in 0 .. capacity - 1 : m # n => Masked(Inc(r, m)) # Masked(Inc(r, n))
  BY BetweenIs
<1>3. Inc(w, 1) \in Ring!Index
  <2>1. 1 \in 0 .. Modulus
    BY <1>1
  <2> QED BY <2>1, BetweenIs
<1>4. u < capacity
  OBVIOUS
<1>5. Between(r, w) = {Inc(r, n) : n \in 0 .. u - 1}
  BY DEF Between
<1> HIDE DEF u
<1>6. Dist(Inc(w, 1), r) = u + 1
  BY <1>1, <1>2, <1>4
<1>7. Between(r, Inc(w, 1)) = {Inc(r, n) : n \in 0 .. u}
  <2>1. (u + 1) - 1 = u
    BY <1>2
  <2> QED BY <1>6, <2>1 DEF Between
<1>8. 0 .. u = (0 .. u - 1) \cup {u}
  BY <1>2
<1>9. Between(r, Inc(w, 1)) = Between(r, w) \cup {w}
  BY <1>2, <1>5, <1>7, <1>8
<1>10. \A i \in Between(r, w) : Masked(i) # Masked(w)
  <2>1. \A n \in 0 .. u - 1 : n \in 0 .. capacity - 1 /\ u \in 0 .. capacity - 1 /\ n # u
    BY <1>1, <1>2, <1>4
  <2> QED BY <1>2, <1>5, <2>1
<1> QED BY <1>3, <1>6, <1>9, <1>10 DEF u

\* Places are given up at the front.
LEMMA BetweenDrops ==
    ASSUME Ring!RingIndexAssumption, NEW r \in Ring!Index, NEW w \in Ring!Index,
           Dist(w, r) <= capacity, NEW n \in 0 .. Dist(w, r)
    PROVE  /\ Inc(r, n) \in Ring!Index
           /\ Dist(w, Inc(r, n)) = Dist(w, r) - n
           /\ Between(Inc(r, n), w) = Between(r, w) \ First(r, n)
           /\ First(r, n) \subseteq Between(r, w)
           /\ \A i, j \in Between(r, w) : Masked(i) = Masked(j) => i = j
<1> DEFINE u == Dist(w, r)
<1>1. capacity \in Nat \ {0} /\ Modulus \in Nat /\ Modulus >= 2 * capacity
  BY DEF Ring!RingIndexAssumption
<1>2. /\ u \in Nat /\ u < Modulus
      /\ \A k \in 0 .. Modulus : Inc(r, k) \in Ring!Index
      /\ \A k \in 0 .. u : Dist(w, Inc(r, k)) = u - k
      /\ \A l, m \in 0 .. capacity - 1 : l # m => Masked(Inc(r, l)) # Masked(Inc(r, m))
      /\ \A l, m \in Nat : l + m < Modulus => Inc(Inc(r, l), m) = Inc(r, l + m)
  <2>1. u \in Nat /\ u < Modulus /\ \A k \in 0 .. u : Dist(w, Inc(r, k)) = u - k
    BY BetweenIs
  <2>2. \A k \in 0 .. Modulus : Inc(r, k) \in Ring!Index
    BY BetweenIs
  <2>3. \A l, m \in 0 .. capacity - 1 : l # m => Masked(Inc(r, l)) # Masked(Inc(r, m))
    BY BetweenIs
  <2>4. \A l, m \in Nat : l + m < Modulus => Inc(Inc(r, l), m) = Inc(r, l + m)
    BY BetweenIs
  <2> QED BY <2>1, <2>2, <2>3, <2>4
<1>3. u <= capacity /\ n \in 0 .. u
  OBVIOUS
<1>4. Between(r, w) = {Inc(r, k) : k \in 0 .. u - 1}
  BY DEF Between
<1>5. Between(Inc(r, n), w) = {Inc(Inc(r, n), k) : k \in 0 .. u - n - 1}
  BY <1>2 DEF Between
<1> HIDE DEF u
<1>6. \A k \in 0 .. u - n - 1 : Inc(Inc(r, n), k) = Inc(r, n + k) /\ n + k \in n .. u - 1
  <2> SUFFICES ASSUME NEW k \in 0 .. u - n - 1
      PROVE  Inc(Inc(r, n), k) = Inc(r, n + k) /\ n + k \in n .. u - 1
    OBVIOUS
  <2>1. n \in Nat /\ k \in Nat /\ n + k < Modulus /\ n + k \in n .. u - 1
    BY <1>1, <1>2, <1>3
  <2> QED BY <1>2, <2>1
<1>7. \A k \in n .. u - 1 : k - n \in 0 .. u - n - 1 /\ n + (k - n) = k
  BY <1>2, <1>3
<1>8. Between(Inc(r, n), w) = {Inc(r, k) : k \in n .. u - 1}
  <2>1. ASSUME NEW k \in 0 .. u - n - 1
        PROVE  Inc(Inc(r, n), k) \in {Inc(r, l) : l \in n .. u - 1}
    BY <1>6
  <2>2. ASSUME NEW k \in n .. u - 1
        PROVE  Inc(r, k) \in {Inc(Inc(r, n), l) : l \in 0 .. u - n - 1}
    <3> DEFINE l == k - n
    <3>1. l \in 0 .. u - n - 1 /\ n + l = k
      BY <1>7
    <3> HIDE DEF l
    <3>2. Inc(Inc(r, n), l) = Inc(r, k)
      BY <1>6, <3>1
    <3> QED BY <3>1, <3>2
  <2> QED BY <1>5, <2>1, <2>2
<1>9. \A k \in 0 .. u - 1 : k \in 0 .. capacity - 1
  BY <1>1, <1>2, <1>3
<1>10. \A k \in 0 .. n - 1 : k \in 0 .. u - 1
  BY <1>2, <1>3
<1>11. \A k \in 0 .. u - 1 : (k \in 0 .. n - 1 <=> ~(k \in n .. u - 1))
  BY <1>2, <1>3
<1>12. \A k \in n .. u - 1 : k \in 0 .. u - 1
  BY <1>2, <1>3
<1>13. \A l, m \in 0 .. u - 1 : Inc(r, l) = Inc(r, m) => l = m
  BY <1>2, <1>9
<1>14. First(r, n) = {Inc(r, k) : k \in 0 .. n - 1}
  BY DEF First
<1>15. First(r, n) \subseteq Between(r, w)
  BY <1>4, <1>10, <1>14
<1>16. Between(Inc(r, n), w) = Between(r, w) \ First(r, n)
  <2>1. ASSUME NEW k \in n .. u - 1
        PROVE  Inc(r, k) \in Between(r, w) /\ Inc(r, k) \notin First(r, n)
    BY <1>4, <1>10, <1>11, <1>12, <1>13, <1>14
  <2>2. ASSUME NEW k \in 0 .. u - 1, Inc(r, k) \notin First(r, n)
        PROVE  k \in n .. u - 1
    BY <2>2, <1>11, <1>14
  <2>3. Between(Inc(r, n), w) \subseteq Between(r, w) \ First(r, n)
    BY <1>8, <2>1
  <2>4. Between(r, w) \ First(r, n) \subseteq Between(Inc(r, n), w)
    BY <1>4, <1>8, <2>2
  <2> QED BY <2>3, <2>4
<1>17. \A i, j \in Between(r, w) : Masked(i) = Masked(j) => i = j
  BY <1>2, <1>4, <1>9
<1>18. n \in 0 .. Modulus
  BY <1>1, <1>2, <1>3
<1> QED BY <1>2, <1>3, <1>15, <1>16, <1>17, <1>18 DEF u

-----------------------------------------------------------------------------
(* What happens to a buffer's cells *)

Content == Element \cup {Uninit}

\* A storage that is large enough
Storing(f) == \E s \in Nat : s >= capacity /\ f \in [0 .. s - 1 -> Content]

\* Every index leads to one of its cells.
LEMMA MaskedIsIn ==
    ASSUME Ring!RingIndexAssumption, NEW f, Storing(f)
    PROVE  /\ \A i \in Ring!Index : Masked(i) \in DOMAIN f
           /\ \A k \in DOMAIN f : f[k] \in Content
           /\ f # Gone
<1>1. /\ capacity \in Nat \ {0} /\ Modulus \in Nat
  BY DEF Ring!RingIndexAssumption
<1>2. PICK s \in Nat : s >= capacity /\ f \in [0 .. s - 1 -> Content]
  BY DEF Storing
<1>3. \A i \in Ring!Index : Masked(i) \in 0 .. s - 1
  BY <1>1, <1>2 DEF Masked, Ring!Index
<1>4. f # Gone
  <2>1. 0 \in DOMAIN f
    BY <1>1, <1>2
  <2>2. 0 \notin DOMAIN Gone
    BY DEF Gone
  <2> QED BY <2>1, <2>2
<1> QED BY <1>2, <1>3, <1>4

\* The cell of an index is written.
With(f, i, e) == [f EXCEPT ![Masked(i)] = e]

\* An element comes to the end (push, clone).
LEMMA OwnsOneMore ==
    ASSUME Ring!RingIndexAssumption, NEW r \in Ring!Index, NEW w \in Ring!Index,
           Dist(w, r) < capacity, NEW f, Storing(f), Single(f, r, w),
           NEW e \in Element, e \notin Owns(f, r, w)
    PROVE  /\ Storing(With(f, w, e)) /\ Single(With(f, w, e), r, Inc(w, 1))
           /\ Owns(With(f, w, e), r, Inc(w, 1)) = Owns(f, r, w) \cup {e}
<1> DEFINE g == With(f, w, e)
           B == Between(r, w)
           at(i) == Masked(i)
<1>1. /\ Between(r, Inc(w, 1)) = B \cup {w}
      /\ \A i \in B : at(i) # at(w)
  BY BetweenGrows
<1>2. PICK s \in Nat : s >= capacity /\ f \in [0 .. s - 1 -> Content]
  BY DEF Storing
<1>3. at(w) \in 0 .. s - 1
  BY <1>2, MaskedIsIn
<1>4. /\ \A i, j \in B : f[at(i)] = f[at(j)] => i = j
      /\ Owns(f, r, w) = {f[at(i)] : i \in B}
  BY DEF Single, Owns
<1>5. g = [f EXCEPT ![at(w)] = e]
  BY DEF With
<1> HIDE DEF B, at, g
<1>6. g \in [0 .. s - 1 -> Content] /\ g[at(w)] = e
  BY <1>2, <1>3, <1>5 DEF Content
<1>7. Storing(g)
  BY <1>2, <1>6 DEF Storing
<1>8. \A i \in B : g[at(i)] = f[at(i)]
  BY <1>1, <1>2, <1>5
<1>9. \A i, j \in B \cup {w} : g[at(i)] = g[at(j)] => i = j
  BY <1>4, <1>6, <1>8
<1>10. {g[at(i)] : i \in B \cup {w}} = {f[at(i)] : i \in B} \cup {e}
  BY <1>6, <1>8
<1> QED BY <1>1, <1>4, <1>7, <1>9, <1>10 DEF Single, Owns, at, g

\* The first n elements are taken (pop, clear, an overwriting push).
LEMMA OwnsFewer ==
    ASSUME Ring!RingIndexAssumption, NEW r \in Ring!Index, NEW w \in Ring!Index,
           Dist(w, r) <= capacity, NEW n \in 0 .. Dist(w, r), NEW f, Single(f, r, w)
    PROVE  /\ Single(f, Inc(r, n), w)
           /\ Owns(f, Inc(r, n), w) = Owns(f, r, w) \ {f[Masked(i)] : i \in First(r, n)}
           /\ {f[Masked(i)] : i \in First(r, n)} \subseteq Owns(f, r, w)
<1>1. /\ Between(Inc(r, n), w) = Between(r, w) \ First(r, n)
      /\ First(r, n) \subseteq Between(r, w)
  BY BetweenDrops
<1> QED BY <1>1 DEF Single, Owns

-----------------------------------------------------------------------------
(* The inductive invariant *)

\* Five sets that are all the elements and share none
Parted(fr, he, le, o, c) ==
    /\ fr \cap he = {} /\ fr \cap le = {} /\ he \cap le = {}
    /\ (fr \cup he \cup le) \cap (o \cup c) = {} /\ o \cap c = {}
    /\ fr \cup he \cup le \cup o \cup c = Element

\* A storage with its indices, if there is one: large enough, not overfull, and with no
\* element in two cells
Kept(f, r, w) == f # Gone => Storing(f) /\ Dist(w, r) <= capacity /\ Single(f, r, w)
OwnsIf(f, r, w) == IF f = Gone THEN {} ELSE Owns(f, r, w)

Own(b) == OwnsIf(cells[b], readIdx[b], writeIdx[b])

Shape ==
    /\ overwrite \in BOOLEAN /\ cloning \in BOOLEAN
    /\ Ring!RingIndexAssumption
    /\ readIdx \in [Buffer -> Ring!Index] /\ writeIdx \in [Buffer -> Ring!Index]
    /\ cells = [b \in Buffer |-> cells[b]]

Windows == \A b \in Buffer : Kept(cells[b], readIdx[b], writeIdx[b])

\* The clone that is being made starts where the original does and has not passed its end.
Copying ==
    cloning => /\ cells["original"] # Gone /\ cells["clone"] # Gone
               /\ readIdx["clone"] = readIdx["original"]
               /\ Used("clone") <= Used("original")

Owners == Parted(free, held, leaked, Own("original"), Own("clone"))

Inv == Shape /\ Windows /\ Copying /\ Owners

\* The definitions of Storage in these terms
LEMMA OwnIs ==
    ASSUME NEW b
    PROVE  /\ OwnedBy(b) = Own(b)
           /\ Live(b) = IF Exists(b) THEN Between(readIdx[b], writeIdx[b]) ELSE {}
           /\ Used(b) = Dist(writeIdx[b], readIdx[b])
BY DEF OwnedBy, Own, OwnsIf, Owns, Live, Exists, Between, At, Used

\* They depend on no other variable than the capacity.
LEMMA SameCapacity ==
    ASSUME capacity' = capacity, NEW b
    PROVE  /\ (Kept(cells[b], readIdx[b], writeIdx[b]))'
                 <=> Kept(cells'[b], readIdx'[b], writeIdx'[b])
           /\ Own(b)' = OwnsIf(cells'[b], readIdx'[b], writeIdx'[b])
           /\ Ring!RingIndexAssumption' <=> Ring!RingIndexAssumption
           /\ Ring!Index' = Ring!Index
BY DEF Kept, Own, OwnsIf, Owns, Storing, Single, Between, Masked, Inc, Dist,
       Ring!RingIndexAssumption, Ring!Index

Other(b) == IF b = "original" THEN "clone" ELSE "original"

\* What a step that changes one buffer has to show
LEMMA OneBufferChanges ==
    ASSUME Inv, NEW b \in Buffer, NEW f, NEW r \in Ring!Index, NEW w \in Ring!Index,
           overwrite' = overwrite, capacity' = capacity, cloning' \in BOOLEAN,
           cells' = [cells EXCEPT ![b] = f],
           readIdx' = [readIdx EXCEPT ![b] = r],
           writeIdx' = [writeIdx EXCEPT ![b] = w],
           Kept(f, r, w), Copying',
           Parted(free', held', leaked', OwnsIf(f, r, w), Own(Other(b)))
    PROVE  Inv'
<1>1. /\ readIdx \in [Buffer -> Ring!Index] /\ writeIdx \in [Buffer -> Ring!Index]
      /\ cells = [c \in Buffer |-> cells[c]]
      /\ overwrite \in BOOLEAN /\ Ring!RingIndexAssumption
  BY DEF Inv, Shape
<1>2. /\ cells'[b] = f /\ readIdx'[b] = r /\ writeIdx'[b] = w
      /\ \A c \in Buffer : c # b => /\ cells'[c] = cells[c]
                                    /\ readIdx'[c] = readIdx[c] /\ writeIdx'[c] = writeIdx[c]
  BY <1>1
<1>3. Shape'
  <2>1. cells' = [c \in Buffer |-> cells'[c]]
    BY <1>1
  <2>2. readIdx' \in [Buffer -> Ring!Index] /\ writeIdx' \in [Buffer -> Ring!Index]
    BY <1>1
  <2>3. Ring!RingIndexAssumption' /\ Ring!Index' = Ring!Index
    BY <1>1, SameCapacity
  <2> QED BY <1>1, <2>1, <2>2, <2>3 DEF Shape
<1>4. Windows'
  <2>1. \A c \in Buffer : Kept(cells'[c], readIdx'[c], writeIdx'[c])
    <3>1. \A c \in Buffer : Kept(cells[c], readIdx[c], writeIdx[c])
      BY DEF Inv, Windows
    <3> QED BY <1>2, <3>1
  <2>2. \A c \in Buffer : (Kept(cells[c], readIdx[c], writeIdx[c]))'
    BY <2>1, SameCapacity
  <2> QED BY <2>2 DEF Windows
<1>5. Own(b)' = OwnsIf(f, r, w) /\ Own(Other(b))' = Own(Other(b))
  <2>1. Own(b)' = OwnsIf(f, r, w)
    BY <1>2, SameCapacity
  <2>2. /\ cells'[Other(b)] = cells[Other(b)] /\ readIdx'[Other(b)] = readIdx[Other(b)]
        /\ writeIdx'[Other(b)] = writeIdx[Other(b)]
    BY <1>2 DEF Other, Buffer
  <2>3. Own(Other(b))' = OwnsIf(cells'[Other(b)], readIdx'[Other(b)], writeIdx'[Other(b)])
    <3> DEFINE c == Other(b)
    <3>0. c' = c
      BY DEF Other
    <3> HIDE DEF c
    <3>1. Own(c)' = OwnsIf(cells'[c], readIdx'[c], writeIdx'[c])
      BY <3>0, SameCapacity
    <3> QED BY <3>1 DEF c
  <2> QED BY <2>1, <2>2, <2>3 DEF Own
<1>6. Owners'
  <2>1. CASE b = "original"
    <3>1. Own("original")' = OwnsIf(f, r, w) /\ Own("clone")' = Own(Other(b))
      BY <1>5, <2>1 DEF Other
    <3> QED BY <3>1 DEF Owners, Parted
  <2>2. CASE b = "clone"
    <3>1. Own("clone")' = OwnsIf(f, r, w) /\ Own("original")' = Own(Other(b))
      BY <1>5, <2>2 DEF Other
    <3>2. Parted(free', held', leaked', Own(Other(b)), OwnsIf(f, r, w))
      BY DEF Parted
    <3> QED BY <3>1, <3>2 DEF Owners, Parted
  <2> QED BY <2>1, <2>2 DEF Buffer
<1> QED BY <1>3, <1>4, <1>6 DEF Inv

\* And one that changes none
LEMMA NoBufferChanges ==
    ASSUME Inv, UNCHANGED <<overwrite, capacity, cells, readIdx, writeIdx>>,
           cloning' \in BOOLEAN, Copying',
           Parted(free', held', leaked', Own("original"), Own("clone"))
    PROVE  Inv'
<1>1. Shape' /\ Windows'
  <2>1. Ring!RingIndexAssumption' /\ Ring!Index' = Ring!Index
    BY SameCapacity DEF Inv, Shape
  <2>2. Shape'
    BY <2>1 DEF Inv, Shape
  <2>3. \A c \in Buffer : (Kept(cells[c], readIdx[c], writeIdx[c]))'
    BY SameCapacity DEF Inv, Windows
  <2> QED BY <2>2, <2>3 DEF Windows
<1>2. Own("original")' = Own("original") /\ Own("clone")' = Own("clone")
  BY SameCapacity DEF Own
<1> QED BY <1>1, <1>2 DEF Inv, Owners, Parted

-----------------------------------------------------------------------------
(* The steps *)

\* What the invariant says of a buffer that exists
LEMMA BufferIs ==
    ASSUME Inv, NEW b \in Buffer, Exists(b)
    PROVE  /\ Ring!RingIndexAssumption
           /\ readIdx[b] \in Ring!Index /\ writeIdx[b] \in Ring!Index
           /\ Storing(cells[b]) /\ Single(cells[b], readIdx[b], writeIdx[b])
           /\ Used(b) = Dist(writeIdx[b], readIdx[b])
           /\ Used(b) \in Nat /\ Used(b) <= capacity
           /\ Own(b) = Owns(cells[b], readIdx[b], writeIdx[b])
<1>1. /\ Ring!RingIndexAssumption
      /\ readIdx[b] \in Ring!Index /\ writeIdx[b] \in Ring!Index
  BY DEF Inv, Shape
<1>2. Kept(cells[b], readIdx[b], writeIdx[b]) /\ cells[b] # Gone
  BY DEF Inv, Windows, Exists
<1>3. Dist(writeIdx[b], readIdx[b]) \in Nat
  BY <1>1, BetweenIs
<1> QED BY <1>1, <1>2, <1>3 DEF Kept, Own, OwnsIf, Used

\* Which elements a buffer does not share
LEMMA PartsOf ==
    ASSUME Inv, NEW b \in Buffer
    PROVE  Parted(free, held, leaked, Own(b), Own(Other(b)))
BY DEF Inv, Owners, Parted, Other, Buffer

\* An index that stays
LEMMA Stays ==
    ASSUME Inv, NEW b
    PROVE  /\ readIdx = [readIdx EXCEPT ![b] = readIdx[b]]
           /\ writeIdx = [writeIdx EXCEPT ![b] = writeIdx[b]]
BY DEF Inv, Shape

LEMMA MakeIs ==
    ASSUME Inv, Make
    PROVE  Inv'
<1>1. PICK e \in free : held' = held \cup {e} /\ free' = free \ {e}
  BY DEF Make
<1>2. UNCHANGED <<overwrite, capacity, cells, readIdx, writeIdx, cloning, leaked>>
  BY DEF Make
<1>3. cloning' \in BOOLEAN /\ Copying'
  BY <1>2 DEF Inv, Shape, Copying, Used
<1>4. Parted(free', held', leaked', Own("original"), Own("clone"))
  BY <1>1, <1>2 DEF Inv, Owners, Parted
<1> QED BY <1>2, <1>3, <1>4, NoBufferChanges

LEMMA DropHeldIs ==
    ASSUME Inv, DropHeld
    PROVE  Inv'
<1>1. PICK e \in held : held' = held \ {e} /\ free' = free \cup {e}
  BY DEF DropHeld
<1>2. UNCHANGED <<overwrite, capacity, cells, readIdx, writeIdx, cloning, leaked>>
  BY DEF DropHeld
<1>3. cloning' \in BOOLEAN /\ Copying'
  BY <1>2 DEF Inv, Shape, Copying, Used
<1>4. Parted(free', held', leaked', Own("original"), Own("clone"))
  BY <1>1, <1>2 DEF Inv, Owners, Parted
<1> QED BY <1>2, <1>3, <1>4, NoBufferChanges

\* The n oldest elements leave a buffer and become those of s (pop, clear).
LEMMA TakeIs ==
    ASSUME Inv, NEW b \in Buffer, Ready(b), NEW n \in 0 .. Used(b),
           UNCHANGED <<overwrite, capacity, cells, writeIdx, cloning>>,
           readIdx' = [readIdx EXCEPT ![b] = Inc(readIdx[b], n)],
           NEW x, x = {cells[b][Masked(i)] : i \in First(readIdx[b], n)},
           x \subseteq Own(b) =>
               Parted(free', held', leaked', Own(b) \ x, Own(Other(b)))
    PROVE  Inv'
<1> DEFINE f == cells[b]
           r == readIdx[b]
           w == writeIdx[b]
           z == Inc(r, n)
<1>1. /\ Ring!RingIndexAssumption /\ r \in Ring!Index /\ w \in Ring!Index
      /\ Storing(f) /\ Single(f, r, w) /\ Own(b) = Owns(f, r, w)
      /\ Used(b) = Dist(w, r) /\ Used(b) \in Nat /\ Dist(w, r) <= capacity
  BY BufferIs DEF Ready
<1>2. n \in 0 .. Dist(w, r)
  BY <1>1
<1>3. /\ Single(f, z, w) /\ Owns(f, z, w) = Own(b) \ x /\ x \subseteq Own(b)
  <2> HIDE DEF f, r, w
  <2>1. /\ Single(f, Inc(r, n), w)
        /\ Owns(f, Inc(r, n), w) = Owns(f, r, w) \ {f[Masked(i)] : i \in First(r, n)}
        /\ {f[Masked(i)] : i \in First(r, n)} \subseteq Owns(f, r, w)
    BY <1>1, <1>2, OwnsFewer
  <2> QED BY <1>1, <2>1 DEF f, r, w
<1>4. z \in Ring!Index /\ Dist(w, z) <= capacity
  <2> HIDE DEF f, r, w
  <2>1. Inc(r, n) \in Ring!Index /\ Dist(w, Inc(r, n)) = Dist(w, r) - n
    BY <1>1, <1>2, BetweenDrops
  <2>2. Dist(w, r) - n <= capacity
    BY <1>1, <1>2 DEF Ring!RingIndexAssumption
  <2> QED BY <2>1, <2>2
<1>5. Kept(f, z, w)
  BY <1>1, <1>3, <1>4 DEF Kept
<1>6. OwnsIf(f, z, w) = Own(b) \ x
  BY <1>3 DEF OwnsIf, Ready, Exists
<1>7. /\ cells' = [cells EXCEPT ![b] = f] /\ readIdx' = [readIdx EXCEPT ![b] = z]
      /\ writeIdx' = [writeIdx EXCEPT ![b] = w]
  BY Stays DEF Inv, Shape
<1>8. cloning' \in BOOLEAN /\ Copying'
  <2>1. cloning = FALSE
    BY DEF Ready, Inv, Shape
  <2>2. cloning' = FALSE
    BY <2>1
  <2> QED BY <2>2 DEF Copying
<1>9. Parted(free', held', leaked', OwnsIf(f, z, w), Own(Other(b)))
  BY <1>3, <1>6
<1> HIDE DEF f, r, w, z
<1> QED BY <1>1, <1>4, <1>5, <1>7, <1>8, <1>9, OneBufferChanges

LEMMA PopIs ==
    ASSUME Inv, NEW b \in Buffer, Pop(b)
    PROVE  Inv'
<1> DEFINE x == {cells[b][Masked(i)] : i \in First(readIdx[b], 1)}
<1>1. /\ Ready(b) /\ Used(b) > 0
      /\ held' = held \cup {At(b, readIdx[b])} /\ free' = free /\ leaked' = leaked
      /\ readIdx' = [readIdx EXCEPT ![b] = Inc(readIdx[b], 1)]
      /\ UNCHANGED <<overwrite, capacity, cells, writeIdx, cloning>>
  BY DEF Pop
<1>2. 1 \in 0 .. Used(b)
  BY <1>1, BufferIs DEF Ready
<1>3. Inc(readIdx[b], 0) = readIdx[b]
  BY <1>1, BufferIs, BetweenIs DEF Ready
<1>4. x = {At(b, readIdx[b])}
  BY <1>3 DEF First, At
<1>5. x \subseteq Own(b) => Parted(free', held', leaked', Own(b) \ x, Own(Other(b)))
  <2> HIDE DEF x
  <2> QED BY <1>1, <1>4, PartsOf DEF Parted
<1> HIDE DEF x
<1> QED BY <1>1, <1>2, <1>5, TakeIs DEF x

LEMMA ClearIs ==
    ASSUME Inv, NEW b \in Buffer, Clear(b)
    PROVE  Inv'
<1>1. PICK n \in 1 .. Used(b) :
         /\ free' = free \cup {At(b, Inc(readIdx[b], k)) : k \in 0 .. n - 1}
         /\ readIdx' = [readIdx EXCEPT ![b] = Inc(readIdx[b], n)]
  BY DEF Clear, Popped
<1>2. /\ Ready(b) /\ held' = held /\ leaked' = leaked
      /\ UNCHANGED <<overwrite, capacity, cells, writeIdx, cloning>>
  BY DEF Clear
<1> DEFINE x == {cells[b][Masked(i)] : i \in First(readIdx[b], n)}
<1>3. n \in 0 .. Used(b)
  BY <1>2, BufferIs DEF Ready
<1>4. x = {At(b, Inc(readIdx[b], k)) : k \in 0 .. n - 1}
  BY DEF First, At
<1>5. x \subseteq Own(b) => Parted(free', held', leaked', Own(b) \ x, Own(Other(b)))
  <2>1. free' = free \cup x
    BY <1>1, <1>4
  <2> HIDE DEF x
  <2> QED BY <1>2, <2>1, PartsOf DEF Parted
<1> HIDE DEF x
<1> QED BY <1>1, <1>2, <1>3, <1>5, TakeIs DEF x

\* A buffer that does not exist owns nothing.
LEMMA GoneIs ==
    ASSUME NEW r, NEW w
    PROVE  Kept(Gone, r, w) /\ OwnsIf(Gone, r, w) = {}
BY DEF Kept, OwnsIf

LEMMA DropBufferIs ==
    ASSUME Inv, NEW b \in Buffer, DropBuffer(b) \/ (b = "clone" /\ ClonePanics)
    PROVE  Inv'
<1> DEFINE r == readIdx[b]
           w == writeIdx[b]
<1>1. /\ overwrite' = overwrite /\ capacity' = capacity /\ cloning' = FALSE
      /\ cells' = [cells EXCEPT ![b] = Gone]
      /\ readIdx' = readIdx /\ writeIdx' = writeIdx
      /\ free' = free /\ held' = held /\ leaked' = leaked \cup Own(b)
  BY OwnIs DEF DropBuffer, ClonePanics, Ready, Inv, Shape
<1>2. r \in Ring!Index /\ w \in Ring!Index
  BY DEF Inv, Shape
<1>3. readIdx' = [readIdx EXCEPT ![b] = r] /\ writeIdx' = [writeIdx EXCEPT ![b] = w]
  BY <1>1, Stays
<1>4. Kept(Gone, r, w) /\ OwnsIf(Gone, r, w) = {}
  BY GoneIs
<1>5. Parted(free', held', leaked', {}, Own(Other(b)))
  BY <1>1, PartsOf DEF Parted
<1>6. cloning' \in BOOLEAN /\ Copying'
  BY <1>1 DEF Copying
<1> HIDE DEF r, w
<1> QED BY <1>1, <1>2, <1>3, <1>4, <1>5, <1>6, OneBufferChanges

\* An element comes to the end of a storage that has room.
LEMMA AddIs ==
    ASSUME Ring!RingIndexAssumption, NEW r \in Ring!Index, NEW w \in Ring!Index,
           NEW f, Storing(f), Single(f, r, w), Dist(w, r) < capacity,
           NEW e \in Element, e \notin Owns(f, r, w)
    PROVE  /\ Inc(w, 1) \in Ring!Index /\ Dist(Inc(w, 1), r) = Dist(w, r) + 1
           /\ Kept(With(f, w, e), r, Inc(w, 1)) /\ With(f, w, e) # Gone
           /\ OwnsIf(With(f, w, e), r, Inc(w, 1)) = Owns(f, r, w) \cup {e}
<1> DEFINE g == With(f, w, e)
<1>1. /\ Inc(w, 1) \in Ring!Index /\ Dist(Inc(w, 1), r) = Dist(w, r) + 1
  BY BetweenGrows
<1>2. /\ Storing(g) /\ Single(g, r, Inc(w, 1))
      /\ Owns(g, r, Inc(w, 1)) = Owns(f, r, w) \cup {e}
  BY OwnsOneMore
<1> HIDE DEF g
<1>3. Dist(w, r) + 1 <= capacity
  <2>1. Dist(w, r) \in Nat /\ capacity \in Nat
    BY BetweenIs DEF Ring!RingIndexAssumption
  <2> QED BY <2>1
<1>4. g # Gone
  BY <1>2, MaskedIsIn
<1> QED BY <1>1, <1>2, <1>3, <1>4 DEF Kept, OwnsIf, g

LEMMA PushIs ==
    ASSUME Inv, NEW b \in Buffer, NEW e \in Element, Push(b, e)
    PROVE  Inv'
<1> DEFINE f == cells[b]
           r == readIdx[b]
           w == writeIdx[b]
           g == With(f, w, e)
<1>1. /\ Ready(b) /\ e \in held /\ cloning' = FALSE
      /\ overwrite' = overwrite /\ capacity' = capacity
      /\ free' = free /\ leaked' = leaked
  BY DEF Push, Ready, Inv, Shape
<1>2. /\ Ring!RingIndexAssumption /\ r \in Ring!Index /\ w \in Ring!Index
      /\ Storing(f) /\ Single(f, r, w) /\ Own(b) = Owns(f, r, w)
      /\ Used(b) = Dist(w, r) /\ Used(b) \in Nat /\ Dist(w, r) <= capacity
  BY <1>1, BufferIs DEF Ready
<1>3. capacity \in Nat \ {0}
  BY <1>2 DEF Ring!RingIndexAssumption
<1>4. cloning' \in BOOLEAN /\ Copying'
  BY <1>1 DEF Copying
<1>5. Parted(free, held, leaked, Own(b), Own(Other(b)))
  BY PartsOf
<1>6. e \notin Own(b)
  BY <1>1, <1>5 DEF Parted
<1>7. /\ readIdx = [readIdx EXCEPT ![b] = r]
  BY Stays
<1>8. CASE Used(b) >= capacity /\ ~overwrite
  <2>1. UNCHANGED <<cells, readIdx, writeIdx, held>>
    BY <1>8 DEF Push
  <2>2. Parted(free', held', leaked', Own("original"), Own("clone"))
    BY <1>1, <2>1 DEF Inv, Owners
  <2> QED BY <1>1, <1>4, <2>1, <2>2, NoBufferChanges
<1>9. CASE ~(Used(b) >= capacity)
  <2>1. /\ cells' = [cells EXCEPT ![b] = g]
        /\ readIdx' = readIdx /\ writeIdx' = [writeIdx EXCEPT ![b] = Inc(w, 1)]
        /\ held' = held \ {e}
    BY <1>9 DEF Push, Put, With
  <2>2. Dist(w, r) < capacity
    BY <1>2, <1>3, <1>9
  <2>3. readIdx' = [readIdx EXCEPT ![b] = r]
    BY <1>7, <2>1
  <2> HIDE DEF f, r, w
  <2>4. /\ Inc(w, 1) \in Ring!Index /\ Kept(g, r, Inc(w, 1))
        /\ OwnsIf(g, r, Inc(w, 1)) = Own(b) \cup {e}
    BY <1>2, <1>6, <2>2, AddIs
  <2> HIDE DEF g
  <2>5. Parted(free', held', leaked', Own(b) \cup {e}, Own(Other(b)))
    BY <1>1, <1>5, <2>1 DEF Parted
  <2> QED BY <1>1, <1>2, <1>4, <2>1, <2>3, <2>4, <2>5, OneBufferChanges
<1>10. CASE Used(b) >= capacity /\ overwrite
  <2> DEFINE x == f[Masked(w)]
             q == Inc(r, 1)
  <2>1. /\ cells' = [cells EXCEPT ![b] = g]
        /\ readIdx' = [readIdx EXCEPT ![b] = q]
        /\ writeIdx' = [writeIdx EXCEPT ![b] = Inc(w, 1)]
        /\ held' = (held \ {e}) \cup {x}
    BY <1>10 DEF Push, Put, At, With
  <2>2. Dist(w, r) = capacity /\ 1 \in 0 .. Dist(w, r)
    BY <1>2, <1>3, <1>10
  <2> HIDE DEF f, r, w
  <2>3. Masked(w) = Masked(r) /\ Inc(r, 0) = r
    <3>1. Inc(r, Dist(w, r)) = w /\ Masked(Inc(r, capacity)) = Masked(r) /\ Inc(r, 0) = r
      BY <1>2, BetweenIs
    <3> QED BY <2>2, <3>1
  <2>4. First(r, 1) = {r}
    BY <2>3 DEF First
  <2>5. /\ Single(f, q, w)
        /\ Owns(f, q, w) = Owns(f, r, w) \ {f[Masked(i)] : i \in First(r, 1)}
        /\ {f[Masked(i)] : i \in First(r, 1)} \subseteq Owns(f, r, w)
    BY <1>2, <2>2, OwnsFewer
  <2>6. q \in Ring!Index /\ Dist(w, q) = Dist(w, r) - 1
    BY <1>2, <2>2, BetweenDrops
  <2>7. Dist(w, q) < capacity
    BY <1>3, <2>2, <2>6
  <2>8. Owns(f, q, w) = Own(b) \ {x} /\ x \in Own(b)
    BY <1>2, <2>3, <2>4, <2>5
  <2> HIDE DEF q, x
  <2>9. /\ Inc(w, 1) \in Ring!Index /\ Kept(g, q, Inc(w, 1))
        /\ OwnsIf(g, q, Inc(w, 1)) = Owns(f, q, w) \cup {e}
    <3>1. e \notin Owns(f, q, w)
      BY <1>6, <2>8
    <3> QED BY <1>2, <2>5, <2>6, <2>7, <3>1, AddIs
  <2> HIDE DEF g
  <2>10. Parted(free', held', leaked', OwnsIf(g, q, Inc(w, 1)), Own(Other(b)))
    <3>1. OwnsIf(g, q, Inc(w, 1)) = (Own(b) \ {x}) \cup {e}
      BY <2>8, <2>9
    <3> QED BY <1>1, <1>5, <2>1, <2>8, <3>1 DEF Parted
  <2> QED BY <1>1, <1>4, <2>1, <2>6, <2>9, <2>10, OneBufferChanges
<1> QED BY <1>8, <1>9, <1>10

LEMMA CloneBeginIs ==
    ASSUME Inv, CloneBegin
    PROVE  Inv'
<1> DEFINE b == "clone"
           r == readIdx["original"]
           w == writeIdx["original"]
           f == [k \in DOMAIN cells["original"] |-> Uninit]
<1>1. /\ Exists("original") /\ ~Exists("clone") /\ cloning' = TRUE
      /\ cells' = [cells EXCEPT ![b] = f]
      /\ readIdx' = [readIdx EXCEPT ![b] = r] /\ writeIdx' = [writeIdx EXCEPT ![b] = r]
      /\ overwrite' = overwrite /\ capacity' = capacity
      /\ free' = free /\ held' = held /\ leaked' = leaked
  BY DEF CloneBegin, Ready
<1>2. "original" \in Buffer /\ b \in Buffer /\ b # "original" /\ Other(b) = "original"
  BY DEF Buffer, Other
<1>3. /\ Ring!RingIndexAssumption /\ r \in Ring!Index /\ w \in Ring!Index
      /\ Storing(cells["original"])
      /\ Used("original") = Dist(w, r) /\ Used("original") \in Nat
  BY <1>1, <1>2, BufferIs
<1>4. Storing(f)
  <2>1. PICK s \in Nat : s >= capacity /\ cells["original"] \in [0 .. s - 1 -> Content]
    BY <1>3 DEF Storing
  <2>2. f \in [0 .. s - 1 -> Content]
    BY <2>1 DEF Content
  <2> HIDE DEF f
  <2> QED BY <2>1, <2>2 DEF Storing
<1>5. f # Gone
  <2> HIDE DEF f
  <2> QED BY <1>3, <1>4, MaskedIsIn
<1>6. Dist(r, r) = 0 /\ 0 <= capacity
  <2> HIDE DEF r
  <2> QED BY <1>3, BetweenIs DEF Ring!RingIndexAssumption
<1> HIDE DEF f
<1>7. Between(r, r) = {}
  BY <1>6 DEF Between
<1>8. Kept(f, r, r) /\ OwnsIf(f, r, r) = {}
  BY <1>4, <1>5, <1>6, <1>7 DEF Kept, OwnsIf, Owns, Single
<1>9. Copying'
  <2>1. /\ cells'["original"] = cells["original"] /\ cells'["clone"] = f
        /\ readIdx'["original"] = r /\ readIdx'["clone"] = r
        /\ writeIdx'["original"] = w /\ writeIdx'["clone"] = r
    BY <1>1, <1>2 DEF Inv, Shape
  <2>2. Used("clone")' = 0 /\ Used("original")' = Used("original")
    BY <1>3, <1>6, <2>1 DEF Used, Dist
  <2> QED BY <1>1, <1>3, <1>5, <2>1, <2>2 DEF Copying, Exists
<1>10. Parted(free', held', leaked', {}, Own(Other(b)))
  <2>1. Own(b) = {}
    BY <1>1 DEF Own, OwnsIf, Exists
  <2>2. Parted(free, held, leaked, Own(b), Own(Other(b)))
    BY <1>2, PartsOf
  <2> HIDE DEF b
  <2> QED BY <1>1, <2>1, <2>2 DEF Parted
<1>11. cloning' \in BOOLEAN
  BY <1>1
<1> HIDE DEF r, w, b
<1> QED BY <1>1, <1>2, <1>3, <1>8, <1>9, <1>10, <1>11, OneBufferChanges

LEMMA CloneElementIs ==
    ASSUME Inv, CloneElement
    PROVE  Inv'
<1> DEFINE b == "clone"
           f == cells["clone"]
           r == readIdx["clone"]
           w == writeIdx["clone"]
           z == writeIdx["original"]
<1>1. PICK e \in free : cells' = Put(b, w, e) /\ free' = free \ {e}
  BY DEF CloneElement, Cloned
<1>2. /\ writeIdx' = [writeIdx EXCEPT ![b] = Inc(w, 1)] /\ w # z
      /\ UNCHANGED <<overwrite, capacity, readIdx, cloning, held, leaked>>
  BY DEF CloneElement, Copied
<1>3. cloning = TRUE /\ cloning' = TRUE
  BY <1>2 DEF CloneElement, Inv, Shape
<1>4. "original" \in Buffer /\ b \in Buffer /\ b # "original" /\ Other(b) = "original"
  BY DEF Buffer, Other
<1>5. /\ Exists("original") /\ Exists(b) /\ r = readIdx["original"]
      /\ Used(b) <= Used("original")
  BY <1>3 DEF Inv, Copying, Exists
<1>6. /\ Ring!RingIndexAssumption /\ r \in Ring!Index /\ w \in Ring!Index
      /\ Storing(f) /\ Single(f, r, w) /\ Own(b) = Owns(f, r, w)
      /\ Used(b) = Dist(w, r) /\ Used(b) \in Nat /\ Dist(w, r) <= capacity
  BY <1>4, <1>5, BufferIs
<1>7. /\ z \in Ring!Index /\ Used("original") = Dist(z, r)
      /\ Used("original") \in Nat /\ Dist(z, r) <= capacity
  BY <1>4, <1>5, BufferIs
<1>8. capacity \in Nat
  BY <1>6 DEF Ring!RingIndexAssumption
<1>9. Dist(w, r) < Dist(z, r)
  <2> HIDE DEF r, w, z
  <2>1. Inc(r, Dist(w, r)) = w /\ Inc(r, Dist(z, r)) = z
    BY <1>6, <1>7, BetweenIs
  <2>2. Dist(w, r) # Dist(z, r)
    BY <1>2, <2>1
  <2> QED BY <1>5, <1>6, <1>7, <2>2
<1>10. e \in Element /\ e \notin Own(b)
  BY <1>1, <1>4, PartsOf DEF Parted
<1>11. Dist(w, r) < capacity
  BY <1>6, <1>7, <1>8, <1>9
<1>12. /\ cells' = [cells EXCEPT ![b] = With(f, w, e)]
       /\ readIdx' = [readIdx EXCEPT ![b] = r]
  BY <1>1, <1>2, Stays DEF Put, With
<1>13. /\ Inc(w, 1) \in Ring!Index /\ Dist(Inc(w, 1), r) = Dist(w, r) + 1
       /\ Kept(With(f, w, e), r, Inc(w, 1)) /\ With(f, w, e) # Gone
       /\ OwnsIf(With(f, w, e), r, Inc(w, 1)) = Own(b) \cup {e}
  <2> HIDE DEF f, r, w
  <2> QED BY <1>6, <1>10, <1>11, AddIs
<1>14. Copying'
  <2>1. /\ cells'["original"] = cells["original"] /\ cells'["clone"] = With(f, w, e)
        /\ readIdx'["original"] = r /\ readIdx'["clone"] = r
        /\ writeIdx'["original"] = z /\ writeIdx'["clone"] = Inc(w, 1)
    BY <1>2, <1>4, <1>5, <1>12 DEF Inv, Shape
  <2>2. Used("clone")' = Dist(Inc(w, 1), r) /\ Used("original")' = Dist(z, r)
    BY <2>1 DEF Used, Dist
  <2> HIDE DEF f, r, w, z
  <2>3. Dist(Inc(w, 1), r) <= Dist(z, r)
    <3>1. Dist(w, r) \in Nat /\ Dist(z, r) \in Nat
      BY <1>6, <1>7
    <3> QED BY <1>9, <1>13, <3>1
  <2>4. cells["original"] # Gone
    BY <1>5 DEF Exists
  <2> QED BY <1>13, <2>1, <2>2, <2>3, <2>4 DEF Copying
<1>15. Parted(free', held', leaked', Own(b) \cup {e}, Own(Other(b)))
  <2>1. Parted(free, held, leaked, Own(b), Own(Other(b)))
    BY <1>4, PartsOf
  <2> QED BY <1>1, <1>2, <2>1 DEF Parted
<1>16. cloning' \in BOOLEAN
  BY <1>3
<1> HIDE DEF f, r, w, z
<1> QED BY <1>2, <1>4, <1>6, <1>12, <1>13, <1>14, <1>15, <1>16, OneBufferChanges

LEMMA CloneEndIs ==
    ASSUME Inv, CloneEnd
    PROVE  Inv'
<1>1. /\ UNCHANGED <<overwrite, capacity, cells, readIdx, writeIdx, free, held, leaked>>
      /\ cloning' = FALSE
  BY DEF CloneEnd
<1>2. cloning' \in BOOLEAN /\ Copying'
  BY <1>1 DEF Copying
<1>3. Parted(free', held', leaked', Own("original"), Own("clone"))
  BY <1>1 DEF Inv, Owners
<1> QED BY <1>1, <1>2, <1>3, NoBufferChanges

\* A new buffer: its storage is large enough in the array and in the box.
LEMMA InitIs ==
    ASSUME Init
    PROVE  Inv
<1>1. /\ overwrite \in BOOLEAN /\ cloning = FALSE
      /\ readIdx = [b \in Buffer |-> 0] /\ writeIdx = [b \in Buffer |-> 0]
      /\ free = Element /\ held = {} /\ leaked = {}
  BY DEF Init
<1>2. PICK n \in Requests, t \in Thresholds :
         /\ capacity = Round(n)
         /\ cells = [original |-> Fresh(Allocated(Round(n), t)), clone |-> Gone]
  BY DEF Init
<1> DEFINE f == Fresh(Allocated(Round(n), t))
<1>3. Ring!RingIndexAssumption
  BY <1>2, RoundIs
<1>4. capacity \in Nat \ {0} /\ Modulus \in Nat /\ Modulus >= 2 * capacity
  BY <1>3 DEF Ring!RingIndexAssumption
<1>5. 0 \in Ring!Index
  BY <1>4 DEF Ring!Index
<1>6. Storing(f)
  <2> DEFINE s == Allocated(Round(n), t)
  <2>1. s \in Nat /\ s >= capacity
    BY <1>2, <1>4, StorageAssumption DEF Allocated
  <2>2. f \in [0 .. s - 1 -> Content]
    BY DEF Fresh, Content
  <2> HIDE DEF s, f
  <2> QED BY <2>1, <2>2 DEF Storing
<1>7. /\ cells["original"] = f /\ cells["clone"] = Gone
      /\ cells = [b \in Buffer |-> cells[b]]
  BY <1>2 DEF Buffer
<1> HIDE DEF f
<1>8. Dist(0, 0) = 0 /\ 0 <= capacity
  BY <1>3, <1>4, <1>5, BetweenIs
<1>9. Between(0, 0) = {}
  BY <1>8 DEF Between
<1>10. Kept(f, 0, 0) /\ OwnsIf(f, 0, 0) = {} /\ Kept(Gone, 0, 0) /\ OwnsIf(Gone, 0, 0) = {}
  BY <1>6, <1>8, <1>9 DEF Kept, OwnsIf, Owns, Single
<1>11. \A b \in Buffer : readIdx[b] = 0 /\ writeIdx[b] = 0
  BY <1>1
<1>12. Shape
  BY <1>1, <1>3, <1>5, <1>7 DEF Shape
<1>13. Windows
  BY <1>7, <1>10, <1>11 DEF Windows, Buffer
<1>14. Own("original") = {} /\ Own("clone") = {}
  BY <1>7, <1>10, <1>11 DEF Own, Buffer
<1>15. Owners
  BY <1>1, <1>14 DEF Owners, Parted
<1>16. Copying
  BY <1>1 DEF Copying
<1> QED BY <1>12, <1>13, <1>15, <1>16 DEF Inv

LEMMA NextIs ==
    ASSUME Inv, [Next]_vars
    PROVE  Inv'
<1>1. CASE Make
  BY <1>1, MakeIs
<1>2. CASE DropHeld
  BY <1>2, DropHeldIs
<1>3. ASSUME NEW b \in Buffer, NEW e \in Element, Push(b, e) PROVE Inv'
  BY <1>3, PushIs
<1>4. ASSUME NEW b \in Buffer, Pop(b) PROVE Inv'
  BY <1>4, PopIs
<1>5. ASSUME NEW b \in Buffer, Clear(b) PROVE Inv'
  BY <1>5, ClearIs
<1>6. ASSUME NEW b \in Buffer, DropBuffer(b) PROVE Inv'
  BY <1>6, DropBufferIs
<1>7. CASE CloneBegin
  BY <1>7, CloneBeginIs
<1>8. CASE CloneElement
  BY <1>8, CloneElementIs
<1>9. CASE ClonePanics
  BY <1>9, DropBufferIs DEF Buffer
<1>10. CASE CloneEnd
  BY <1>10, CloneEndIs
<1>11. CASE UNCHANGED vars
  <2>1. UNCHANGED <<overwrite, capacity, cells, readIdx, writeIdx, cloning, free, held, leaked>>
    BY <1>11 DEF vars
  <2>2. cloning' \in BOOLEAN /\ Copying'
    BY <2>1 DEF Inv, Shape, Copying, Used
  <2>3. Parted(free', held', leaked', Own("original"), Own("clone"))
    BY <2>1 DEF Inv, Owners
  <2> QED BY <2>1, <2>2, <2>3, NoBufferChanges
<1> QED BY <1>1, <1>2, <1>3, <1>4, <1>5, <1>6, <1>7, <1>8, <1>9, <1>10, <1>11 DEF Next

\* In every state, also where a panic has left a call halfway, each buffer that exists holds
\* an element of its own in every cell between its indices.
THEOREM Invariance == Spec => []Inv
<1>1. Init => Inv
  BY InitIs
<1>2. Inv /\ [Next]_vars => Inv'
  BY NextIs
<1> QED BY <1>1, <1>2, PTL DEF Spec

-----------------------------------------------------------------------------
(* What follows *)

\* Every variable has its type in every state.
THEOREM TypeCorrect == Spec => []TypeOK
<1>1. ASSUME Inv PROVE TypeOK
  <2>1. /\ overwrite \in BOOLEAN /\ cloning \in BOOLEAN
        /\ readIdx \in [Buffer -> 0 .. Modulus - 1] /\ writeIdx \in [Buffer -> 0 .. Modulus - 1]
    BY <1>1 DEF Inv, Shape, Ring!Index
  <2>2. capacity \in Nat \ {0}
    BY <1>1 DEF Inv, Shape, Ring!RingIndexAssumption
  <2>3. free \subseteq Element /\ held \subseteq Element /\ leaked \subseteq Element
    BY <1>1 DEF Inv, Owners, Parted
  <2>4. ASSUME NEW b \in Buffer, NEW k \in DOMAIN cells[b]
        PROVE  cells[b][k] \in Element \cup {Uninit}
    <3>1. CASE Exists(b)
      BY <1>1, <2>4, <3>1, BufferIs, MaskedIsIn DEF Content
    <3>2. CASE ~Exists(b)
      <4>1. cells[b] = Gone
        BY <3>2 DEF Exists
      <4> QED BY <2>4, <4>1 DEF Gone
    <3> QED BY <3>1, <3>2
  <2> QED BY <2>1, <2>2, <2>3, <2>4 DEF TypeOK
<1> QED BY <1>1, Invariance, PTL

\* Whatever panics: no element is owned twice, and none is lost but by dropping a buffer
\* or a clone that failed (pop, push, clear and clone of generic.rs, read_at and write_at).
THEOREM EveryElementHasOneOwner == Spec => []OneOwner
<1>1. ASSUME Inv PROVE OneOwner
  <2>1. OwnedBy("original") = Own("original") /\ OwnedBy("clone") = Own("clone")
    BY OwnIs
  <2>2. ASSUME NEW b \in Buffer, NEW i \in Live(b), NEW j \in Live(b), At(b, i) = At(b, j)
        PROVE  i = j
    <3>1. Exists(b) /\ Live(b) = Between(readIdx[b], writeIdx[b])
      BY <2>2, OwnIs
    <3>2. Single(cells[b], readIdx[b], writeIdx[b])
      BY <1>1, <3>1, BufferIs
    <3> QED BY <2>2, <3>1, <3>2 DEF Single, At
  <2>3. Parted(free, held, leaked, OwnedBy("original"), OwnedBy("clone"))
    BY <1>1, <2>1 DEF Inv, Owners
  <2> QED BY <2>2, <2>3 DEF OneOwner, Parted
<1> QED BY <1>1, Invariance, PTL

\* The unchecked accesses are sound: every index is masked to a cell that was allocated,
\* for every capacity asked for and every N, and between the indices there are elements.
THEOREM AccessesAreSound == Spec => []AccessIsSound
<1>1. ASSUME Inv PROVE AccessIsSound
  <2> SUFFICES ASSUME NEW b \in Buffer, Exists(b)
      PROVE  /\ \A i \in 0 .. Modulus - 1 : Masked(i) \in DOMAIN cells[b]
             /\ \A i \in Live(b) : At(b, i) \in Element
    BY DEF AccessIsSound
  <2>1. Storing(cells[b]) /\ Ring!RingIndexAssumption
    BY <1>1, BufferIs
  <2>2. \A i \in 0 .. Modulus - 1 : Masked(i) \in DOMAIN cells[b]
    BY <2>1, MaskedIsIn DEF Ring!Index
  <2>3. OwnedBy(b) \subseteq Element
    BY <1>1, OwnIs, PartsOf DEF Parted
  <2> QED BY <2>2, <2>3 DEF OwnedBy
<1> QED BY <1>1, Invariance, PTL

-----------------------------------------------------------------------------
(* The elements in order *)

ContentsOf(f, r, w) == [k \in 1 .. Dist(w, r) |-> f[Masked(Inc(r, k - 1))]]
QueueOf(f, r, w) == IF f = Gone THEN << >> ELSE ContentsOf(f, r, w)

\* They are a sequence.
LEMMA ContentsIs ==
    ASSUME Ring!RingIndexAssumption, NEW r \in Ring!Index, NEW w \in Ring!Index,
           NEW f, Storing(f)
    PROVE  /\ ContentsOf(f, r, w) \in Seq(Content)
           /\ Len(ContentsOf(f, r, w)) = Dist(w, r)
           /\ \A k \in 1 .. Dist(w, r) :
                 ContentsOf(f, r, w)[k] = f[Masked(Inc(r, k - 1))]
<1> DEFINE u == Dist(w, r)
           e(k) == f[Masked(Inc(r, k - 1))]
<1>1. u \in Nat /\ u < Modulus /\ \A n \in 0 .. Modulus : Inc(r, n) \in Ring!Index
  BY BetweenIs
<1>2. \A k \in 1 .. u : e(k) \in Content
  <2> SUFFICES ASSUME NEW k \in 1 .. u PROVE e(k) \in Content
    OBVIOUS
  <2>1. k - 1 \in 0 .. Modulus
    <3> HIDE DEF u
    <3> QED BY <1>1 DEF Ring!RingIndexAssumption
  <2> QED BY <1>1, <2>1, MaskedIsIn
<1>3. ContentsOf(f, r, w) = [k \in 1 .. u |-> e(k)]
  BY DEF ContentsOf
<1> HIDE DEF u, e
<1>4. /\ [k \in 1 .. u |-> e(k)] \in Seq(Content) /\ Len([k \in 1 .. u |-> e(k)]) = u
      /\ \A k \in 1 .. u : [i \in 1 .. u |-> e(i)][k] = e(k)
  BY <1>1, <1>2
<1> QED BY <1>3, <1>4 DEF u, e

\* The oldest are taken.
LEMMA ContentsDrop ==
    ASSUME Ring!RingIndexAssumption, NEW r \in Ring!Index, NEW w \in Ring!Index,
           NEW f, Storing(f), Dist(w, r) <= capacity, NEW n \in 0 .. Dist(w, r)
    PROVE  /\ ContentsOf(f, Inc(r, n), w) = Owned!Rest(ContentsOf(f, r, w), n)
           /\ Owned!Oldest(ContentsOf(f, r, w), n) = {f[Masked(i)] : i \in First(r, n)}
<1> DEFINE u == Dist(w, r)
           q == ContentsOf(f, r, w)
           t == Inc(r, n)
           o == ContentsOf(f, t, w)
           at(k) == f[Masked(Inc(r, k))]
<1>1. u \in Nat /\ u < Modulus
  BY BetweenIs
<1>2. n \in Nat /\ n <= u
  BY <1>1
<1>3. t \in Ring!Index /\ Dist(w, t) = u - n
  BY BetweenDrops
<1>4. \A m, k \in Nat : m + k < Modulus => Inc(Inc(r, m), k) = Inc(r, m + k)
  BY BetweenIs
<1>5. q \in Seq(Content) /\ Len(q) = u /\ \A k \in 1 .. u : q[k] = at(k - 1)
  BY ContentsIs
<1>6. /\ o \in Seq(Content) /\ Len(o) = u - n
      /\ \A k \in 1 .. u - n : o[k] = f[Masked(Inc(t, k - 1))]
  <2> HIDE DEF t, u
  <2> QED BY <1>3, ContentsIs
<1>7. \A k \in 1 .. u - n : f[Masked(Inc(t, k - 1))] = at(n + k - 1)
  <2> SUFFICES ASSUME NEW k \in 1 .. u - n PROVE Inc(t, k - 1) = Inc(r, n + k - 1)
    OBVIOUS
  <2>1. k - 1 \in Nat /\ n + (k - 1) < Modulus /\ n + (k - 1) = n + k - 1
    <3> HIDE DEF u
    <3> QED BY <1>1, <1>2 DEF Ring!RingIndexAssumption
  <2> QED BY <1>2, <1>4, <2>1
<1> HIDE DEF u, q, t, o, at
<1>8. /\ SubSeq(q, n + 1, u) \in Seq(Content) /\ Len(SubSeq(q, n + 1, u)) = u - n
      /\ \A k \in 1 .. u - n : SubSeq(q, n + 1, u)[k] = q[n + k]
  <2>1. \A k \in n + 1 .. u : q[k] \in Content
    BY <1>1, <1>2, <1>5, ElementOfSeq
  <2>2. n + 1 \in Int /\ u \in Int
    BY <1>1, <1>2
  <2> DEFINE z == SubSeq(q, n + 1, u)
  <2>3. /\ z \in Seq(Content)
        /\ Len(z) = IF n + 1 <= u THEN u - (n + 1) + 1 ELSE 0
        /\ \A k \in 1 .. u - (n + 1) + 1 : z[k] = q[(n + 1) + k - 1]
    BY <2>1, <2>2, SubSeqProperties
  <2> HIDE DEF z
  <2>4. Len(z) = u - n /\ u - (n + 1) + 1 = u - n
    BY <1>1, <1>2, <2>3
  <2>5. \A k \in 1 .. u - n : (n + 1) + k - 1 = n + k
    BY <1>1, <1>2
  <2> QED BY <2>3, <2>4, <2>5 DEF z
<1>9. \A k \in 1 .. u - n : n + k \in 1 .. u
  BY <1>1, <1>2
<1>10. \A k \in 1 .. u - n : o[k] = SubSeq(q, n + 1, u)[k]
  BY <1>5, <1>6, <1>7, <1>8, <1>9
<1>11. o = SubSeq(q, n + 1, u)
  BY <1>6, <1>8, <1>10, SeqEqual
<1>12. Owned!Oldest(q, n) = {at(k) : k \in 0 .. n - 1}
  <2>1. ASSUME NEW k \in 1 .. n PROVE k - 1 \in 0 .. n - 1 /\ q[k] = at(k - 1)
    BY <1>1, <1>2, <1>5
  <2>2. ASSUME NEW k \in 0 .. n - 1 PROVE k + 1 \in 1 .. n /\ q[k + 1] = at(k)
    <3>1. k + 1 \in 1 .. u /\ (k + 1) - 1 = k
      BY <1>1, <1>2
    <3> QED BY <1>2, <1>5, <3>1
  <2>3. Owned!Oldest(q, n) = {q[k] : k \in 1 .. n}
    BY DEF Owned!Oldest
  <2> QED BY <2>1, <2>2, <2>3
<1>13. {at(k) : k \in 0 .. n - 1} = {f[Masked(i)] : i \in First(r, n)}
  BY DEF at, First
<1> QED BY <1>5, <1>11, <1>12, <1>13 DEF Owned!Rest, o, q, t

\* One comes to the end.
LEMMA ContentsAppend ==
    ASSUME Ring!RingIndexAssumption, NEW r \in Ring!Index, NEW w \in Ring!Index,
           NEW f, Storing(f), Dist(w, r) < capacity, NEW e \in Element
    PROVE  ContentsOf(With(f, w, e), r, Inc(w, 1)) = Append(ContentsOf(f, r, w), e)
<1> DEFINE u == Dist(w, r)
           g == With(f, w, e)
           q == ContentsOf(f, r, w)
           o == ContentsOf(g, r, Inc(w, 1))
           at(k) == Masked(Inc(r, k))
<1>1. u \in Nat /\ u < capacity /\ capacity \in Nat /\ Inc(r, u) = w
  BY BetweenIs DEF Ring!RingIndexAssumption
<1>2. Inc(w, 1) \in Ring!Index /\ Dist(Inc(w, 1), r) = u + 1
  BY BetweenGrows
<1>3. \A m, n \in 0 .. capacity - 1 : m # n => at(m) # at(n)
  BY BetweenIs
<1>4. PICK s \in Nat : s >= capacity /\ f \in [0 .. s - 1 -> Content]
  BY DEF Storing
<1>5. Masked(w) \in 0 .. s - 1
  BY <1>4, MaskedIsIn
<1>6. g \in [0 .. s - 1 -> Content] /\ g[at(u)] = e
  BY <1>1, <1>4, <1>5 DEF With, Content
<1>7. \A k \in 0 .. u - 1 : g[at(k)] = f[at(k)]
  <2> SUFFICES ASSUME NEW k \in 0 .. u - 1 PROVE g[at(k)] = f[at(k)]
    OBVIOUS
  <2>1. at(k) # Masked(w)
    <3> HIDE DEF u, at
    <3>1. k \in 0 .. capacity - 1 /\ u \in 0 .. capacity - 1 /\ k # u
      BY <1>1
    <3>2. at(u) = Masked(w)
      BY <1>1 DEF at
    <3> QED BY <1>3, <3>1, <3>2
  <2> HIDE DEF u, at
  <2> QED BY <1>4, <2>1 DEF With
<1>8. q \in Seq(Content) /\ Len(q) = u /\ \A k \in 1 .. u : q[k] = f[at(k - 1)]
  BY ContentsIs
<1>9. /\ o \in Seq(Content) /\ Len(o) = u + 1
      /\ \A k \in 1 .. u + 1 : o[k] = g[at(k - 1)]
  <2>1. Storing(g)
    BY <1>4, <1>6 DEF Storing
  <2> HIDE DEF g, u
  <2> QED BY <1>2, <2>1, ContentsIs
<1>10. e \in Content
  BY DEF Content
<1> HIDE DEF u, q, o, g, at
<1>11. /\ Append(q, e) \in Seq(Content) /\ Len(Append(q, e)) = u + 1
       /\ \A k \in 1 .. u : Append(q, e)[k] = q[k]
       /\ Append(q, e)[u + 1] = e
  <2>1. q \in Seq(Content)
    BY <1>8
  <2>2. /\ Append(q, e) \in Seq(Content) /\ Len(Append(q, e)) = Len(q) + 1
        /\ \A k \in 1 .. Len(q) : Append(q, e)[k] = q[k]
        /\ Append(q, e)[Len(q) + 1] = e
    BY <1>10, <2>1, AppendProperties
  <2> QED BY <1>8, <2>2
<1>12. \A k \in 1 .. u + 1 : o[k] = Append(q, e)[k]
  <2> SUFFICES ASSUME NEW k \in 1 .. u + 1 PROVE o[k] = Append(q, e)[k]
    OBVIOUS
  <2>1. CASE k = u + 1
    <3>1. k - 1 = u
      BY <1>1, <2>1
    <3> QED BY <1>6, <1>9, <1>11, <2>1, <3>1
  <2>2. CASE k # u + 1
    <3>1. k \in 1 .. u /\ k - 1 \in 0 .. u - 1
      BY <1>1, <2>2
    <3> QED BY <1>7, <1>8, <1>9, <1>11, <3>1
  <2> QED BY <2>1, <2>2
<1>13. o = Append(q, e)
  BY <1>9, <1>11, <1>12, SeqEqual
<1> QED BY <1>13 DEF o, q, g

-----------------------------------------------------------------------------
(* Every step is a step of the owned queues, or changes none of them *)

\* The queues of Storage in these terms
LEMMA QueuesAre ==
    /\ Queues = [b \in Buffer |-> QueueOf(cells[b], readIdx[b], writeIdx[b])]
    /\ Existing = {b \in Buffer : cells[b] # Gone}
<1>1. \A b : Contents(b) = QueueOf(cells[b], readIdx[b], writeIdx[b])
  BY DEF Contents, QueueOf, ContentsOf, Exists, Used, At
<1> QED BY <1>1 DEF Queues, Existing, Exists

LEMMA NextQueuesAre ==
    ASSUME capacity' = capacity
    PROVE  /\ Queues' = [b \in Buffer |-> QueueOf(cells'[b], readIdx'[b], writeIdx'[b])]
           /\ Existing' = {b \in Buffer : cells'[b] # Gone}
<1>1. ASSUME NEW b
      PROVE  Contents(b)' = QueueOf(cells'[b], readIdx'[b], writeIdx'[b])
  BY DEF Contents, QueueOf, ContentsOf, Exists, Used, At, Masked, Inc, Dist
<1> QED BY <1>1 DEF Queues, Existing, Exists

\* What is known of the queue of a buffer
LEMMA QueueIs ==
    ASSUME Inv, NEW b \in Buffer, Exists(b)
    PROVE  /\ b \in Existing /\ b \in Owned!Name
           /\ Queues[b] = ContentsOf(cells[b], readIdx[b], writeIdx[b])
           /\ Len(Queues[b]) = Used(b)
           /\ Queues[b] \in Seq(Content)
<1>1. /\ Ring!RingIndexAssumption
      /\ readIdx[b] \in Ring!Index /\ writeIdx[b] \in Ring!Index
      /\ Storing(cells[b]) /\ Used(b) = Dist(writeIdx[b], readIdx[b])
  BY BufferIs
<1>2. cells[b] # Gone
  BY DEF Exists
<1>3. Queues[b] = ContentsOf(cells[b], readIdx[b], writeIdx[b])
  BY <1>2, QueuesAre DEF QueueOf
<1>4. /\ ContentsOf(cells[b], readIdx[b], writeIdx[b]) \in Seq(Content)
      /\ Len(ContentsOf(cells[b], readIdx[b], writeIdx[b])) = Used(b)
  BY <1>1, ContentsIs
<1> QED BY <1>2, <1>3, <1>4, QueuesAre DEF Owned!Name, Buffer

\* A step changes one buffer.
Becomes(b, f, r, w) ==
    /\ capacity' = capacity
    /\ cells' = [cells EXCEPT ![b] = f]
    /\ readIdx' = [readIdx EXCEPT ![b] = r]
    /\ writeIdx' = [writeIdx EXCEPT ![b] = w]

\* So does its queue.
LEMMA OneQueueChanges ==
    ASSUME Inv, NEW b \in Buffer, NEW f, NEW r, NEW w, Becomes(b, f, r, w)
    PROVE  /\ Queues' = [Queues EXCEPT ![b] = QueueOf(f, r, w)]
           /\ f = Gone => Existing' = Existing \ {b}
           /\ f # Gone => Existing' = Existing \cup {b}
<1>1. /\ readIdx \in [Buffer -> Ring!Index] /\ writeIdx \in [Buffer -> Ring!Index]
      /\ cells = [c \in Buffer |-> cells[c]]
  BY DEF Inv, Shape
<1>0. /\ capacity' = capacity /\ cells' = [cells EXCEPT ![b] = f]
      /\ readIdx' = [readIdx EXCEPT ![b] = r] /\ writeIdx' = [writeIdx EXCEPT ![b] = w]
  BY DEF Becomes
<1>2. /\ cells'[b] = f /\ readIdx'[b] = r /\ writeIdx'[b] = w
      /\ \A c \in Buffer : c # b => /\ cells'[c] = cells[c]
                                    /\ readIdx'[c] = readIdx[c] /\ writeIdx'[c] = writeIdx[c]
  BY <1>0, <1>1
<1>3. /\ Queues = [c \in Buffer |-> QueueOf(cells[c], readIdx[c], writeIdx[c])]
      /\ Queues' = [c \in Buffer |-> QueueOf(cells'[c], readIdx'[c], writeIdx'[c])]
  BY <1>0, QueuesAre, NextQueuesAre
<1>4. Queues' = [Queues EXCEPT ![b] = QueueOf(f, r, w)]
  BY <1>2, <1>3
<1>5. /\ Existing = {c \in Buffer : cells[c] # Gone}
      /\ Existing' = {c \in Buffer : cells'[c] # Gone}
  BY <1>0, QueuesAre, NextQueuesAre
<1> QED BY <1>2, <1>4, <1>5

\* And one that changes none of the buffers changes no queue.
LEMMA NoQueueChanges ==
    ASSUME UNCHANGED <<capacity, cells, readIdx, writeIdx>>
    PROVE  Queues' = Queues /\ Existing' = Existing
BY QueuesAre, NextQueuesAre

\* The n oldest elements of a buffer are taken.
LEMMA QueueDrops ==
    ASSUME Inv, NEW b \in Buffer, Exists(b), NEW n \in 0 .. Used(b),
           UNCHANGED <<capacity, cells, writeIdx>>,
           readIdx' = [readIdx EXCEPT ![b] = Inc(readIdx[b], n)]
    PROVE  /\ Queues' = [Queues EXCEPT ![b] = Owned!Rest(Queues[b], n)]
           /\ Existing' = Existing
           /\ Owned!Oldest(Queues[b], n)
                = {cells[b][Masked(i)] : i \in First(readIdx[b], n)}
<1> DEFINE f == cells[b]
           r == readIdx[b]
           w == writeIdx[b]
<1>1. /\ Ring!RingIndexAssumption /\ r \in Ring!Index /\ w \in Ring!Index
      /\ Storing(f) /\ Dist(w, r) <= capacity /\ n \in 0 .. Dist(w, r)
  BY BufferIs
<1>2. /\ b \in Existing /\ Queues[b] = ContentsOf(f, r, w)
  BY QueueIs
<1>3. /\ cells' = [cells EXCEPT ![b] = f] /\ writeIdx' = [writeIdx EXCEPT ![b] = w]
  BY Stays DEF Inv, Shape
<1>4. f # Gone
  BY DEF Exists
<1> HIDE DEF f, r, w
<1>5. /\ ContentsOf(f, Inc(r, n), w) = Owned!Rest(ContentsOf(f, r, w), n)
      /\ Owned!Oldest(ContentsOf(f, r, w), n) = {f[Masked(i)] : i \in First(r, n)}
  BY <1>1, ContentsDrop
<1>6. QueueOf(f, Inc(r, n), w) = Owned!Rest(Queues[b], n)
  BY <1>2, <1>4, <1>5 DEF QueueOf
<1>7. readIdx' = [readIdx EXCEPT ![b] = Inc(r, n)]
  BY DEF r
<1>8. /\ Queues' = [Queues EXCEPT ![b] = Owned!Rest(Queues[b], n)]
      /\ Existing' = Existing \cup {b}
  <2>1. Becomes(b, f, Inc(r, n), w)
    BY <1>3, <1>7 DEF Becomes
  <2> QED BY <1>4, <1>6, <2>1, OneQueueChanges
<1> QED BY <1>2, <1>5, <1>8 DEF f, r, w

LEMMA ReadyIs == \A b \in Buffer : Ready(b) <=> Owned!Ready(b)
BY DEF Ready, Owned!Ready, Existing

LEMMA PopImplements ==
    ASSUME Inv, NEW b \in Buffer, Pop(b)
    PROVE  Owned!Pop(b)
<1>1. /\ Ready(b) /\ Used(b) > 0
      /\ held' = held \cup {At(b, readIdx[b])} /\ free' = free /\ leaked' = leaked
      /\ readIdx' = [readIdx EXCEPT ![b] = Inc(readIdx[b], 1)]
      /\ UNCHANGED <<overwrite, capacity, cells, writeIdx, cloning>>
  BY DEF Pop
<1>2. Exists(b) /\ 1 \in 0 .. Used(b) /\ Owned!Ready(b)
  BY <1>1, BufferIs, ReadyIs DEF Ready
<1>3. /\ Queues' = [Queues EXCEPT ![b] = Owned!Rest(Queues[b], 1)]
      /\ Existing' = Existing
      /\ Owned!Oldest(Queues[b], 1) = {cells[b][Masked(i)] : i \in First(readIdx[b], 1)}
  BY <1>1, <1>2, QueueDrops
<1>4. {cells[b][Masked(i)] : i \in First(readIdx[b], 1)} = {At(b, readIdx[b])}
  <2>1. Inc(readIdx[b], 0) = readIdx[b]
    BY <1>2, BufferIs, BetweenIs
  <2> QED BY <2>1 DEF First, At
<1>5. Len(Queues[b]) > 0
  BY <1>1, <1>2, QueueIs
<1> QED BY <1>1, <1>2, <1>3, <1>4, <1>5 DEF Owned!Pop

LEMMA ClearImplements ==
    ASSUME Inv, NEW b \in Buffer, Clear(b)
    PROVE  Owned!Clear(b)
<1>1. PICK n \in 1 .. Used(b) :
         /\ free' = free \cup {At(b, Inc(readIdx[b], k)) : k \in 0 .. n - 1}
         /\ readIdx' = [readIdx EXCEPT ![b] = Inc(readIdx[b], n)]
  BY DEF Clear, Popped
<1>2. /\ Ready(b) /\ held' = held /\ leaked' = leaked
      /\ UNCHANGED <<overwrite, capacity, cells, writeIdx, cloning>>
  BY DEF Clear
<1>3. Exists(b) /\ n \in 0 .. Used(b) /\ Owned!Ready(b)
  BY <1>2, BufferIs, ReadyIs DEF Ready
<1>4. /\ Queues' = [Queues EXCEPT ![b] = Owned!Rest(Queues[b], n)]
      /\ Existing' = Existing
      /\ Owned!Oldest(Queues[b], n) = {cells[b][Masked(i)] : i \in First(readIdx[b], n)}
  BY <1>1, <1>2, <1>3, QueueDrops
<1>5. {cells[b][Masked(i)] : i \in First(readIdx[b], n)}
        = {At(b, Inc(readIdx[b], k)) : k \in 0 .. n - 1}
  BY DEF First, At
<1>6. free' = free \cup Owned!Oldest(Queues[b], n) /\ n \in 1 .. Len(Queues[b])
  BY <1>1, <1>3, <1>4, <1>5, QueueIs
<1> QED BY <1>2, <1>3, <1>4, <1>6 DEF Owned!Clear

\* A storage in which a cell was written is one.
LEMMA WithIs ==
    ASSUME Ring!RingIndexAssumption, NEW f, Storing(f), NEW i, NEW e \in Element
    PROVE  Storing(With(f, i, e)) /\ With(f, i, e) # Gone
<1>1. PICK s \in Nat : s >= capacity /\ f \in [0 .. s - 1 -> Content]
  BY DEF Storing
<1>2. With(f, i, e) \in [0 .. s - 1 -> Content]
  BY <1>1 DEF With, Content
<1>3. Storing(With(f, i, e))
  BY <1>1, <1>2 DEF Storing
<1> QED BY <1>3, MaskedIsIn

\* An element comes to the end of a buffer that has room.
LEMMA QueueGrows ==
    ASSUME Inv, NEW b \in Buffer, Exists(b), Used(b) < capacity, NEW e \in Element,
           Becomes(b, With(cells[b], writeIdx[b], e), readIdx[b], Inc(writeIdx[b], 1))
    PROVE  Queues' = [Queues EXCEPT ![b] = Append(Queues[b], e)] /\ Existing' = Existing
<1> DEFINE f == cells[b]
           r == readIdx[b]
           w == writeIdx[b]
           g == With(f, w, e)
<1>1. /\ Ring!RingIndexAssumption /\ r \in Ring!Index /\ w \in Ring!Index
      /\ Storing(f) /\ Single(f, r, w) /\ Dist(w, r) < capacity
  BY BufferIs
<1>2. b \in Existing /\ Queues[b] = ContentsOf(f, r, w)
  BY QueueIs
<1>3. Becomes(b, g, r, Inc(w, 1))
  OBVIOUS
<1> HIDE DEF f, r, w
<1>4. ContentsOf(g, r, Inc(w, 1)) = Append(Queues[b], e)
  BY <1>1, <1>2, ContentsAppend
<1>5. g # Gone
  BY <1>1, WithIs
<1> HIDE DEF g
<1>6. /\ Queues' = [Queues EXCEPT ![b] = QueueOf(g, r, Inc(w, 1))]
      /\ Existing' = Existing \cup {b}
  BY <1>3, <1>5, OneQueueChanges
<1> QED BY <1>2, <1>4, <1>5, <1>6 DEF QueueOf

LEMMA PushImplements ==
    ASSUME Inv, NEW b \in Buffer, NEW e \in Element, Push(b, e)
    PROVE  Owned!Push(b, e) \/ UNCHANGED Owned!ownedVars
<1> DEFINE f == cells[b]
           r == readIdx[b]
           w == writeIdx[b]
           g == With(f, w, e)
<1>1. /\ Ready(b) /\ e \in held /\ cloning' = cloning
      /\ overwrite' = overwrite /\ capacity' = capacity
      /\ free' = free /\ leaked' = leaked
  BY DEF Push
<1>2. /\ Exists(b) /\ Owned!Ready(b)
  BY <1>1, ReadyIs DEF Ready
<1>3. /\ Ring!RingIndexAssumption /\ r \in Ring!Index /\ w \in Ring!Index
      /\ Storing(f) /\ Single(f, r, w)
      /\ Used(b) = Dist(w, r) /\ Used(b) \in Nat /\ Dist(w, r) <= capacity
      /\ capacity \in Nat \ {0}
  BY <1>2, BufferIs DEF Ring!RingIndexAssumption
<1>4. /\ b \in Existing /\ Queues[b] = ContentsOf(f, r, w) /\ Len(Queues[b]) = Used(b)
  BY <1>2, QueueIs
<1>5. readIdx = [readIdx EXCEPT ![b] = r]
  BY Stays
<1>6. CASE Used(b) >= capacity /\ ~overwrite
  <2>1. UNCHANGED <<cells, readIdx, writeIdx, held>>
    BY <1>6 DEF Push
  <2>2. Queues' = Queues /\ Existing' = Existing
    BY <1>1, <2>1, NoQueueChanges
  <2> QED BY <1>1, <2>1, <2>2 DEF Owned!ownedVars
<1>7. CASE ~(Used(b) >= capacity)
  <2>1. /\ cells' = [cells EXCEPT ![b] = g]
        /\ readIdx' = readIdx /\ writeIdx' = [writeIdx EXCEPT ![b] = Inc(w, 1)]
        /\ held' = held \ {e}
    BY <1>7 DEF Push, Put, With
  <2>2. Used(b) < capacity
    BY <1>3, <1>7
  <2>3. Becomes(b, g, r, Inc(w, 1))
    BY <1>1, <1>5, <2>1 DEF Becomes
  <2>4. Queues' = [Queues EXCEPT ![b] = Append(Queues[b], e)] /\ Existing' = Existing
    BY <1>2, <2>2, <2>3, QueueGrows
  <2> QED BY <1>1, <1>2, <1>4, <2>1, <2>2, <2>4 DEF Owned!Push
<1>8. CASE Used(b) >= capacity /\ overwrite
  <2> DEFINE q == Inc(r, 1)
  <2>1. /\ cells' = [cells EXCEPT ![b] = g]
        /\ readIdx' = [readIdx EXCEPT ![b] = q]
        /\ writeIdx' = [writeIdx EXCEPT ![b] = Inc(w, 1)]
        /\ held' = (held \ {e}) \cup {f[Masked(w)]}
    BY <1>8 DEF Push, Put, At, With
  <2>2. Dist(w, r) = capacity /\ 1 \in 0 .. Dist(w, r) /\ Used(b) = capacity
    BY <1>3, <1>8
  <2>3. Becomes(b, g, q, Inc(w, 1))
    BY <1>1, <2>1 DEF Becomes
  <2> HIDE DEF f, r, w
  <2>4. Masked(w) = Masked(r) /\ Inc(r, 0) = r
    <3>1. Inc(r, Dist(w, r)) = w /\ Masked(Inc(r, capacity)) = Masked(r) /\ Inc(r, 0) = r
      BY <1>3, BetweenIs
    <3> QED BY <2>2, <3>1
  <2>5. /\ ContentsOf(f, q, w) = Owned!Rest(Queues[b], 1)
        /\ Owned!Oldest(Queues[b], 1) = {f[Masked(i)] : i \in First(r, 1)}
    BY <1>3, <1>4, <2>2, ContentsDrop
  <2>6. Owned!Oldest(Queues[b], 1) = {f[Masked(w)]}
    BY <2>4, <2>5 DEF First
  <2>7. q \in Ring!Index /\ Dist(w, q) < capacity
    <3>1. q \in Ring!Index /\ Dist(w, q) = Dist(w, r) - 1
      BY <1>3, <2>2, BetweenDrops
    <3> QED BY <1>3, <2>2, <3>1
  <2> HIDE DEF q
  <2>8. ContentsOf(g, q, Inc(w, 1)) = Append(Owned!Rest(Queues[b], 1), e)
    BY <1>3, <2>5, <2>7, ContentsAppend
  <2>9. g # Gone
    BY <1>3, WithIs
  <2> HIDE DEF g
  <2>10. /\ Queues' = [Queues EXCEPT ![b] = QueueOf(g, q, Inc(w, 1))]
         /\ Existing' = Existing \cup {b}
    BY <2>3, <2>9, OneQueueChanges
  <2>11. /\ Queues' = [Queues EXCEPT ![b] = Append(Owned!Rest(Queues[b], 1), e)]
         /\ Existing' = Existing
    BY <1>4, <2>8, <2>9, <2>10 DEF QueueOf
  <2>12. held' = (held \ {e}) \cup Owned!Oldest(Queues[b], 1)
    BY <2>1, <2>6
  <2>13. overwrite /\ Len(Queues[b]) = capacity
    BY <1>4, <1>8, <2>2
  <2> QED BY <1>1, <1>2, <2>11, <2>12, <2>13 DEF Owned!Push
<1> QED BY <1>6, <1>7, <1>8

\* A buffer that is no more, with its elements, on purpose or because a clone panicked
LEMMA AbandonImplements ==
    ASSUME Inv, NEW b \in Buffer, Exists(b),
           UNCHANGED <<capacity, readIdx, writeIdx, free, held>>,
           cells' = [cells EXCEPT ![b] = Gone], leaked' = leaked \cup OwnedBy(b)
    PROVE  Owned!Abandon(b)
<1> DEFINE f == cells[b]
           r == readIdx[b]
           w == writeIdx[b]
<1>1. /\ Ring!RingIndexAssumption /\ r \in Ring!Index /\ w \in Ring!Index
      /\ Storing(f) /\ Own(b) = Owns(f, r, w)
      /\ Used(b) = Dist(w, r) /\ Used(b) \in Nat /\ Dist(w, r) <= capacity
  BY BufferIs
<1>2. Queues[b] = ContentsOf(f, r, w) /\ Len(Queues[b]) = Used(b)
  BY QueueIs
<1>3. Becomes(b, Gone, r, w)
  BY Stays DEF Becomes
<1>4. OwnedBy(b) = Own(b)
  BY OwnIs
<1> HIDE DEF f, r, w
<1>5. Queues' = [Queues EXCEPT ![b] = << >>] /\ Existing' = Existing \ {b}
  <2>1. QueueOf(Gone, r, w) = << >>
    BY DEF QueueOf
  <2> QED BY <1>3, <2>1, OneQueueChanges
<1>6. Owned!Oldest(Queues[b], Len(Queues[b])) = OwnedBy(b)
  <2>1. Dist(w, r) \in 0 .. Dist(w, r)
    BY <1>1
  <2>2. Owned!Oldest(ContentsOf(f, r, w), Dist(w, r))
          = {f[Masked(i)] : i \in First(r, Dist(w, r))}
    BY <1>1, <2>1, ContentsDrop
  <2>3. First(r, Dist(w, r)) = Between(r, w)
    BY DEF First, Between
  <2> QED BY <1>1, <1>2, <1>4, <2>2, <2>3 DEF Owns
<1> QED BY <1>5, <1>6 DEF Owned!Abandon

LEMMA DropBufferImplements ==
    ASSUME Inv, NEW b \in Buffer, DropBuffer(b)
    PROVE  Owned!DropBuffer(b)
<1>1. Exists(b) /\ Owned!Ready(b)
  BY ReadyIs DEF DropBuffer, Ready
<1>2. Owned!Abandon(b)
  BY <1>1, AbandonImplements DEF DropBuffer
<1> QED BY <1>1, <1>2 DEF DropBuffer, Owned!DropBuffer

LEMMA CloneBeginImplements ==
    ASSUME Inv, CloneBegin
    PROVE  Owned!CloneBegin
<1> DEFINE b == "clone"
           f == [k \in DOMAIN cells["original"] |-> Uninit]
           r == readIdx["original"]
<1>1. /\ Ready("original") /\ ~Exists("clone") /\ cloning' = TRUE
      /\ cells' = [cells EXCEPT ![b] = f]
      /\ readIdx' = [readIdx EXCEPT ![b] = r] /\ writeIdx' = [writeIdx EXCEPT ![b] = r]
      /\ UNCHANGED <<overwrite, capacity, free, held, leaked>>
  BY DEF CloneBegin
<1>2. b \in Buffer /\ "original" \in Buffer
  BY DEF Buffer
<1>3. /\ Ring!RingIndexAssumption /\ r \in Ring!Index /\ Storing(cells["original"])
  BY <1>1, <1>2, BufferIs DEF Ready
<1>4. f # Gone
  <2>1. PICK s \in Nat : s >= capacity /\ cells["original"] \in [0 .. s - 1 -> Content]
    BY <1>3 DEF Storing
  <2>2. f \in [0 .. s - 1 -> Content]
    BY <2>1 DEF Content
  <2> HIDE DEF f
  <2>3. Storing(f)
    BY <2>1, <2>2 DEF Storing
  <2> QED BY <1>3, <2>3, MaskedIsIn
<1>5. Becomes(b, f, r, r)
  BY <1>1 DEF Becomes
<1>6. Queues[b] = << >> /\ b \notin Existing
  <2>1. cells[b] = Gone
    BY <1>1 DEF Exists
  <2> QED BY <1>2, <2>1, QueuesAre DEF QueueOf
<1>7. Queues = [c \in Buffer |-> Queues[c]]
  BY DEF Queues
<1> HIDE DEF b, f, r
<1>8. /\ Queues' = [Queues EXCEPT ![b] = QueueOf(f, r, r)]
      /\ Existing' = Existing \cup {b}
  BY <1>2, <1>4, <1>5, OneQueueChanges
<1>9. QueueOf(f, r, r) = << >>
  <2>1. Dist(r, r) = 0
    BY <1>3, BetweenIs
  <2>2. ContentsOf(f, r, r) = << >>
    BY <2>1 DEF ContentsOf
  <2> QED BY <1>4, <2>2 DEF QueueOf
<1>10. Queues' = Queues
  BY <1>2, <1>6, <1>7, <1>8, <1>9
<1>11. Owned!Ready("original")
  BY <1>1, <1>2, ReadyIs
<1> QED BY <1>1, <1>6, <1>8, <1>10, <1>11 DEF Owned!CloneBegin, b

\* While the clone is being made, the loop has not come to the end as long as the clone is
\* shorter.
LEMMA CopiedIs ==
    ASSUME Inv, cloning
    PROVE  /\ Exists("original") /\ Exists("clone")
           /\ "original" \in Buffer /\ "clone" \in Buffer
           /\ Copied <=> Len(Queues["clone"]) = Len(Queues["original"])
           /\ ~Copied <=> Owned!Short
           /\ ~Copied => Used("clone") < Used("original")
<1> DEFINE r == readIdx["original"]
           w == writeIdx["clone"]
           z == writeIdx["original"]
<1>1. /\ "original" \in Buffer /\ "clone" \in Buffer
      /\ Exists("original") /\ Exists("clone") /\ readIdx["clone"] = r
      /\ Used("clone") <= Used("original")
  BY DEF Inv, Copying, Exists, Buffer
<1>2. /\ Ring!RingIndexAssumption
      /\ r \in Ring!Index /\ w \in Ring!Index /\ z \in Ring!Index
      /\ Used("clone") = Dist(w, r) /\ Used("original") = Dist(z, r)
      /\ Dist(w, r) \in Nat /\ Dist(z, r) \in Nat
  BY <1>1, BufferIs
<1>3. /\ Len(Queues["clone"]) = Dist(w, r) /\ Len(Queues["original"]) = Dist(z, r)
  BY <1>1, <1>2, QueueIs
<1>4. Copied <=> w = z
  BY DEF Copied
<1> HIDE DEF r, w, z
<1>5. Inc(r, Dist(w, r)) = w /\ Inc(r, Dist(z, r)) = z
  BY <1>2, BetweenIs
<1>6. w = z <=> Dist(w, r) = Dist(z, r)
  BY <1>5
<1> QED BY <1>1, <1>2, <1>3, <1>4, <1>6 DEF Owned!Short

LEMMA CloneElementImplements ==
    ASSUME Inv, CloneElement
    PROVE  Owned!CloneElement
<1> DEFINE b == "clone"
<1>1. /\ cloning /\ ~Copied
      /\ writeIdx' = [writeIdx EXCEPT ![b] = Inc(writeIdx[b], 1)]
      /\ UNCHANGED <<overwrite, capacity, readIdx, cloning, held, leaked>>
  BY DEF CloneElement
<1>2. PICK e \in free : /\ cells' = [cells EXCEPT ![b] = With(cells[b], writeIdx[b], e)]
                        /\ free' = free \ {e}
  BY DEF CloneElement, Cloned, Put, With
<1>3. /\ Exists("original") /\ Exists(b) /\ "original" \in Buffer /\ b \in Buffer
      /\ Owned!Short /\ Used(b) < Used("original")
  BY <1>1, CopiedIs
<1>4. e \in Element
  BY <1>2 DEF Inv, Owners, Parted
<1>5. Used(b) < capacity
  <2>1. /\ Used("original") <= capacity /\ Used("original") \in Nat /\ capacity \in Nat
        /\ Used(b) \in Nat
    BY <1>3, BufferIs DEF Ring!RingIndexAssumption
  <2> QED BY <1>3, <2>1
<1>6. Becomes(b, With(cells[b], writeIdx[b], e), readIdx[b], Inc(writeIdx[b], 1))
  BY <1>1, <1>2, Stays DEF Becomes
<1> HIDE DEF b
<1>7. Queues' = [Queues EXCEPT ![b] = Append(Queues[b], e)] /\ Existing' = Existing
  BY <1>3, <1>4, <1>5, <1>6, QueueGrows
<1> QED BY <1>1, <1>2, <1>3, <1>7 DEF Owned!CloneElement, b

LEMMA ClonePanicsImplements ==
    ASSUME Inv, ClonePanics
    PROVE  Owned!ClonePanics
<1>1. cloning /\ ~Copied /\ cloning' = FALSE
  BY DEF ClonePanics
<1>2. Exists("clone") /\ "clone" \in Buffer /\ Owned!Short
  BY <1>1, CopiedIs
<1>3. Owned!Abandon("clone")
  BY <1>2, AbandonImplements DEF ClonePanics
<1> QED BY <1>1, <1>2, <1>3 DEF Owned!ClonePanics

LEMMA CloneEndImplements ==
    ASSUME Inv, CloneEnd
    PROVE  Owned!CloneEnd
<1>1. /\ cloning /\ Copied /\ cloning' = FALSE
      /\ UNCHANGED <<overwrite, capacity, cells, readIdx, writeIdx, free, held, leaked>>
  BY DEF CloneEnd
<1>2. Len(Queues["clone"]) = Len(Queues["original"])
  BY <1>1, CopiedIs
<1>3. Queues' = Queues /\ Existing' = Existing
  BY <1>1, NoQueueChanges
<1> QED BY <1>1, <1>2, <1>3 DEF Owned!CloneEnd

LEMMA MakeImplements ==
    ASSUME Make \/ DropHeld
    PROVE  Owned!Make \/ Owned!DropHeld
<1>1. UNCHANGED <<overwrite, capacity, cells, readIdx, writeIdx, cloning, leaked>>
  BY DEF Make, DropHeld
<1>2. Queues' = Queues /\ Existing' = Existing
  BY <1>1, NoQueueChanges
<1> QED BY <1>1, <1>2 DEF Make, DropHeld, Owned!Make, Owned!DropHeld

LEMMA InitImplements ==
    ASSUME Init
    PROVE  Owned!Init
<1>1. /\ overwrite \in BOOLEAN /\ cloning = FALSE
      /\ readIdx = [b \in Buffer |-> 0] /\ writeIdx = [b \in Buffer |-> 0]
      /\ free = Element /\ held = {} /\ leaked = {}
  BY DEF Init
<1>2. /\ Ring!RingIndexAssumption /\ capacity \in Nat \ {0}
  BY InitIs DEF Inv, Shape, Ring!RingIndexAssumption
<1>3. cells["original"] # Gone /\ cells["clone"] = Gone
  <2>1. PICK n \in Requests, t \in Thresholds :
          /\ capacity = Round(n)
          /\ cells = [original |-> Fresh(Allocated(Round(n), t)), clone |-> Gone]
    BY DEF Init
  <2> DEFINE s == Allocated(Round(n), t)
  <2>2. s \in Nat /\ s >= capacity
    BY <1>2, <2>1, StorageAssumption DEF Allocated
  <2>3. Fresh(s) \in [0 .. s - 1 -> Content]
    BY DEF Fresh, Content
  <2>4. cells["original"] = Fresh(s) /\ cells["clone"] = Gone
    BY <2>1
  <2> HIDE DEF s
  <2>5. Storing(Fresh(s))
    BY <2>2, <2>3 DEF Storing
  <2> QED BY <1>2, <2>4, <2>5, MaskedIsIn
<1>4. Existing = {"original"}
  BY <1>3, QueuesAre DEF Buffer
<1>5. Queues = [b \in Owned!Name |-> << >>]
  <2>1. 0 \in Ring!Index
    BY <1>2 DEF Ring!RingIndexAssumption, Ring!Index
  <2>2. Dist(0, 0) = 0
    BY <1>2, <2>1, BetweenIs
  <2>3. \A f : QueueOf(f, 0, 0) = << >>
    BY <2>2 DEF QueueOf, ContentsOf
  <2>4. \A b \in Buffer : QueueOf(cells[b], readIdx[b], writeIdx[b]) = << >>
    BY <1>1, <2>3
  <2> QED BY <2>4, QueuesAre DEF Owned!Name, Buffer
<1> QED BY <1>1, <1>2, <1>4, <1>5 DEF Owned!Init

LEMMA NextImplements ==
    ASSUME Inv, [Next]_vars
    PROVE  [Owned!Next]_Owned!ownedVars
<1>1. Buffer = Owned!Name
  BY DEF Buffer, Owned!Name
<1>2. CASE UNCHANGED vars
  <2>1. UNCHANGED <<overwrite, capacity, cells, readIdx, writeIdx, cloning, free, held, leaked>>
    BY <1>2 DEF vars
  <2>2. Queues' = Queues /\ Existing' = Existing
    BY <2>1, NoQueueChanges
  <2> QED BY <2>1, <2>2 DEF Owned!ownedVars
<1>3. CASE Next
  <2>1. UNCHANGED <<overwrite, capacity>>
    BY <1>3 DEF Next, Make, DropHeld, Push, Pop, Clear, DropBuffer, CloneBegin, CloneElement,
                ClonePanics, CloneEnd
  <2>2. CASE Make \/ DropHeld
    BY <2>1, <2>2, MakeImplements DEF Owned!Next, Owned!Step
  <2>3. ASSUME NEW b \in Buffer, NEW e \in Element, Push(b, e)
        PROVE  [Owned!Next]_Owned!ownedVars
    <3>1. Owned!Push(b, e) \/ UNCHANGED Owned!ownedVars
      BY <2>3, PushImplements
    <3> QED BY <1>1, <2>1, <3>1 DEF Owned!Next, Owned!Step
  <2>4. ASSUME NEW b \in Buffer, Pop(b) \/ Clear(b) \/ DropBuffer(b)
        PROVE  Owned!Next
    <3>1. Owned!Pop(b) \/ Owned!Clear(b) \/ Owned!DropBuffer(b)
      BY <2>4, PopImplements, ClearImplements, DropBufferImplements
    <3> QED BY <1>1, <2>1, <3>1 DEF Owned!Next, Owned!Step
  <2>5. CASE CloneBegin \/ CloneElement \/ ClonePanics \/ CloneEnd
    <3>1. Owned!CloneBegin \/ Owned!CloneElement \/ Owned!ClonePanics \/ Owned!CloneEnd
      BY <2>5, CloneBeginImplements, CloneElementImplements, ClonePanicsImplements,
         CloneEndImplements
    <3> QED BY <2>1, <3>1 DEF Owned!Next, Owned!Step
  <2> QED BY <1>3, <2>2, <2>3, <2>4, <2>5 DEF Next
<1> QED BY <1>2, <1>3

\* For every capacity, threshold and number of elements, wherever the indices wrap and
\* whatever panics, the buffer and its clone are queues: what a call takes is the oldest,
\* what it adds becomes the newest, a push takes an element only when the queue is full
\* and overwrites, and a clone that is finished is as long as the original.
THEOREM Refinement == Spec => ImplementsOwnedQueue
<1>1. Init => Owned!Init
  BY InitImplements
<1>2. Inv /\ [Next]_vars => [Owned!Next]_Owned!ownedVars
  BY NextImplements
<1> QED BY <1>1, <1>2, Invariance, PTL DEF Spec, ImplementsOwnedQueue, Owned!Spec
=============================================================================
