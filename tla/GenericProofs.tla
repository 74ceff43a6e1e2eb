--------------------------- MODULE GenericProofs ---------------------------
(***************************************************************************)
(* The generic buffer, for every capacity, index width and type of element: *)
(* its slices, its iterators, and that it is a bounded queue call by call. *)
(***************************************************************************)
EXTENDS GenericRing, RingIndexProofs, SequenceTheorems

-----------------------------------------------------------------------------
(* The window between two indices *)

\* What a storage s holds from index r up to index w
Window(s, w, r) == [k \in 1 .. WrapSub(w, r) |-> s[SlotOf(WrapAdd(r, k - 1))]]

\* The slots of a window are slots, each has its own.
LEMMA WindowSlots ==
    ASSUME NEW r \in Index
    PROVE  \A k \in 1 .. Capacity :
              /\ SlotOf(WrapAdd(r, k - 1)) \in Slot
              /\ WrapAdd(r, k - 1) \in Index
              /\ \A l \in 1 .. Capacity :
                    k # l => SlotOf(WrapAdd(r, k - 1)) # SlotOf(WrapAdd(r, l - 1))
<1> SUFFICES ASSUME NEW k \in 1 .. Capacity
    PROVE  /\ SlotOf(WrapAdd(r, k - 1)) \in Slot
           /\ WrapAdd(r, k - 1) \in Index
           /\ \A l \in 1 .. Capacity :
                 k # l => SlotOf(WrapAdd(r, k - 1)) # SlotOf(WrapAdd(r, l - 1))
  OBVIOUS
<1>1. k - 1 \in 0 .. Capacity - 1 /\ k - 1 \in 0 .. Modulus
  BY RingIndexAssumption
<1>2. WrapAdd(r, k - 1) \in Index
  BY <1>1, AddType
<1>3. SlotOf(WrapAdd(r, k - 1)) \in Slot
  BY <1>2, RingIndexAssumption DEF SlotOf, Slot, Index
<1>4. ASSUME NEW l \in 1 .. Capacity, k # l
      PROVE  SlotOf(WrapAdd(r, k - 1)) # SlotOf(WrapAdd(r, l - 1))
  <2>1. l - 1 \in 0 .. Capacity - 1 /\ k - 1 # l - 1
    BY <1>4, RingIndexAssumption
  <2> QED BY <1>1, <2>1, WindowIsInjective
<1> QED BY <1>2, <1>3, <1>4

\* A window is a sequence.
LEMMA WindowIs ==
    ASSUME NEW V, NEW s \in [Slot -> V], NEW w \in Index, NEW r \in Index,
           WrapSub(w, r) <= Capacity
    PROVE  /\ Window(s, w, r) \in Seq(V)
           /\ Len(Window(s, w, r)) = WrapSub(w, r)
           /\ \A k \in 1 .. WrapSub(w, r) :
                 Window(s, w, r)[k] = s[SlotOf(WrapAdd(r, k - 1))]
<1> DEFINE n == WrapSub(w, r)
           e(k) == s[SlotOf(WrapAdd(r, k - 1))]
<1>1. n \in Nat
  BY SubType
<1>2. \A k \in 1 .. n : e(k) \in V
  BY <1>1, WindowSlots, RingIndexAssumption
<1>3. Window(s, w, r) = [k \in 1 .. n |-> e(k)]
  BY DEF Window
<1> HIDE DEF n, e
<1>4. /\ [k \in 1 .. n |-> e(k)] \in Seq(V) /\ Len([k \in 1 .. n |-> e(k)]) = n
      /\ \A k \in 1 .. n : [i \in 1 .. n |-> e(i)][k] = e(k)
  BY <1>1, <1>2
<1> QED BY <1>3, <1>4 DEF n, e

\* Its elements, taken out at the front (pop, pop_slice, a partial overwrite)
LEMMA WindowDrop ==
    ASSUME NEW V, NEW s \in [Slot -> V], NEW w \in Index, NEW r \in Index,
           WrapSub(w, r) <= Capacity, NEW n \in 0 .. WrapSub(w, r)
    PROVE  /\ Window(s, w, WrapAdd(r, n)) = SubSeq(Window(s, w, r), n + 1, WrapSub(w, r))
           /\ WrapAdd(r, n) \in Index
           /\ WrapSub(w, WrapAdd(r, n)) = WrapSub(w, r) - n
<1> DEFINE u == WrapSub(w, r)
           q == Window(s, w, r)
           t == WrapAdd(r, n)
           o == Window(s, w, t)
<1>0. u \in Nat /\ u < Modulus /\ u <= Capacity
  BY SubType
<1>1. u \in Nat /\ u < Modulus /\ n \in Nat /\ n <= u /\ n \in 0 .. Modulus
  <2>1. n \in 0 .. u
    OBVIOUS
  <2> HIDE DEF u
  <2> QED BY <1>0, <2>1, RingIndexAssumption
<1>2. t \in Index
  BY <1>1, AddType
<1>3. WrapSub(w, t) = u - n
  <2>1. n <= WrapSub(w, r)
    BY <1>1
  <2> QED BY <1>1, <2>1, AdvanceBack
<1>4. q \in Seq(V) /\ Len(q) = u /\ \A k \in 1 .. u : q[k] = s[SlotOf(WrapAdd(r, k - 1))]
  BY WindowIs, SMTT(30)
<1>5. /\ o \in Seq(V) /\ Len(o) = u - n
      /\ \A k \in 1 .. u - n : o[k] = s[SlotOf(WrapAdd(t, k - 1))]
  <2>1. u - n <= Capacity
    <3> HIDE DEF u
    <3> QED BY <1>0, <1>1, RingIndexAssumption
  <2> HIDE DEF u, t
  <2>2. /\ Window(s, w, t) \in Seq(V) /\ Len(Window(s, w, t)) = WrapSub(w, t)
        /\ \A k \in 1 .. WrapSub(w, t) : Window(s, w, t)[k] = s[SlotOf(WrapAdd(t, k - 1))]
    BY <1>2, <1>3, <2>1, WindowIs, ZenonT(60)
  <2> QED BY <1>3, <2>2
<1>6. \A k \in 1 .. u - n : WrapAdd(t, k - 1) = WrapAdd(r, (n + k) - 1)
  <2> SUFFICES ASSUME NEW k \in 1 .. u - n PROVE WrapAdd(t, k - 1) = WrapAdd(r, (n + k) - 1)
    OBVIOUS
  <2>1. k - 1 \in Nat /\ n + (k - 1) < Modulus /\ n + (k - 1) = (n + k) - 1
    <3> HIDE DEF u
    <3> QED BY <1>0, <1>1, RingIndexAssumption
  <2> QED BY <1>1, <2>1, AdvanceTwice
<1> HIDE DEF u, q, t, o
<1>7. /\ SubSeq(q, n + 1, u) \in Seq(V)
      /\ Len(SubSeq(q, n + 1, u)) = u - n
      /\ \A k \in 1 .. u - n : SubSeq(q, n + 1, u)[k] = q[n + k]
  <2>1. \A i \in n + 1 .. u : q[i] \in V
    BY <1>1, <1>4, ElementOfSeq
  <2>2. /\ SubSeq(q, n + 1, u) \in Seq(V)
        /\ Len(SubSeq(q, n + 1, u)) = IF n + 1 <= u THEN u - (n + 1) + 1 ELSE 0
        /\ \A k \in 1 .. u - (n + 1) + 1 : SubSeq(q, n + 1, u)[k] = q[n + 1 + k - 1]
    BY <1>1, <2>1, SubSeqProperties
  <2>3. /\ u - (n + 1) + 1 = u - n /\ (~(n + 1 <= u) => u - n = 0)
        /\ \A k \in 1 .. u - n : n + 1 + k - 1 = n + k
    BY <1>1
  <2> QED BY <2>2, <2>3
<1>8. \A k \in 1 .. u - n : o[k] = SubSeq(q, n + 1, u)[k]
  <2> SUFFICES ASSUME NEW k \in 1 .. u - n PROVE o[k] = SubSeq(q, n + 1, u)[k]
    OBVIOUS
  <2>1. n + k \in 1 .. u
    BY <1>1
  <2> QED BY <2>1, <1>4, <1>5, <1>6, <1>7
<1>9. o = SubSeq(q, n + 1, u)
  BY <1>5, <1>7, <1>8, SeqEqual
<1> QED BY <1>2, <1>3, <1>9 DEF o, q, t, u

\* The slots behind a window are those that come next.
LEMMA BehindWindow ==
    ASSUME NEW w \in Index, NEW r \in Index, NEW k \in Nat \ {0},
           WrapSub(w, r) + k <= Capacity
    PROVE  WrapAdd(w, k - 1) = WrapAdd(r, (WrapSub(w, r) + k) - 1)
<1> DEFINE u == WrapSub(w, r)
<1>1. u \in Nat /\ WrapAdd(r, u) = w
  BY SubType, AdvanceByDistance
<1>2. u + k <= Capacity
  OBVIOUS
<1> HIDE DEF u
<1>3. k - 1 \in Nat /\ u + (k - 1) < Modulus /\ u + (k - 1) = (u + k) - 1
  BY <1>1, <1>2, RingIndexAssumption
<1>4. WrapAdd(WrapAdd(r, u), k - 1) = WrapAdd(r, u + (k - 1))
  BY <1>1, <1>3, AdvanceTwice
<1> QED BY <1>1, <1>3, <1>4 DEF u

\* Two storages hold the same in a window.
Agree(z, s, w, r) ==
    \A k \in 1 .. WrapSub(w, r) :
        z[SlotOf(WrapAdd(r, k - 1))] = s[SlotOf(WrapAdd(r, k - 1))]

\* A storage holds the sequence x from index w on.
Shows(z, w, x) == \A k \in 1 .. Len(x) : z[SlotOf(WrapAdd(w, k - 1))] = x[k]

\* A window grows by what is written behind it.
LEMMA WindowExtend ==
    ASSUME NEW V, NEW s \in [Slot -> V], NEW z \in [Slot -> V],
           NEW w \in Index, NEW r \in Index, NEW x \in Seq(V),
           WrapSub(w, r) + Len(x) <= Capacity,
           Agree(z, s, w, r), Shows(z, w, x)
    PROVE  /\ Window(z, WrapAdd(w, Len(x)), r) = Window(s, w, r) \o x
           /\ WrapAdd(w, Len(x)) \in Index
           /\ WrapSub(WrapAdd(w, Len(x)), r) = WrapSub(w, r) + Len(x)
<1> DEFINE u == WrapSub(w, r)
           n == Len(x)
           q == Window(s, w, r)
           t == WrapAdd(w, n)
           o == Window(z, t, r)
<1>1. u \in Nat /\ n \in Nat /\ u + n <= Capacity
  BY SubType, LenProperties
<1>2. /\ \A k \in 1 .. u : z[SlotOf(WrapAdd(r, k - 1))] = s[SlotOf(WrapAdd(r, k - 1))]
      /\ \A k \in 1 .. n : z[SlotOf(WrapAdd(w, k - 1))] = x[k]
      /\ \A k \in 1 .. n : u + k <= Capacity => WrapAdd(w, k - 1) = WrapAdd(r, (u + k) - 1)
  <2>1. \A k \in 1 .. n : k \in Nat \ {0}
    OBVIOUS
  <2> QED BY <2>1, BehindWindow DEF Agree, Shows
<1>3. t \in Index /\ WrapSub(t, r) = u + n
  <2> HIDE DEF u, n
  <2>1. n \in 0 .. Modulus /\ u + n < Modulus
    BY <1>1, RingIndexAssumption
  <2> QED BY <1>1, <2>1, AddType, AdvanceFront DEF u
<1>4. q \in Seq(V) /\ Len(q) = u /\ \A k \in 1 .. u : q[k] = s[SlotOf(WrapAdd(r, k - 1))]
  <2>1. u <= Capacity
    <3> HIDE DEF u, n
    <3> QED BY <1>1, RingIndexAssumption
  <2> QED BY <2>1, WindowIs
<1>5. /\ o \in Seq(V) /\ Len(o) = u + n
      /\ \A k \in 1 .. u + n : o[k] = z[SlotOf(WrapAdd(r, k - 1))]
  <2> HIDE DEF u, n, t
  <2> QED BY <1>1, <1>3, WindowIs
<1> HIDE DEF u, n, q, t, o
<1>6. /\ q \o x \in Seq(V) /\ Len(q \o x) = u + n
      /\ \A k \in 1 .. u + n : (q \o x)[k] = IF k <= u THEN q[k] ELSE x[k - u]
  BY <1>4, ConcatProperties DEF n
<1>7. \A k \in 1 .. u + n : o[k] = (q \o x)[k]
  <2> SUFFICES ASSUME NEW k \in 1 .. u + n PROVE o[k] = (q \o x)[k]
    OBVIOUS
  <2>1. CASE k <= u
    <3>1. k \in 1 .. u
      BY <1>1, <2>1
    <3> QED BY <2>1, <3>1, <1>2, <1>4, <1>5, <1>6
  <2>2. CASE ~(k <= u)
    <3>1. k - u \in 1 .. n /\ u + (k - u) = k /\ u + (k - u) <= Capacity
      BY <1>1, <2>2, RingIndexAssumption
    <3> QED BY <2>2, <3>1, <1>2, <1>5, <1>6
  <2> QED BY <2>1, <2>2
<1>8. o = q \o x
  BY <1>5, <1>6, <1>7, SeqEqual
<1> QED BY <1>3, <1>8 DEF o, q, t, u, n

\* A single write
Put(s, i, v) == [s EXCEPT ![SlotOf(i)] = v]

LEMMA PutType ==
    ASSUME NEW V, NEW s \in [Slot -> V], NEW i \in Index, NEW v \in V
    PROVE  Put(s, i, v) \in [Slot -> V]
BY RingIndexAssumption DEF Put, SlotOf, Slot, Index

LEMMA IndexWrite ==
    ASSUME NEW w \in Index, NEW r \in Index, WrapSub(w, r) < Capacity
    PROVE  WrapAdd(w, 1) \in Index /\ WrapSub(WrapAdd(w, 1), r) = WrapSub(w, r) + 1
<1> DEFINE u == WrapSub(w, r)
<1>1. u \in Nat /\ u < Capacity
  BY SubType
<1> HIDE DEF u
<1>2. 1 \in Nat /\ 1 \in 0 .. Modulus /\ u + 1 < Modulus
  BY <1>1, RingIndexAssumption
<1> QED BY <1>2, AddType, AdvanceFront DEF u

\* By one element (push)
LEMMA WindowWrite ==
    ASSUME NEW V, NEW s \in [Slot -> V], NEW w \in Index, NEW r \in Index, NEW v \in V,
           WrapSub(w, r) < Capacity
    PROVE  Window(Put(s, w, v), WrapAdd(w, 1), r) = Append(Window(s, w, r), v)
<1> DEFINE u == WrapSub(w, r)
           z == [s EXCEPT ![SlotOf(w)] = v]
           x == <<v>>
<1>1. u \in Nat /\ u + 1 <= Capacity
  <2>1. u \in Nat /\ u < Capacity
    BY SubType
  <2> HIDE DEF u
  <2> QED BY <2>1, RingIndexAssumption
<1>2. /\ x \in Seq(V) /\ Len(x) = 1 /\ x[1] = v
  OBVIOUS
<1>3. SlotOf(w) \in Slot /\ z \in [Slot -> V]
  BY RingIndexAssumption DEF SlotOf, Slot, Index
<1>4. WrapAdd(w, 0) = w /\ WrapAdd(r, (u + 1) - 1) = w /\ WrapAdd(w, 1 - 1) = w
  <2>1. WrapAdd(w, 0) = w /\ WrapAdd(r, u) = w
    BY AdvanceByDistance
  <2> HIDE DEF u
  <2>2. (u + 1) - 1 = u /\ 1 - 1 = 0
    BY <1>1
  <2> QED BY <2>1, <2>2
<1>5. Agree(z, s, w, r)
  <2> SUFFICES ASSUME NEW k \in 1 .. u
      PROVE  z[SlotOf(WrapAdd(r, k - 1))] = s[SlotOf(WrapAdd(r, k - 1))]
    BY DEF Agree
  <2> HIDE DEF u, z
  <2>1. k \in 1 .. Capacity /\ u + 1 \in 1 .. Capacity /\ k # u + 1
    BY <1>1, RingIndexAssumption
  <2>2. /\ SlotOf(WrapAdd(r, k - 1)) # SlotOf(WrapAdd(r, (u + 1) - 1))
        /\ SlotOf(WrapAdd(r, k - 1)) \in Slot
    BY <2>1, WindowSlots
  <2> QED BY <2>2, <1>4 DEF z
<1>6. Shows(z, w, x)
  <2> SUFFICES z[SlotOf(WrapAdd(w, 1 - 1))] = v
    BY <1>2 DEF Shows
  <2> QED BY <1>3, <1>4
<1> HIDE DEF z, x, u
<1>7. /\ Window(z, WrapAdd(w, 1), r) = Window(s, w, r) \o x
      /\ WrapAdd(w, 1) \in Index /\ WrapSub(WrapAdd(w, 1), r) = u + 1
  <2>1. WrapSub(w, r) + Len(x) <= Capacity
    BY <1>1, <1>2 DEF u
  <2>2. /\ Window(z, WrapAdd(w, Len(x)), r) = Window(s, w, r) \o x
        /\ WrapAdd(w, Len(x)) \in Index
        /\ WrapSub(WrapAdd(w, Len(x)), r) = WrapSub(w, r) + Len(x)
    <3>1. x \in Seq(V)
      BY <1>2
    <3> QED BY <3>1, <1>3, <1>5, <1>6, <2>1, WindowExtend
  <2> QED BY <1>2, <2>2 DEF u
<1>8. Window(s, w, r) \o x = Append(Window(s, w, r), v)
  <2>1. Window(s, w, r) \in Seq(V)
    <3>1. WrapSub(w, r) <= Capacity
      BY <1>1, RingIndexAssumption DEF u
    <3> QED BY <3>1, WindowIs
  <2> QED BY <2>1, AppendIsConcat DEF x
<1> QED BY <1>3, <1>7, <1>8 DEF z, u, Put

\* copy_from_slice puts the values where single writes would, and nowhere else.
LEMMA CopyInIs ==
    ASSUME NEW V, slot \in [Slot -> V], NEW i \in Index,
           NEW x \in Seq(V), Len(x) <= Capacity
    PROVE  /\ CopyIn(i, x) \in [Slot -> V]
           /\ Shows(CopyIn(i, x), i, x)
           /\ \A k \in Slot :
                 (\A j \in 1 .. Len(x) : SlotOf(WrapAdd(i, j - 1)) # k)
                    => CopyIn(i, x)[k] = slot[k]
<1> DEFINE n == Len(x)
           at(j) == SlotOf(WrapAdd(i, j - 1))
           z == [k \in Slot |-> IF \E j \in 1 .. n : at(j) = k
                                THEN x[CHOOSE j \in 1 .. n : at(j) = k] ELSE slot[k]]
<1>1. n \in Nat /\ \A j \in 1 .. n : x[j] \in V
  BY LenProperties, ElementOfSeq
<1>2. \A j \in 1 .. n : j \in 1 .. Capacity /\ j - 1 \in 0 .. Capacity - 1
  BY <1>1, RingIndexAssumption
<1>3. \A j \in 1 .. n : CopySlot(i, j - 1) = at(j)
  BY <1>2, CopySlotIsSlotOf
<1>4. \A j, l \in 1 .. n : at(j) \in Slot /\ (at(j) = at(l) => j = l)
  BY <1>2, WindowSlots
<1> HIDE DEF n, at
<1>5. CopyIn(i, x) = z
  <2>1. CopyIn(i, x) =
          [k \in Slot |-> IF \E j \in 1 .. n : CopySlot(i, j - 1) = k
                          THEN x[CHOOSE j \in 1 .. n : CopySlot(i, j - 1) = k]
                          ELSE slot[k]]
    BY DEF CopyIn, n
  <2>2. \A k \in Slot :
          /\ (\E j \in 1 .. n : CopySlot(i, j - 1) = k) <=> (\E j \in 1 .. n : at(j) = k)
          /\ (CHOOSE j \in 1 .. n : CopySlot(i, j - 1) = k)
                = (CHOOSE j \in 1 .. n : at(j) = k)
    <3> SUFFICES ASSUME NEW k \in Slot
        PROVE  /\ (\E j \in 1 .. n : CopySlot(i, j - 1) = k)
                    <=> (\E j \in 1 .. n : at(j) = k)
               /\ (CHOOSE j \in 1 .. n : CopySlot(i, j - 1) = k)
                     = (CHOOSE j \in 1 .. n : at(j) = k)
      OBVIOUS
    <3>1. \A j : (j \in 1 .. n /\ CopySlot(i, j - 1) = k) <=> (j \in 1 .. n /\ at(j) = k)
      BY <1>3
    <3>2. (CHOOSE j : j \in 1 .. n /\ CopySlot(i, j - 1) = k)
             = (CHOOSE j : j \in 1 .. n /\ at(j) = k)
      BY <3>1, Zenon
    <3> QED BY <3>1, <3>2, Zenon
  <2> QED BY <2>1, <2>2
<1>6. \A j \in 1 .. n : (CHOOSE l \in 1 .. n : at(l) = at(j)) = j
  BY <1>4
<1>7. \A j \in 1 .. n : z[at(j)] = x[j]
  BY <1>4, <1>6
<1>8. z \in [Slot -> V]
  <2> SUFFICES ASSUME NEW k \in Slot PROVE z[k] \in V
    OBVIOUS
  <2>1. CASE \E j \in 1 .. n : at(j) = k
    BY <2>1, <1>1, <1>7
  <2>2. CASE ~\E j \in 1 .. n : at(j) = k
    BY <2>2
  <2> QED BY <2>1, <2>2
<1>9. \A k \in Slot : (\A j \in 1 .. n : at(j) # k) => z[k] = slot[k]
  OBVIOUS
<1> HIDE DEF z
<1> QED BY <1>5, <1>7, <1>8, <1>9 DEF n, at, Shows

\* A batch written behind a window appears at its end (push_slice).
LEMMA WindowCopyIn ==
    ASSUME NEW V, slot \in [Slot -> V], NEW w \in Index, NEW r \in Index,
           NEW x \in Seq(V), WrapSub(w, r) + Len(x) <= Capacity
    PROVE  /\ Window(CopyIn(w, x), WrapAdd(w, Len(x)), r) = Window(slot, w, r) \o x
           /\ WrapAdd(w, Len(x)) \in Index
           /\ WrapSub(WrapAdd(w, Len(x)), r) = WrapSub(w, r) + Len(x)
<1> DEFINE u == WrapSub(w, r)
           n == Len(x)
           z == CopyIn(w, x)
<1>1. u \in Nat /\ n \in Nat /\ u + n <= Capacity
  BY SubType, LenProperties
<1>2. n <= Capacity
  <2> HIDE DEF u, n
  <2> QED BY <1>1, RingIndexAssumption
<1>3. /\ z \in [Slot -> V] /\ Shows(z, w, x)
      /\ \A k \in Slot : (\A j \in 1 .. n : SlotOf(WrapAdd(w, j - 1)) # k) => z[k] = slot[k]
  BY <1>2, CopyInIs
<1>4. Agree(z, slot, w, r)
  <2> SUFFICES ASSUME NEW k \in 1 .. u
      PROVE  z[SlotOf(WrapAdd(r, k - 1))] = slot[SlotOf(WrapAdd(r, k - 1))]
    BY DEF Agree
  <2> HIDE DEF u, n, z
  <2>1. k \in 1 .. Capacity
    BY <1>1, RingIndexAssumption
  <2>2. ASSUME NEW j \in 1 .. n
        PROVE  SlotOf(WrapAdd(w, j - 1)) # SlotOf(WrapAdd(r, k - 1))
    <3>1. j \in Nat \ {0} /\ u + j <= Capacity /\ u + j \in 1 .. Capacity /\ k # u + j
      BY <1>1, RingIndexAssumption
    <3>2. WrapAdd(w, j - 1) = WrapAdd(r, (u + j) - 1)
      BY <3>1, BehindWindow DEF u
    <3> QED BY <2>1, <3>1, <3>2, WindowSlots
  <2>3. SlotOf(WrapAdd(r, k - 1)) \in Slot
    BY <2>1, WindowSlots
  <2> QED BY <1>3, <2>2, <2>3
<1> QED BY <1>3, <1>4, WindowExtend

\* Nothing is between an index and itself.
LEMMA WindowEmpty ==
    ASSUME NEW s, NEW w \in Index
    PROVE  Window(s, w, w) = << >> /\ WrapSub(w, w) = 0
<1>1. WrapSub(w, w) = 0
  BY SubType
<1> QED BY <1>1 DEF Window

\* What is outside a window does not matter to it (clone).
LEMMA WindowSame ==
    ASSUME NEW s, NEW z, NEW w \in Index, NEW r \in Index, Agree(z, s, w, r)
    PROVE  Window(z, w, r) = Window(s, w, r)
BY DEF Window, Agree

Assigned(q, p, v) == [q EXCEPT ![p] = v]

\* An element is changed where it is.
LEMMA WindowAssign ==
    ASSUME NEW V, NEW s \in [Slot -> V], NEW w \in Index, NEW r \in Index,
           WrapSub(w, r) <= Capacity, NEW p \in 1 .. WrapSub(w, r), NEW v \in V
    PROVE  Window(Put(s, WrapAdd(r, p - 1), v), w, r) = Assigned(Window(s, w, r), p, v)
<1> DEFINE u == WrapSub(w, r)
           at(k) == SlotOf(WrapAdd(r, k - 1))
           z == [s EXCEPT ![at(p)] = v]
<1>1. u \in Nat /\ u <= Capacity /\ p \in 1 .. u
  BY SubType
<1>2. /\ \A k \in 1 .. u : at(k) \in Slot /\ (k # p => at(k) # at(p))
      /\ at(p) \in Slot
  <2> HIDE DEF u
  <2>1. \A k \in 1 .. u : k \in 1 .. Capacity
    BY <1>1, RingIndexAssumption
  <2> QED BY <1>1, <2>1, WindowSlots
<1>3. Window(s, w, r) = [k \in 1 .. u |-> s[at(k)]]
  BY DEF Window
<1>4. Window(z, w, r) = [k \in 1 .. u |-> z[at(k)]]
  BY DEF Window
<1> HIDE DEF u, at
<1>5. z \in [Slot -> V] /\ \A k \in 1 .. u : z[at(k)] = IF k = p THEN v ELSE s[at(k)]
  BY <1>1, <1>2
<1> HIDE DEF z
<1>6. Window(z, w, r) = [Window(s, w, r) EXCEPT ![p] = v]
  BY <1>1, <1>3, <1>4, <1>5
<1> QED BY <1>6 DEF z, at, Put, Assigned

-----------------------------------------------------------------------------
(* The two slices *)

\* A stretch of the storage
LEMMA RawSliceIs ==
    ASSUME NEW a \in Nat, NEW n \in Nat, a + n <= Capacity
    PROVE  /\ RawSlice(a, n) \in Seq(Slot) /\ Len(RawSlice(a, n)) = n
           /\ \A k \in 1 .. n : RawSlice(a, n)[k] = a + k - 1
<1>1. \A k \in 1 .. n : a + k - 1 \in Slot
  BY RingIndexAssumption DEF Slot
<1> QED BY <1>1 DEF RawSlice

\* The slices show the slots of the elements, oldest first, wherever the data lies.
LEMMA SlicesAre ==
    ASSUME writeIdx \in Index, readIdx \in Index, WrapSub(writeIdx, readIdx) <= Capacity
    PROVE  /\ AsSlices \in Seq(Slot) \X Seq(Slot)
           /\ IterSlots \in Seq(Slot)
           /\ Len(IterSlots) = WrapSub(writeIdx, readIdx)
           /\ \A k \in 1 .. WrapSub(writeIdx, readIdx) :
                 IterSlots[k] = SlotOf(WrapAdd(readIdx, k - 1))
<1> DEFINE u == WrapSub(writeIdx, readIdx)
           r == SlotOf(readIdx)
           w == SlotOf(writeIdx)
           at(k) == SlotOf(WrapAdd(readIdx, k - 1))
           Good(a, b) == /\ a \in Seq(Slot) /\ b \in Seq(Slot)
                         /\ Len(a) + Len(b) = u
                         /\ \A k \in 1 .. Len(a) : a[k] = at(k)
                         /\ \A k \in 1 .. Len(b) : b[k] = at(Len(a) + k)
<1>1. u \in Nat /\ u <= Capacity /\ r \in Slot /\ w \in Slot
  <2>1. u \in Nat /\ u <= Capacity
    BY SubType
  <2>2. r \in Slot /\ w \in Slot
    BY RingIndexAssumption DEF SlotOf, Slot, Index
  <2> QED BY <2>1, <2>2
<1>2. \A k \in 1 .. Capacity : at(k) = IF r + k - 1 < Capacity THEN r + k - 1
                                       ELSE r + k - 1 - Capacity
  <2> SUFFICES ASSUME NEW k \in 1 .. Capacity
      PROVE  at(k) = IF r + k - 1 < Capacity THEN r + k - 1 ELSE r + k - 1 - Capacity
    OBVIOUS
  <2>1. k - 1 \in 0 .. Capacity - 1
    BY RingIndexAssumption
  <2>2. at(k) = IF r + (k - 1) < Capacity THEN r + (k - 1) ELSE r + (k - 1) - Capacity
    BY <2>1, SlotOfAdvance
  <2> HIDE DEF at, r
  <2> QED BY <1>1, <2>1, <2>2 DEF Slot
<1>3. u < Capacity => w = IF r + u < Capacity THEN r + u ELSE r + u - Capacity
  <2> SUFFICES ASSUME u < Capacity
      PROVE  w = IF r + u < Capacity THEN r + u ELSE r + u - Capacity
    OBVIOUS
  <2>1. WrapAdd(readIdx, u) = writeIdx
    BY AdvanceByDistance
  <2> HIDE DEF u
  <2>2. u \in 0 .. Capacity - 1
    BY <1>1, RingIndexAssumption
  <2> QED BY <2>1, <2>2, SlotOfAdvance
<1>4. Length = u
  BY <1>1 DEF Length, Least
<1>5. AsSlices =
        IF u = 0 THEN << << >>, << >> >>
        ELSE IF u = Capacity THEN <<RawSlice(r, Capacity - r), RawSlice(0, r)>>
        ELSE IF ~(r < w \/ u = Capacity)
        THEN <<RawSlice(r, Capacity - r), RawSlice(0, u - (Capacity - r))>>
        ELSE <<RawSlice(r, u), << >> >>
  BY <1>4 DEF AsSlices, Wraps
<1> HIDE DEF u, r, w, at
<1>6. \E a, b : AsSlices = <<a, b>> /\ Good(a, b)
  <2>0. << >> \in Seq(Slot) /\ Len(<< >>) = 0
    BY EmptySeq
  <2>1. CASE u = 0
    <3>1. AsSlices = << << >>, << >> >>
      BY <1>5, <2>1
    <3>2. Good(<< >>, << >>)
      BY <2>0, <2>1
    <3> QED BY <3>1, <3>2
  <2>2. CASE u # 0 /\ (u = Capacity \/ ~(r < w))
    <3> DEFINE n == u - (Capacity - r)
               a == RawSlice(r, Capacity - r)
               b == RawSlice(0, n)
    <3>1. r + u >= Capacity /\ n \in Nat /\ n <= r /\ Capacity - r \in Nat /\ r \in Nat
          /\ r < Capacity /\ n <= Capacity
      BY <1>1, <1>3, <2>2, RingIndexAssumption DEF Slot
    <3>2. AsSlices = <<a, b>>
      BY <1>1, <1>5, <2>2, RingIndexAssumption DEF Slot
    <3>3. /\ a \in Seq(Slot) /\ Len(a) = Capacity - r
          /\ \A k \in 1 .. Capacity - r : a[k] = r + k - 1
      <4>1. r + (Capacity - r) <= Capacity
        BY <3>1, RingIndexAssumption
      <4> QED BY <3>1, <4>1, RawSliceIs
    <3>4. /\ b \in Seq(Slot) /\ Len(b) = n
          /\ \A k \in 1 .. n : b[k] = 0 + k - 1
      <4> HIDE DEF n
      <4>1. 0 \in Nat /\ 0 + n <= Capacity
        BY <3>1, RingIndexAssumption
      <4> QED BY <3>1, <4>1, RawSliceIs
    <3> HIDE DEF a, b
    <3>5. \A k \in 1 .. Len(a) : a[k] = at(k)
      BY <1>2, <3>1, <3>3, RingIndexAssumption
    <3>6. \A k \in 1 .. Len(b) : b[k] = at(Len(a) + k)
      <4> SUFFICES ASSUME NEW k \in 1 .. Len(b) PROVE b[k] = at(Len(a) + k)
        OBVIOUS
      <4>1. k \in 1 .. n /\ b[k] = k - 1
        BY <3>4, <3>1
      <4>2. Len(a) + k \in 1 .. Capacity /\ r + (Len(a) + k) - 1 = Capacity + k - 1
        BY <1>1, <3>1, <3>3, <4>1, RingIndexAssumption
      <4>3. ~(Capacity + k - 1 < Capacity) /\ Capacity + k - 1 - Capacity = k - 1
        BY RingIndexAssumption
      <4> DEFINE l == Len(a) + k
      <4>4. l \in 1 .. Capacity /\ r + l - 1 = Capacity + k - 1
        BY <4>2
      <4> HIDE DEF l
      <4>5. at(l) = IF r + l - 1 < Capacity THEN r + l - 1 ELSE r + l - 1 - Capacity
        BY <1>2, <4>4
      <4>6. at(l) = k - 1
        <5>1. k \in 1 .. n /\ r \in Int /\ l \in Int
          BY <3>1, <4>1, <4>4
        <5> HIDE DEF n
        <5> QED BY <4>3, <4>4, <4>5, <5>1, RingIndexAssumption
      <4> QED BY <4>1, <4>6 DEF l
    <3>7. Len(a) + Len(b) = u
      BY <1>1, <3>1, <3>3, <3>4, RingIndexAssumption
    <3> QED BY <3>2, <3>3, <3>4, <3>5, <3>6, <3>7
  <2>3. CASE u # 0 /\ u # Capacity /\ r < w
    <3> DEFINE a == RawSlice(r, u)
    <3>1. r + u < Capacity /\ r \in Nat
      BY <1>1, <1>3, <2>3, RingIndexAssumption DEF Slot
    <3>2. AsSlices = <<a, << >> >>
      BY <1>5, <2>3
    <3>3. /\ a \in Seq(Slot) /\ Len(a) = u
          /\ \A k \in 1 .. u : a[k] = r + k - 1
      BY <1>1, <3>1, RawSliceIs, RingIndexAssumption
    <3> HIDE DEF a
    <3>4. \A k \in 1 .. Len(a) : a[k] = at(k)
      BY <1>1, <1>2, <3>1, <3>3, RingIndexAssumption
    <3>5. Good(a, << >>)
      BY <1>1, <2>0, <3>3, <3>4
    <3> QED BY <3>2, <3>5
  <2> QED BY <2>1, <2>2, <2>3
<1>7. PICK a, b : AsSlices = <<a, b>> /\ Good(a, b)
  BY <1>6
<1>8. AsSlices \in Seq(Slot) \X Seq(Slot) /\ IterSlots = a \o b
  BY <1>7 DEF IterSlots
<1>9. /\ a \o b \in Seq(Slot) /\ Len(a \o b) = u
      /\ \A k \in 1 .. u : (a \o b)[k] = IF k <= Len(a) THEN a[k] ELSE b[k - Len(a)]
  BY <1>7, ConcatProperties
<1>10. ASSUME NEW k \in 1 .. u PROVE (a \o b)[k] = at(k)
  <2>1. Len(a) \in Nat /\ Len(b) \in Nat
    BY <1>7, LenProperties
  <2>2. CASE k <= Len(a)
    <3>1. k \in 1 .. Len(a)
      BY <2>1, <2>2, <1>1
    <3> QED BY <2>2, <3>1, <1>7, <1>9
  <2>3. CASE ~(k <= Len(a))
    <3>1. k - Len(a) \in 1 .. Len(b) /\ Len(a) + (k - Len(a)) = k
      BY <2>1, <2>3, <1>1, <1>7
    <3> QED BY <2>3, <3>1, <1>7, <1>9
  <2> QED BY <2>2, <2>3
<1> QED BY <1>8, <1>9, <1>10 DEF u, at

-----------------------------------------------------------------------------
(* The inductive invariant *)

\* What a slot can hold
Cell == Value \cup {NoValue}

\* What a call must leave behind: indices at most a lap apart, and between them slots
\* that hold elements.
Buffer ==
    /\ slot \in [Slot -> Cell]
    /\ writeIdx \in Index /\ readIdx \in Index
    /\ WrapSub(writeIdx, readIdx) <= Capacity
    /\ Contents \in Seq(Value)
    /\ given \in Seq(Value) /\ count \in 0 .. MaxBatch + Capacity

\* Nothing is lent out without an iterator; while there is one no call answers, and each
\* slot is either left or lent out.
Borrowing ==
    IF left = << >> THEN front = << >> /\ back = << >>
    ELSE /\ given = << >> /\ count = 0
         /\ Len(front) + Len(left[1]) + Len(left[2]) + Len(back) = Len(IterSlots)

Inv == TypeOK /\ Buffer /\ Borrowing /\ IteratorsMeet

\* The elements as a window of the storage
LEMMA QueueIs ==
    ASSUME Buffer
    PROVE  LET u == WrapSub(writeIdx, readIdx)
           IN  /\ u \in Nat /\ u <= Capacity /\ (u = 0 <=> writeIdx = readIdx)
               /\ Contents = Window(slot, writeIdx, readIdx)
               /\ Contents \in Seq(Value) /\ Len(Contents) = u
               /\ \A k \in 1 .. u : /\ Contents[k] = slot[SlotOf(WrapAdd(readIdx, k - 1))]
                                    /\ Contents[k] \in Value
<1>1. Contents = Window(slot, writeIdx, readIdx)
  BY DEF Contents, ReadAt, Window
<1>2. /\ Len(Contents) = WrapSub(writeIdx, readIdx)
      /\ \A k \in 1 .. WrapSub(writeIdx, readIdx) :
            Contents[k] = slot[SlotOf(WrapAdd(readIdx, k - 1))]
  <2>1. slot \in [Slot -> Cell] /\ writeIdx \in Index /\ readIdx \in Index
        /\ WrapSub(writeIdx, readIdx) <= Capacity
    BY DEF Buffer
  <2> QED BY <1>1, <2>1, WindowIs, ZenonT(60)
<1>3. Contents \in Seq(Value)
  BY DEF Buffer
<1>4. \A k \in 1 .. WrapSub(writeIdx, readIdx) : Contents[k] \in Value
  BY <1>2, <1>3, ElementOfSeq
<1> QED BY <1>1, <1>2, <1>3, <1>4, SubType DEF Buffer

\* And after a step
LEMMA NextQueueIs == Contents' = Window(slot', writeIdx', readIdx')
BY DEF Contents, ReadAt, Window

\* What a call has to show for the buffer that it leaves
LEMMA BufferKept ==
    ASSUME slot' \in [Slot -> Cell],
           writeIdx' \in Index, readIdx' \in Index,
           WrapSub(writeIdx', readIdx') <= Capacity,
           Contents' \in Seq(Value),
           given' \in Seq(Value), count' \in 0 .. MaxBatch + Capacity
    PROVE  Buffer'
BY DEF Buffer

-----------------------------------------------------------------------------
(* What each call does to the queue *)

\* A push that finds room
LEMMA PushFits ==
    ASSUME Buffer, NEW v \in Value, ~IsFull,
           slot' = WriteAt(writeIdx, v), writeIdx' = WrapAdd(writeIdx, 1),
           readIdx' = readIdx, given' = << >>, count' = 0
    PROVE  Buffer' /\ Queue!Push(v)
<1> DEFINE u == WrapSub(writeIdx, readIdx)
<1>1. /\ u \in Nat /\ u <= Capacity
      /\ Contents = Window(slot, writeIdx, readIdx)
      /\ Contents \in Seq(Value) /\ Len(Contents) = u
  BY QueueIs
<1>2. /\ slot \in [Slot -> Cell] /\ writeIdx \in Index /\ readIdx \in Index /\ v \in Cell
  BY DEF Buffer, Cell
<1>3. /\ slot' = Put(slot, writeIdx, v) /\ writeIdx' = WrapAdd(writeIdx, 1)
      /\ count' = 0
  BY DEF WriteAt, Put
<1>4. count' \in 0 .. MaxBatch + Capacity
  BY <1>3, GenericAssumption, RingIndexAssumption
<1>5. u < Capacity
  <2>1. ~(u >= Capacity)
    BY DEF IsFull
  <2> HIDE DEF u
  <2> QED BY <1>1, <2>1, RingIndexAssumption
<1>6. readIdx' = readIdx /\ given' = << >>
  OBVIOUS
<1>7. /\ slot' \in [Slot -> Cell]
      /\ Window(slot', writeIdx', readIdx) = Append(Contents, v)
      /\ writeIdx' \in Index /\ WrapSub(writeIdx', readIdx) = u + 1
  <2> DEFINE z == Put(slot, writeIdx, v)
  <2>0. z \in [Slot -> Cell]
    BY <1>2, PutType
  <2>1. Window(z, WrapAdd(writeIdx, 1), readIdx)
           = Append(Window(slot, writeIdx, readIdx), v)
    BY <1>2, <1>5, WindowWrite, ZenonT(60)
  <2>2. slot' = z
    BY <1>3
  <2> HIDE DEF z
  <2>3. WrapAdd(writeIdx, 1) \in Index /\ WrapSub(WrapAdd(writeIdx, 1), readIdx) = u + 1
    BY <1>2, <1>5, IndexWrite
  <2> QED BY <2>3, <1>1, <1>3, <2>0, <2>1, <2>2
<1>8. Contents' = Append(Contents, v)
  BY <1>6, <1>7, NextQueueIs
<1>9. Contents' \in Seq(Value)
  BY <1>1, <1>8, AppendProperties
<1>10. WrapSub(writeIdx', readIdx') <= Capacity
  <2> HIDE DEF u
  <2> QED BY <1>1, <1>5, <1>6, <1>7, RingIndexAssumption
<1>11. given' \in Seq(Value)
  BY <1>6, EmptySeq
<1>12. Buffer'
  BY <1>2, <1>4, <1>6, <1>7, <1>9, <1>10, <1>11, BufferKept
<1>13. Queue!Push(v)
  <2> HIDE DEF u
  <2> QED BY <1>1, <1>3, <1>5, <1>6, <1>8 DEF Queue!Push
<1> QED BY <1>12, <1>13

\* On a full buffer the slot that is written to is the oldest element's, which is given
\* back.
LEMMA PushOverwriteIs ==
    ASSUME Buffer, NEW v \in Value, PushOverwrite(v)
    PROVE  Buffer' /\ Queue!Push(v)
<1> DEFINE u == WrapSub(writeIdx, readIdx)
<1>1. /\ u \in Nat /\ u <= Capacity
      /\ Contents = Window(slot, writeIdx, readIdx)
      /\ Contents \in Seq(Value) /\ Len(Contents) = u
  BY QueueIs
<1>2. /\ slot \in [Slot -> Cell] /\ writeIdx \in Index /\ readIdx \in Index /\ v \in Cell
  BY DEF Buffer, Cell
<1>3. /\ slot' = Put(slot, writeIdx, v) /\ writeIdx' = WrapAdd(writeIdx, 1)
      /\ count' = 0 /\ overwrite
  BY DEF PushOverwrite, WriteAt, Put
<1>4. count' \in 0 .. MaxBatch + Capacity
  BY <1>3, GenericAssumption, RingIndexAssumption
<1>5. CASE ~IsFull
  BY <1>5, PushFits DEF PushOverwrite
<1>6. CASE IsFull
  <2> DEFINE t == WrapAdd(readIdx, 1)
  <2>1. u = Capacity /\ 1 \in 0 .. u /\ u - 1 < Capacity /\ (u - 1) + 1 <= Capacity
        /\ 1 \in 1 .. u
    <3>1. u >= Capacity
      BY <1>6 DEF IsFull
    <3> HIDE DEF u
    <3> QED BY <1>1, <3>1, RingIndexAssumption
  <2>2. readIdx' = t /\ given' = <<slot[SlotOf(writeIdx)]>>
    BY <1>6 DEF PushOverwrite, ReadAt
  <2>3. /\ Window(slot, writeIdx, t) = SubSeq(Contents, 2, u)
        /\ t \in Index /\ WrapSub(writeIdx, t) = u - 1
    <3>1. /\ Window(slot, writeIdx, t)
               = SubSeq(Window(slot, writeIdx, readIdx), 1 + 1, WrapSub(writeIdx, readIdx))
          /\ t \in Index /\ WrapSub(writeIdx, t) = WrapSub(writeIdx, readIdx) - 1
      <4>1. u <= Capacity /\ 1 \in 0 .. u
        BY <1>1, <2>1
      <4> QED BY <1>2, <4>1, WindowDrop
    <3> QED BY <1>1, <3>1
  <2>4. SubSeq(Contents, 2, u) = Tail(Contents) /\ Tail(Contents) \in Seq(Value)
        /\ Head(Contents) = Contents[1] /\ Contents # << >>
    <3>1. Contents # << >>
      <4> HIDE DEF u
      <4> QED BY <1>1, <2>1, RingIndexAssumption, EmptySeq
    <3> QED BY <1>1, <3>1, TailIsSubSeq, HeadTailProperties
  <2> HIDE DEF t
  <2>5. /\ slot' \in [Slot -> Cell]
        /\ Window(slot', writeIdx', t) = Append(Tail(Contents), v)
        /\ writeIdx' \in Index /\ WrapSub(writeIdx', t) = (u - 1) + 1
    <3> DEFINE z == Put(slot, writeIdx, v)
    <3>1. WrapSub(writeIdx, t) < Capacity
      BY <2>1, <2>3
    <3>0. z \in [Slot -> Cell]
      BY <1>2, PutType
    <3>2. Window(z, WrapAdd(writeIdx, 1), t) = Append(Window(slot, writeIdx, t), v)
      <4>1. t \in Index
        BY <2>3
      <4> QED BY <1>2, <3>1, <4>1, WindowWrite
    <3>4. WrapAdd(writeIdx, 1) \in Index
          /\ WrapSub(WrapAdd(writeIdx, 1), t) = WrapSub(writeIdx, t) + 1
      BY <1>2, <2>3, <3>1, IndexWrite
    <3>3. slot' = z
      BY <1>3
    <3> HIDE DEF z
    <3> QED BY <1>3, <2>3, <2>4, <3>0, <3>2, <3>3, <3>4
  <2>6. Contents' = Append(Tail(Contents), v)
    BY <2>2, <2>5, NextQueueIs
  <2>7. Contents' \in Seq(Value)
    BY <2>4, <2>6, AppendProperties
  <2>8. slot[SlotOf(writeIdx)] = Contents[1] /\ Contents[1] \in Value
    <3>1. Contents[1] = slot[SlotOf(WrapAdd(readIdx, 1 - 1))] /\ Contents[1] \in Value
      BY <2>1, QueueIs
    <3>2. WrapAdd(readIdx, 1 - 1) = readIdx /\ WrapAdd(readIdx, u) = writeIdx
      BY <1>2, AdvanceByDistance
    <3>3. SlotOf(writeIdx) = SlotOf(readIdx)
      BY <1>2, <2>1, <3>2, LapSlot
    <3> QED BY <3>1, <3>2, <3>3
  <2>9. given' \in Seq(Value)
    BY <2>2, <2>8
  <2>10. Buffer'
    BY <1>4, <2>1, <2>2, <2>3, <2>5, <2>7, <2>9, BufferKept
  <2>11. Queue!Push(v)
    <3> HIDE DEF u
    <3>1. ~(Len(Contents) < Capacity)
      BY <1>1, <2>1
    <3> QED BY <3>1, <1>3, <2>2, <2>4, <2>6, <2>8 DEF Queue!Push
  <2> QED BY <2>10, <2>11
<1> QED BY <1>5, <1>6

\* A full buffer gives the value back and stays as it is.
LEMMA PushRejectIs ==
    ASSUME Buffer, NEW v \in Value, PushReject(v)
    PROVE  Buffer' /\ Queue!Push(v)
<1>1. CASE ~IsFull
  BY <1>1, PushFits DEF PushReject
<1>2. CASE IsFull
  <2> DEFINE u == WrapSub(writeIdx, readIdx)
  <2>1. /\ u \in Nat /\ u <= Capacity /\ Len(Contents) = u
        /\ u >= Capacity
    BY <1>2, QueueIs DEF IsFull
  <2>2. /\ given' = <<v>> /\ count' = 0 /\ ~overwrite
        /\ slot' = slot /\ writeIdx' = writeIdx /\ readIdx' = readIdx
    BY <1>2 DEF PushReject
  <2>3. Contents' = Contents
    BY <2>2 DEF Contents, ReadAt
  <2>4. Buffer'
    <3>1. given' \in Seq(Value) /\ count' \in 0 .. MaxBatch + Capacity
      BY <2>2, GenericAssumption, RingIndexAssumption
    <3> QED BY <2>2, <2>3, <3>1 DEF Buffer
  <2>5. ~(Len(Contents) < Capacity)
    <3> HIDE DEF u
    <3> QED BY <2>1, RingIndexAssumption
  <2> QED BY <2>2, <2>3, <2>4, <2>5 DEF Queue!Push
<1> QED BY <1>1, <1>2

\* What is copied out is the front of the queue.
LEMMA FrontIs ==
    ASSUME Buffer, NEW n \in 0 .. WrapSub(writeIdx, readIdx)
    PROVE  /\ CopyOut(readIdx, n) = SubSeq(Contents, 1, n)
           /\ SubSeq(Contents, 1, n) \in Seq(Value)
           /\ Len(SubSeq(Contents, 1, n)) = n
<1> DEFINE u == WrapSub(writeIdx, readIdx)
           e(k) == slot[CopySlot(readIdx, k - 1)]
           f == SubSeq(Contents, 1, n)
<1>1. /\ u \in Nat /\ u <= Capacity /\ n \in 0 .. u
      /\ \A k \in 1 .. u : /\ Contents[k] = slot[SlotOf(WrapAdd(readIdx, k - 1))]
                           /\ Contents[k] \in Value
  BY QueueIs
<1>2. readIdx \in Index
  BY DEF Buffer
<1>3. n \in Nat /\ \A k \in 1 .. n : k \in 1 .. u /\ k - 1 \in 0 .. Capacity - 1
  <2> HIDE DEF u
  <2> QED BY <1>1, RingIndexAssumption
<1>4. \A k \in 1 .. n : e(k) = Contents[k] /\ e(k) \in Value
  BY <1>1, <1>2, <1>3, CopySlotIsSlotOf
<1> HIDE DEF e, u
<1>5. /\ f \in Seq(Value) /\ Len(f) = n
      /\ \A k \in 1 .. n : f[k] = Contents[k]
  <2>1. 1 \in Int /\ n \in Int /\ \A k \in 1 .. n : Contents[k] \in Value
    BY <1>3, <1>4
  <2>2. /\ f \in Seq(Value) /\ Len(f) = IF 1 <= n THEN n - 1 + 1 ELSE 0
        /\ \A k \in 1 .. n - 1 + 1 : f[k] = Contents[1 + k - 1]
    BY <2>1, SubSeqProperties
  <2> HIDE DEF f
  <2>3. /\ (IF 1 <= n THEN n - 1 + 1 ELSE 0) = n /\ n - 1 + 1 = n
        /\ \A k \in 1 .. n : 1 + k - 1 = k
    BY <1>3
  <2> QED BY <2>2, <2>3
<1>6. CopyOut(readIdx, n) = [k \in 1 .. n |-> e(k)]
  BY DEF CopyOut, e
<1>7. /\ [k \in 1 .. n |-> e(k)] \in Seq(Value) /\ Len([k \in 1 .. n |-> e(k)]) = n
      /\ \A k \in 1 .. n : [i \in 1 .. n |-> e(i)][k] = e(k)
  BY <1>3, <1>4
<1> HIDE DEF f
<1>8. CopyOut(readIdx, n) = f
  <2> DEFINE c == CopyOut(readIdx, n)
  <2>1. c \in Seq(Value) /\ Len(c) = n /\ \A k \in 1 .. n : c[k] = f[k]
    BY <1>4, <1>5, <1>6, <1>7
  <2> HIDE DEF c
  <2>2. c = f
    BY <1>5, <2>1, SeqEqual
  <2> QED BY <2>2 DEF c
<1> QED BY <1>5, <1>8 DEF f

\* When read_idx moves on, the rest of the queue remains.
LEMMA RestRemains ==
    ASSUME Buffer, NEW n \in 0 .. WrapSub(writeIdx, readIdx),
           slot' = slot, writeIdx' = writeIdx, readIdx' = WrapAdd(readIdx, n),
           given' \in Seq(Value), count' \in 0 .. MaxBatch + Capacity
    PROVE  Buffer' /\ Contents' = SubSeq(Contents, n + 1, Len(Contents))
<1> DEFINE u == WrapSub(writeIdx, readIdx)
           t == WrapAdd(readIdx, n)
           q == SubSeq(Contents, n + 1, u)
<1>1. /\ u \in Nat /\ u <= Capacity /\ n \in 0 .. u /\ Len(Contents) = u
      /\ \A k \in 1 .. u : Contents[k] \in Value
  BY QueueIs
<1>2. slot \in [Slot -> Cell] /\ writeIdx \in Index /\ readIdx \in Index
  BY DEF Buffer
<1>3. /\ Window(slot, writeIdx, t) = SubSeq(Window(slot, writeIdx, readIdx), n + 1, u)
      /\ t \in Index /\ WrapSub(writeIdx, t) = u - n
  BY <1>1, <1>2, WindowDrop, ZenonT(60)
<1>4. Contents' = q
  <2>1. Contents = Window(slot, writeIdx, readIdx) /\ Contents' = Window(slot', writeIdx', readIdx')
    BY QueueIs, NextQueueIs
  <2>2. slot' = slot /\ writeIdx' = writeIdx /\ readIdx' = t
    OBVIOUS
  <2> HIDE DEF t, u
  <2> QED BY <1>3, <2>1, <2>2
<1>5. q \in Seq(Value)
  <2> HIDE DEF u
  <2>1. n + 1 \in Int /\ u \in Int /\ \A k \in n + 1 .. u : Contents[k] \in Value
    BY <1>1
  <2> QED BY <2>1, SubSeqProperties
<1>6. WrapSub(writeIdx', readIdx') <= Capacity
  <2>1. WrapSub(writeIdx', readIdx') = u - n
    BY <1>3
  <2> HIDE DEF u
  <2> QED BY <1>1, <2>1, RingIndexAssumption
<1>7. Buffer'
  <2>1. slot' \in [Slot -> Cell] /\ writeIdx' \in Index /\ readIdx' \in Index
    BY <1>2, <1>3
  <2>2. Contents' \in Seq(Value)
    BY <1>4, <1>5
  <2> QED BY <1>6, <2>1, <2>2, BufferKept
<1> QED BY <1>1, <1>4, <1>7

LEMMA PopSliceIs ==
    ASSUME Buffer, NEW n \in 1 .. MaxBatch, PopSlice(n)
    PROVE  Buffer' /\ Queue!PopSlice(n)
<1> DEFINE u == WrapSub(writeIdx, readIdx)
           m == IF n <= u THEN n ELSE u
<1>1. /\ u \in Nat /\ u <= Capacity /\ Len(Contents) = u
  BY QueueIs
<1>2. Least(Length, n) = m /\ m \in 0 .. u /\ m \in 0 .. MaxBatch + Capacity
  <2>1. Length = u
    BY <1>1 DEF Length, Least
  <2>2. n \in Nat /\ n <= MaxBatch /\ MaxBatch \in Nat
    BY GenericAssumption
  <2> HIDE DEF u
  <2>3. m \in 0 .. u /\ m \in 0 .. MaxBatch + Capacity
    BY <1>1, <2>2, RingIndexAssumption
  <2>4. Least(u, n) = m
    BY <1>1, <2>2 DEF Least
  <2> QED BY <2>1, <2>3, <2>4
<1>3. /\ given' = CopyOut(readIdx, m) /\ count' = m /\ readIdx' = WrapAdd(readIdx, m)
      /\ slot' = slot /\ writeIdx' = writeIdx
  <2> HIDE DEF m
  <2> QED BY <1>2 DEF PopSlice
<1>4. /\ CopyOut(readIdx, m) = SubSeq(Contents, 1, m)
      /\ SubSeq(Contents, 1, m) \in Seq(Value)
      /\ Len(SubSeq(Contents, 1, m)) = m
  <2> HIDE DEF m
  <2> QED BY <1>2, FrontIs
<1>5. Queue!Smaller(n, Len(Contents)) = m
  BY <1>1 DEF Queue!Smaller
<1> HIDE DEF m
<1>6. Buffer' /\ Contents' = SubSeq(Contents, m + 1, Len(Contents))
  BY <1>2, <1>3, <1>4, RestRemains
<1>7. Queue!PopSlice(n)
  BY <1>3, <1>4, <1>5, <1>6 DEF Queue!PopSlice, Queue!Front, Queue!Rest
<1> QED BY <1>6, <1>7

\* What the first element is
LEMMA FirstIs ==
    ASSUME Buffer
    PROVE  /\ Queue!Front(Contents, Queue!Smaller(1, Len(Contents)))
                = IF IsEmpty THEN << >> ELSE <<ReadAt(readIdx)>>
           /\ ~IsEmpty => ReadAt(readIdx) \in Value
           /\ Len(Contents) = WrapSub(writeIdx, readIdx)
           /\ IsEmpty <=> Len(Contents) = 0
<1> DEFINE u == WrapSub(writeIdx, readIdx)
<1>1. /\ u \in Nat /\ u <= Capacity /\ Len(Contents) = u /\ (u = 0 <=> writeIdx = readIdx)
      /\ \A k \in 1 .. u : /\ Contents[k] = slot[SlotOf(WrapAdd(readIdx, k - 1))]
                           /\ Contents[k] \in Value
  BY QueueIs
<1>2. IsEmpty <=> u = 0
  BY <1>1 DEF IsEmpty
<1> HIDE DEF u
<1>3. CASE u = 0
  <2>1. Queue!Smaller(1, Len(Contents)) = 0
    BY <1>1, <1>3 DEF Queue!Smaller
  <2>2. SubSeq(Contents, 1, 0) = << >>
    BY SubSeqEmpty
  <2> QED BY <1>1, <1>2, <1>3, <2>1, <2>2 DEF Queue!Front, u
<1>4. CASE u # 0
  <2>1. Queue!Smaller(1, Len(Contents)) = 1 /\ 1 \in 1 .. u /\ 1 \in 0 .. u
    BY <1>1, <1>4 DEF Queue!Smaller
  <2>2. /\ SubSeq(Contents, 1, 1) \in Seq(Value) /\ Len(SubSeq(Contents, 1, 1)) = 1
        /\ SubSeq(Contents, 1, 1)[1] = Contents[1]
    <3>1. \A i \in 1 .. 1 : Contents[i] \in Value
      BY <1>1, <2>1
    <3>2. /\ SubSeq(Contents, 1, 1) \in Seq(Value)
          /\ Len(SubSeq(Contents, 1, 1)) = IF 1 <= 1 THEN 1 - 1 + 1 ELSE 0
          /\ \A i \in 1 .. 1 - 1 + 1 : SubSeq(Contents, 1, 1)[i] = Contents[1 + i - 1]
      BY <3>1, SubSeqProperties
    <3> QED BY <3>2
  <2>3. Contents[1] = ReadAt(readIdx) /\ Contents[1] \in Value
    <3>1. Contents[1] = slot[SlotOf(WrapAdd(readIdx, 1 - 1))] /\ Contents[1] \in Value
      BY <1>1, <2>1
    <3>2. WrapAdd(readIdx, 1 - 1) = readIdx
      BY AdvanceByDistance DEF Buffer
    <3> QED BY <3>1, <3>2 DEF ReadAt
  <2>4. SubSeq(Contents, 1, 1) = <<ReadAt(readIdx)>>
    <3> DEFINE f == SubSeq(Contents, 1, 1)
               g == <<ReadAt(readIdx)>>
    <3>1. f \in Seq(Value) /\ Len(f) = 1 /\ f[1] = ReadAt(readIdx)
      BY <2>2, <2>3
    <3>2. g \in Seq(Value) /\ Len(g) = 1 /\ g[1] = ReadAt(readIdx)
      BY <2>3
    <3> HIDE DEF f, g
    <3>3. f = g
      BY <3>1, <3>2, SeqEqual
    <3> QED BY <3>3 DEF f, g
  <2> QED BY <1>1, <1>2, <1>4, <2>1, <2>3, <2>4 DEF Queue!Front, u
<1> QED BY <1>3, <1>4

LEMMA PopIs ==
    ASSUME Buffer, Pop
    PROVE  Buffer' /\ Queue!Pop
<1> DEFINE u == WrapSub(writeIdx, readIdx)
           n == IF IsEmpty THEN 0 ELSE 1
<1>1. /\ u \in Nat /\ u <= Capacity /\ Len(Contents) = u /\ (u = 0 <=> IsEmpty)
  BY QueueIs DEF IsEmpty
<1>2. n \in 0 .. u
  <2> HIDE DEF u
  <2> QED BY <1>1
<1>3. /\ given' = Queue!Front(Contents, Queue!Smaller(1, Len(Contents)))
      /\ given' \in Seq(Value) /\ Len(given') = n
  <2>1. given' = IF IsEmpty THEN << >> ELSE <<ReadAt(readIdx)>>
    BY DEF Pop
  <2>2. ~IsEmpty => <<ReadAt(readIdx)>> \in Seq(Value) /\ Len(<<ReadAt(readIdx)>>) = 1
    BY FirstIs
  <2>3. << >> \in Seq(Value) /\ Len(<< >>) = 0
    BY EmptySeq
  <2> QED BY <2>1, <2>2, <2>3, FirstIs
<1>4. slot' = slot /\ writeIdx' = writeIdx /\ count' = 0 /\ readIdx' = WrapAdd(readIdx, n)
  <2>1. WrapAdd(readIdx, 0) = readIdx
    BY AdvanceByDistance DEF Buffer
  <2> QED BY <2>1 DEF Pop
<1>5. count' \in 0 .. MaxBatch + Capacity
  BY <1>4, GenericAssumption, RingIndexAssumption
<1> HIDE DEF n
<1>6. Buffer' /\ Contents' = SubSeq(Contents, n + 1, Len(Contents))
  BY <1>2, <1>3, <1>4, <1>5, RestRemains
<1> QED BY <1>3, <1>4, <1>6 DEF Queue!Pop, Queue!Rest

\* What only looks
LEMMA Unchanged ==
    ASSUME Buffer, UNCHANGED <<slot, writeIdx, readIdx>>,
           given' \in Seq(Value), count' \in 0 .. MaxBatch + Capacity
    PROVE  Buffer' /\ Contents' = Contents
<1>1. Contents' = Contents
  BY DEF Contents, ReadAt
<1> QED BY <1>1 DEF Buffer

LEMMA PeekIs ==
    ASSUME Buffer, Peek
    PROVE  Buffer' /\ Queue!Peek
<1>1. /\ given' = Queue!Front(Contents, Queue!Smaller(1, Len(Contents)))
      /\ given' \in Seq(Value) /\ count' = 0
  BY FirstIs, EmptySeq DEF Peek
<1>2. count' \in 0 .. MaxBatch + Capacity
  BY <1>1, GenericAssumption, RingIndexAssumption
<1>3. Buffer' /\ Contents' = Contents
  BY <1>1, <1>2, Unchanged DEF Peek
<1> QED BY <1>1, <1>3 DEF Queue!Peek

LEMMA QueryLengthIs ==
    ASSUME Buffer, QueryLength
    PROVE  Buffer' /\ Queue!Length
<1>1. Length = Len(Contents) /\ Len(Contents) \in 0 .. MaxBatch + Capacity
  <2> DEFINE u == WrapSub(writeIdx, readIdx)
  <2>1. u \in Nat /\ u <= Capacity /\ Len(Contents) = u
    BY QueueIs
  <2>2. Length = u
    BY <2>1 DEF Length, Least
  <2> HIDE DEF u
  <2>3. u \in 0 .. MaxBatch + Capacity
    BY <2>1, GenericAssumption, RingIndexAssumption
  <2> QED BY <2>1, <2>2, <2>3
<1>2. given' = << >> /\ count' = Len(Contents)
  BY <1>1 DEF QueryLength
<1>3. Buffer' /\ Contents' = Contents
  BY <1>1, <1>2, Unchanged, EmptySeq DEF QueryLength
<1> QED BY <1>2, <1>3 DEF Queue!Length

\* Nothing is asked for: as a pop_slice of no elements
LEMMA NothingIs ==
    ASSUME Buffer, UNCHANGED <<slot, writeIdx, readIdx>>, given' = << >>, count' = 0
    PROVE  Buffer' /\ Queue!PopSlice(0)
<1>1. given' \in Seq(Value) /\ count' \in 0 .. MaxBatch + Capacity
  BY EmptySeq, GenericAssumption, RingIndexAssumption
<1>2. Buffer' /\ Contents' = Contents
  BY <1>1, Unchanged
<1>3. Contents \in Seq(Value) /\ Len(Contents) \in Nat
  BY LenProperties DEF Buffer
<1>4. Queue!Smaller(0, Len(Contents)) = 0
  BY <1>3 DEF Queue!Smaller
<1>5. SubSeq(Contents, 1, 0) = << >> /\ SubSeq(Contents, 0 + 1, Len(Contents)) = Contents
  BY <1>3, SubSeqEmpty, SubSeqFull
<1>6. Len(given') = 0
  BY EmptySeq
<1> QED BY <1>2, <1>4, <1>5, <1>6 DEF Queue!PopSlice, Queue!Front, Queue!Rest

LEMMA ClearIs ==
    ASSUME Buffer, Clear
    PROVE  Buffer' /\ Queue!Clear
<1>1. /\ readIdx' = writeIdx /\ writeIdx' = writeIdx /\ slot' = slot
      /\ given' = << >> /\ count' = 0
  BY DEF Clear
<1>2. given' \in Seq(Value) /\ count' \in 0 .. MaxBatch + Capacity
  BY <1>1, EmptySeq, GenericAssumption, RingIndexAssumption
<1>3. writeIdx \in Index /\ slot' \in [Slot -> Cell]
  BY <1>1 DEF Buffer
<1>4. Contents' = << >> /\ WrapSub(writeIdx', readIdx') = 0
  BY <1>1, <1>3, NextQueueIs, WindowEmpty
<1>5. Contents' \in Seq(Value) /\ WrapSub(writeIdx', readIdx') <= Capacity
  BY <1>4, EmptySeq, RingIndexAssumption
<1>6. Buffer'
  BY <1>1, <1>2, <1>3, <1>5, BufferKept
<1> QED BY <1>1, <1>4, <1>6 DEF Queue!Clear

\* The elements are in the clone, in the same places: the owner sees no difference.
LEMMA CloneSelfIs ==
    ASSUME Buffer, CloneSelf
    PROVE  Buffer' /\ UNCHANGED <<Contents, given, count>>
<1> DEFINE u == WrapSub(writeIdx, readIdx)
<1>1. /\ writeIdx' = writeIdx /\ readIdx' = readIdx /\ given' = given /\ count' = count
      /\ slot' = [k \in Slot |-> IF \E n \in 0 .. u - 1 : SlotOf(WrapAdd(readIdx, n)) = k
                                 THEN slot[k] ELSE NoValue]
  BY DEF CloneSelf
<1>2. /\ slot \in [Slot -> Cell] /\ writeIdx \in Index /\ readIdx \in Index
  BY DEF Buffer
<1>3. u \in Nat /\ u <= Capacity
  BY QueueIs
<1>4. \A k \in 1 .. u : SlotOf(WrapAdd(readIdx, k - 1)) \in Slot /\ k - 1 \in 0 .. u - 1
  <2> HIDE DEF u
  <2>1. \A k \in 1 .. u : k \in 1 .. Capacity /\ k - 1 \in 0 .. u - 1
    BY <1>3, RingIndexAssumption
  <2> QED BY <1>2, <2>1, WindowSlots
<1> HIDE DEF u
<1>5. Agree(slot', slot, writeIdx, readIdx)
  <2> SUFFICES ASSUME NEW k \in 1 .. u
      PROVE  slot'[SlotOf(WrapAdd(readIdx, k - 1))] = slot[SlotOf(WrapAdd(readIdx, k - 1))]
    BY DEF Agree, u
  <2> DEFINE i == SlotOf(WrapAdd(readIdx, k - 1))
  <2>1. i \in Slot /\ \E n \in 0 .. u - 1 : SlotOf(WrapAdd(readIdx, n)) = i
    BY <1>4
  <2> HIDE DEF i
  <2>2. slot'[i] = slot[i]
    BY <1>1, <2>1
  <2> QED BY <2>2 DEF i
<1>6. Contents' = Contents
  <2>1. Contents = Window(slot, writeIdx, readIdx) /\ Contents' = Window(slot', writeIdx', readIdx')
    BY QueueIs, NextQueueIs
  <2>2. Window(slot', writeIdx, readIdx) = Window(slot, writeIdx, readIdx)
    BY <1>2, <1>5, WindowSame
  <2> QED BY <1>1, <2>1, <2>2
<1>7. slot' \in [Slot -> Cell]
  BY <1>1, <1>2 DEF Cell
<1>8. Buffer'
  BY <1>1, <1>6, <1>7 DEF Buffer
<1> QED BY <1>1, <1>6, <1>8

\* An element is assigned to through the slices or an iterator.
LEMMA AssignIs ==
    ASSUME Buffer, NEW p \in 1 .. Len(IterSlots), NEW v \in Value,
           slot' = [slot EXCEPT ![IterSlots[p]] = v],
           writeIdx' = writeIdx, readIdx' = readIdx, given' = << >>, count' = 0
    PROVE  Buffer' /\ Queue!Assign(p, v) /\ p \in 1 .. Capacity
<1> DEFINE u == WrapSub(writeIdx, readIdx)
           i == WrapAdd(readIdx, p - 1)
<1>1. /\ u \in Nat /\ u <= Capacity /\ Len(Contents) = u
      /\ Contents = Window(slot, writeIdx, readIdx) /\ Contents \in Seq(Value)
  BY QueueIs
<1>2. /\ slot \in [Slot -> Cell] /\ writeIdx \in Index /\ readIdx \in Index /\ v \in Cell
  BY DEF Buffer, Cell
<1>3. /\ Len(IterSlots) = u
      /\ \A k \in 1 .. u : IterSlots[k] = SlotOf(WrapAdd(readIdx, k - 1))
  BY <1>1, <1>2, SlicesAre
<1>4. p \in 1 .. u
  BY <1>3
<1>5. IterSlots[p] = SlotOf(i)
  BY <1>3, <1>4
<1>6. p \in 1 .. Capacity
  <2> HIDE DEF u
  <2> QED BY <1>1, <1>4, RingIndexAssumption
<1>7. i \in Index
  BY <1>2, <1>6, WindowSlots
<1>8. slot' = Put(slot, i, v)
  <2> HIDE DEF i
  <2> QED BY <1>5 DEF Put
<1>9. slot' \in [Slot -> Cell]
  <2> HIDE DEF i
  <2>1. Put(slot, i, v) \in [Slot -> Cell]
    BY <1>2, <1>7, PutType
  <2> QED BY <1>8, <2>1
<1>10. Contents' = [Contents EXCEPT ![p] = v]
  <2>1. Window(Put(slot, i, v), writeIdx, readIdx)
          = Assigned(Window(slot, writeIdx, readIdx), p, v)
    <3>1. WrapSub(writeIdx, readIdx) <= Capacity
      BY <1>1
    <3> QED BY <1>2, <1>4, <3>1, WindowAssign
  <2> HIDE DEF i, u
  <2> QED BY <1>1, <1>8, <2>1, NextQueueIs DEF Assigned
<1>11. Contents' \in Seq(Value)
  BY <1>1, <1>4, <1>10, ExceptSeq
<1>12. Buffer'
  <2>1. given' \in Seq(Value) /\ count' \in 0 .. MaxBatch + Capacity
    BY EmptySeq, GenericAssumption, RingIndexAssumption
  <2> QED BY <1>1, <1>2, <1>9, <1>11, <2>1 DEF Buffer
<1>13. Queue!Assign(p, v)
  BY <1>1, <1>4, <1>10 DEF Queue!Assign
<1> QED BY <1>6, <1>12, <1>13

-----------------------------------------------------------------------------
(* Slices are pushed. *)

LEMMA BatchIs ==
    ASSUME NEW values \in Batch
    PROVE  values \in Seq(Value) /\ Len(values) \in Nat /\ Len(values) <= MaxBatch
<1>1. PICK n \in 0 .. MaxBatch : values \in [1 .. n -> Value]
  BY DEF Batch
<1> QED BY <1>1, GenericAssumption

\* A batch that fits behind a window of elements makes the queue of both.
LEMMA SliceFits ==
    ASSUME Buffer, NEW w \in Index, NEW r \in Index, NEW x \in Seq(Value),
           WrapSub(w, r) + Len(x) <= Capacity,
           Window(slot, w, r) \in Seq(Value),
           slot' = CopyIn(w, x), writeIdx' = WrapAdd(w, Len(x)), readIdx' = r,
           given' = << >>, count' \in 0 .. MaxBatch + Capacity
    PROVE  Buffer' /\ Contents' = Window(slot, w, r) \o x
<1> DEFINE z == CopyIn(w, x)
           t == WrapAdd(w, Len(x))
<1>1. slot \in [Slot -> Cell] /\ x \in Seq(Cell)
  <2>1. Value \subseteq Cell
    BY DEF Cell
  <2> QED BY <2>1, SeqMonotonic DEF Buffer
<1>2. /\ z \in [Slot -> Cell]
      /\ Window(z, t, r) = Window(slot, w, r) \o x
      /\ t \in Index /\ WrapSub(t, r) = WrapSub(w, r) + Len(x)
  <2>1. Len(x) <= Capacity
    <3> DEFINE u == WrapSub(w, r)
               n == Len(x)
    <3>1. u \in Nat /\ n \in Nat /\ u + n <= Capacity
      BY SubType, LenProperties
    <3>2. n <= Capacity
      <4> HIDE DEF u, n
      <4> QED BY <3>1, RingIndexAssumption
    <3> QED BY <3>2
  <2>2. CopyIn(w, x) \in [Slot -> Cell]
    BY <1>1, <2>1, CopyInIs
  <2>3. /\ Window(CopyIn(w, x), WrapAdd(w, Len(x)), r) = Window(slot, w, r) \o x
        /\ WrapAdd(w, Len(x)) \in Index
        /\ WrapSub(WrapAdd(w, Len(x)), r) = WrapSub(w, r) + Len(x)
    BY <1>1, WindowCopyIn, ZenonT(60)
  <2> QED BY <2>2, <2>3
<1>3. slot' = z /\ writeIdx' = t /\ readIdx' = r
  OBVIOUS
<1> HIDE DEF z, t
<1>4. Contents' = Window(slot, w, r) \o x
  BY <1>2, <1>3, NextQueueIs
<1>5. Contents' \in Seq(Value)
  BY <1>4, ConcatProperties
<1>6. given' \in Seq(Value)
  BY EmptySeq
<1>7. Buffer'
  BY <1>2, <1>3, <1>5, <1>6, BufferKept
<1> QED BY <1>4, <1>7

\* Cutting the front off a concatenation
LEMMA RestOfConcat ==
    ASSUME NEW V, NEW s \in Seq(V), NEW t \in Seq(V), NEW n \in 0 .. Len(s)
    PROVE  SubSeq(s \o t, n + 1, Len(s) + Len(t)) = SubSeq(s, n + 1, Len(s)) \o t
<1> DEFINE a == Len(s)
           b == Len(t)
           c == s \o t
           d == a + b
           f == SubSeq(c, n + 1, d)
           g == SubSeq(s, n + 1, a)
<1>1. a \in Nat /\ b \in Nat /\ n \in Nat /\ n <= a
  BY LenProperties
<1>2. /\ c \in Seq(V) /\ Len(c) = a + b
      /\ \A i \in 1 .. a + b : c[i] = IF i <= a THEN s[i] ELSE t[i - a]
  BY ConcatProperties
<1>3. \A i \in 1 .. a + b : c[i] \in V
  BY <1>2, ElementOfSeq
<1>4. \A i \in 1 .. a : s[i] \in V
  BY ElementOfSeq
<1> HIDE DEF a, b, c
<1>5. /\ f \in Seq(V) /\ Len(f) = (a - n) + b
      /\ \A i \in 1 .. (a - n) + b : f[i] = c[n + i]
  <2>1. n + 1 \in Int /\ d \in Int /\ \A i \in n + 1 .. d : c[i] \in V
    BY <1>1, <1>3
  <2> HIDE DEF d
  <2>2. /\ f \in Seq(V)
        /\ Len(f) = IF n + 1 <= d THEN d - (n + 1) + 1 ELSE 0
        /\ \A i \in 1 .. d - (n + 1) + 1 : f[i] = c[n + 1 + i - 1]
    BY <2>1, SubSeqProperties
  <2> HIDE DEF f
  <2>3. /\ d - (n + 1) + 1 = (a - n) + b
        /\ (~(n + 1 <= d) => (a - n) + b = 0)
        /\ \A i \in 1 .. (a - n) + b : n + 1 + i - 1 = n + i
    BY <1>1 DEF d
  <2> QED BY <2>2, <2>3
<1>6. /\ g \in Seq(V) /\ Len(g) = a - n
      /\ \A i \in 1 .. a - n : g[i] = s[n + i]
  <2>1. n + 1 \in Int /\ a \in Int /\ \A i \in n + 1 .. a : s[i] \in V
    BY <1>1, <1>4
  <2>2. /\ g \in Seq(V)
        /\ Len(g) = IF n + 1 <= a THEN a - (n + 1) + 1 ELSE 0
        /\ \A i \in 1 .. a - (n + 1) + 1 : g[i] = s[n + 1 + i - 1]
    BY <2>1, SubSeqProperties
  <2> HIDE DEF g
  <2>3. /\ a - (n + 1) + 1 = a - n
        /\ (~(n + 1 <= a) => a - n = 0)
        /\ \A i \in 1 .. a - n : n + 1 + i - 1 = n + i
    BY <1>1
  <2> QED BY <2>2, <2>3
<1> HIDE DEF f, g
<1>7. /\ g \o t \in Seq(V) /\ Len(g \o t) = (a - n) + b
      /\ \A i \in 1 .. (a - n) + b : (g \o t)[i] = IF i <= a - n THEN g[i] ELSE t[i - (a - n)]
  <2>1. /\ g \o t \in Seq(V) /\ Len(g \o t) = Len(g) + Len(t)
        /\ \A i \in 1 .. Len(g) + Len(t) :
              (g \o t)[i] = IF i <= Len(g) THEN g[i] ELSE t[i - Len(g)]
    <3>1. g \in Seq(V)
      BY <1>6
    <3> QED BY <3>1, ConcatProperties
  <2> QED BY <1>6, <2>1 DEF b
<1>8. ASSUME NEW i \in 1 .. (a - n) + b PROVE f[i] = (g \o t)[i]
  <2>1. n + i \in 1 .. a + b
    BY <1>1
  <2>2. CASE i <= a - n
    <3>1. n + i <= a /\ i \in 1 .. a - n
      BY <1>1, <2>2
    <3> QED BY <1>2, <1>5, <1>6, <1>7, <2>1, <2>2, <3>1
  <2>3. CASE ~(i <= a - n)
    <3>1. ~(n + i <= a) /\ (n + i) - a = i - (a - n)
      BY <1>1, <2>3
    <3> QED BY <1>2, <1>5, <1>7, <2>1, <2>3, <3>1
  <2> QED BY <2>2, <2>3
<1>9. f = g \o t
  BY <1>5, <1>7, <1>8, SeqEqual
<1> QED BY <1>9 DEF f, g, a, b, c, d

\* What was too much is taken back from write_idx.
LEMMA TakeBack ==
    ASSUME NEW i \in Index, NEW n \in Nat, n < Modulus, NEW m \in 0 .. n
    PROVE  WrapSub(WrapAdd(i, n), n - m) = WrapAdd(i, m)
BY RingIndexAssumption DEF WrapAdd, WrapSub, Index

LEMMA PushSliceRejectIs ==
    ASSUME Buffer, NEW values \in Batch, PushSliceReject(values)
    PROVE  Buffer' /\ Queue!PushSlice(values)
<1> DEFINE u == WrapSub(writeIdx, readIdx)
           len == Len(values)
           n == Least(IF u >= Capacity THEN 0 ELSE Capacity - u, len)
           x == SubSeq(values, 1, n)
<1>1. /\ u \in Nat /\ u <= Capacity /\ Len(Contents) = u /\ Contents \in Seq(Value)
      /\ Contents = Window(slot, writeIdx, readIdx)
  BY QueueIs
<1>2. values \in Seq(Value) /\ len \in Nat /\ len <= MaxBatch
  BY BatchIs
<1>3. /\ n \in 0 .. len /\ u + n <= Capacity /\ n \in 0 .. MaxBatch + Capacity
      /\ n = Queue!Smaller(len, Capacity - u)
  <2> HIDE DEF u, len
  <2> QED BY <1>1, <1>2, GenericAssumption, RingIndexAssumption DEF Least, Queue!Smaller
<1>4. /\ writeIdx' = WrapSub(WrapAdd(writeIdx, len), len - n)
      /\ slot' = CopyIn(writeIdx, x) /\ given' = << >> /\ count' = n
      /\ readIdx' = readIdx /\ ~overwrite
  BY DEF PushSliceReject, Reverted
<1> HIDE DEF n
<1>5. x \in Seq(Value) /\ Len(x) = n
  <2> HIDE DEF len
  <2>1. \A i \in 1 .. len : values[i] \in Value
    BY <1>2, ElementOfSeq DEF len
  <2>2. 1 \in Int /\ n \in Int /\ \A i \in 1 .. n : values[i] \in Value
    BY <1>2, <1>3, <2>1
  <2>3. x \in Seq(Value) /\ Len(x) = IF 1 <= n THEN n - 1 + 1 ELSE 0
    BY <2>2, SubSeqProperties
  <2> HIDE DEF x
  <2> QED BY <2>3, <1>2, <1>3
<1>6. writeIdx' = WrapAdd(writeIdx, n)
  <2> HIDE DEF len
  <2>1. len < Modulus
    BY <1>2, GenericAssumption, RingIndexAssumption
  <2> QED BY <1>2, <1>3, <1>4, <2>1, TakeBack DEF Buffer
<1> HIDE DEF x
<1>7. Buffer' /\ Contents' = Contents \o x
  <2>1. writeIdx \in Index /\ readIdx \in Index
    BY DEF Buffer
  <2>2. /\ WrapSub(writeIdx, readIdx) + Len(x) <= Capacity
        /\ Window(slot, writeIdx, readIdx) \in Seq(Value)
        /\ slot' = CopyIn(writeIdx, x) /\ writeIdx' = WrapAdd(writeIdx, Len(x))
        /\ readIdx' = readIdx /\ given' = << >> /\ count' \in 0 .. MaxBatch + Capacity
    BY <1>1, <1>3, <1>4, <1>5, <1>6
  <2>3. Buffer' /\ Contents' = Window(slot, writeIdx, readIdx) \o x
    <3>1. x \in Seq(Value)
      BY <1>5
    <3> QED BY <2>1, <2>2, <3>1, SliceFits
  <2> QED BY <1>1, <2>3
<1>8. Queue!PushSlice(values)
  BY <1>1, <1>3, <1>4, <1>7 DEF Queue!PushSlice, Queue!Front, x
<1> QED BY <1>7, <1>8

\* A slice as long as the buffer or longer leaves only its own end.
LEMMA PushWholeIs ==
    ASSUME Buffer, NEW values \in Batch, PushSliceOverwrite(values),
           Len(values) >= Capacity
    PROVE  Buffer' /\ Queue!PushSlice(values)
<1> DEFINE u == WrapSub(writeIdx, readIdx)
           len == Len(values)
           m == len - Capacity
           start == WrapAdd(writeIdx, m)
           x == SubSeq(values, m + 1, len)
<1>1. /\ u \in Nat /\ u <= Capacity /\ Len(Contents) = u /\ Contents \in Seq(Value)
  BY QueueIs
<1>2. /\ values \in Seq(Value) /\ len \in Nat /\ len <= MaxBatch /\ len < Modulus
      /\ len >= Capacity
  <2>1. values \in Seq(Value) /\ len \in Nat /\ len <= MaxBatch
    BY BatchIs
  <2> HIDE DEF len
  <2>2. len < Modulus
    BY <2>1, GenericAssumption, RingIndexAssumption
  <2> QED BY <2>1, <2>2 DEF len
<1>3. /\ writeIdx' = WrapAdd(writeIdx, len) /\ readIdx' = start
      /\ slot' = CopyIn(start, x)
      /\ given' = << >> /\ count' = len /\ overwrite
  BY <1>2 DEF PushSliceOverwrite
<1>4. m \in Nat /\ m \in 0 .. Modulus /\ m + Capacity = len /\ m + Capacity < Modulus
      /\ Capacity \in Nat
  <2> HIDE DEF len
  <2> QED BY <1>2, RingIndexAssumption
<1>5. start \in Index /\ WrapAdd(start, Capacity) = WrapAdd(writeIdx, len)
  <2> HIDE DEF m, len
  <2>1. writeIdx \in Index
    BY DEF Buffer
  <2> QED BY <1>4, <2>1, AddType, AdvanceTwice
<1> HIDE DEF m, start
<1>6. x \in Seq(Value) /\ Len(x) = Capacity
  <2> HIDE DEF len
  <2>1. \A i \in 1 .. len : values[i] \in Value
    BY <1>2, ElementOfSeq DEF len
  <2>2. m + 1 \in Int /\ len \in Int /\ \A i \in m + 1 .. len : values[i] \in Value
    BY <1>2, <1>4, <2>1
  <2>3. x \in Seq(Value) /\ Len(x) = IF m + 1 <= len THEN len - (m + 1) + 1 ELSE 0
    BY <2>2, SubSeqProperties
  <2> HIDE DEF x
  <2> QED BY <2>3, <1>2, <1>4, RingIndexAssumption
<1>7. Buffer' /\ Contents' = x
  <2>1. Window(slot, start, start) = << >> /\ WrapSub(start, start) = 0
    BY <1>5, WindowEmpty
  <2> HIDE DEF x, len
  <2>2. /\ WrapSub(start, start) + Len(x) <= Capacity
        /\ Window(slot, start, start) \in Seq(Value)
        /\ slot' = CopyIn(start, x) /\ writeIdx' = WrapAdd(start, Len(x))
        /\ readIdx' = start /\ given' = << >>
    BY <1>3, <1>5, <1>6, <2>1, EmptySeq, RingIndexAssumption
  <2>3. count' \in 0 .. MaxBatch + Capacity
    BY <1>2, <1>3, RingIndexAssumption, GenericAssumption
  <2>4. Buffer' /\ Contents' = Window(slot, start, start) \o x
    <3>1. x \in Seq(Value)
      BY <1>6
    <3> QED BY <1>5, <2>2, <2>3, <3>1, SliceFits
  <2> QED BY <1>6, <2>1, <2>4, ConcatEmptySeq
<1>8. Queue!PushSlice(values)
  <2> DEFINE all == Contents \o values
             k == (u + len) - Queue!Smaller(u + len, Capacity)
  <2>1. Len(all) = u + len
    BY <1>1, <1>2, ConcatProperties
  <2>2. k = u + m
    <3> HIDE DEF u, len
    <3> QED BY <1>1, <1>2, <1>4, RingIndexAssumption DEF Queue!Smaller
  <2>3. SubSeq(all, k + 1, u + len) = SubSeq(values, m + 1, len)
    <3>1. u + m + 1 \in u + 1 .. u + len /\ u + len \in u + 1 .. u + len
          /\ (u + m + 1) - u = m + 1 /\ (u + len) - u = len
      <4> HIDE DEF u, len
      <4> QED BY <1>1, <1>2, <1>4, RingIndexAssumption
    <3>2. SubSeq(all, u + m + 1, u + len) = SubSeq(values, (u + m + 1) - u, (u + len) - u)
      <4> DEFINE f == u + m + 1
                 l == u + len
      <4>1. /\ f \in Len(Contents) + 1 .. Len(Contents) + Len(values)
            /\ l \in Len(Contents) + 1 .. Len(Contents) + Len(values)
        BY <1>1, <3>1
      <4> HIDE DEF f, l
      <4>2. SubSeq(all, f, l) = SubSeq(values, f - Len(Contents), l - Len(Contents))
        BY <1>1, <1>2, <4>1, SubSeqOfConcat2
      <4> QED BY <1>1, <4>2 DEF f, l
    <3> HIDE DEF all, k, u, len
    <3> QED BY <2>2, <3>1, <3>2
  <2> HIDE DEF u, len
  <2> QED BY <1>3, <1>7, <2>1, <2>3 DEF Queue!PushSlice, Queue!Rest, len, x
<1> QED BY <1>7, <1>8

\* A shorter one pushes out as many of the oldest as there is no room for.
LEMMA PushPartIs ==
    ASSUME Buffer, NEW values \in Batch, PushSliceOverwrite(values),
           ~(Len(values) >= Capacity)
    PROVE  Buffer' /\ Queue!PushSlice(values)
<1> DEFINE u == WrapSub(writeIdx, readIdx)
           len == Len(values)
           over == IF u + len > Capacity THEN u + len - Capacity ELSE 0
           r == WrapAdd(readIdx, over)
<1>1. /\ u \in Nat /\ u <= Capacity /\ Len(Contents) = u /\ Contents \in Seq(Value)
      /\ Contents = Window(slot, writeIdx, readIdx)
  BY QueueIs
<1>2. /\ values \in Seq(Value) /\ len \in Nat /\ len <= MaxBatch
      /\ ~(len >= Capacity)
  BY BatchIs
<1>3. writeIdx \in Index /\ readIdx \in Index /\ slot \in [Slot -> Cell]
  BY DEF Buffer
<1>4. WrapAdd(writeIdx, 0) = writeIdx /\ WrapAdd(readIdx, 0) = readIdx
      /\ SubSeq(values, 0 + 1, len) = values
  BY <1>2, <1>3, AdvanceByDistance, SubSeqFull
<1>5. /\ writeIdx' = WrapAdd(writeIdx, len) /\ slot' = CopyIn(writeIdx, values)
      /\ given' = << >> /\ count' = len /\ overwrite
  BY <1>2, <1>4 DEF PushSliceOverwrite
<1>6. readIdx' = r
  <2>1. readIdx' = IF over > 0 THEN WrapAdd(readIdx, over) ELSE readIdx
    BY <1>2 DEF PushSliceOverwrite, Overflow
  <2>2. over > 0 \/ over = 0
    <3> HIDE DEF u, len
    <3> QED BY <1>1, <1>2, RingIndexAssumption
  <2> HIDE DEF over
  <2> QED BY <2>1, <2>2, <1>4
<1>7. over \in 0 .. u /\ (u - over) + len <= Capacity
  <2> HIDE DEF u, len
  <2> QED BY <1>1, <1>2, RingIndexAssumption
<1> HIDE DEF over
<1>8. /\ Window(slot, writeIdx, r) = SubSeq(Contents, over + 1, u)
      /\ r \in Index /\ WrapSub(writeIdx, r) = u - over
  <2>1. u <= Capacity
    BY <1>1
  <2>2. /\ Window(slot, writeIdx, r)
             = SubSeq(Window(slot, writeIdx, readIdx), over + 1, WrapSub(writeIdx, readIdx))
        /\ r \in Index /\ WrapSub(writeIdx, r) = WrapSub(writeIdx, readIdx) - over
    BY <1>3, <1>7, <2>1, WindowDrop
  <2> QED BY <1>1, <2>2
<1>9. SubSeq(Contents, over + 1, u) \in Seq(Value)
  <2>1. \A i \in 1 .. u : Contents[i] \in Value
    BY QueueIs
  <2> HIDE DEF u
  <2>2. over + 1 \in Int /\ u \in Int /\ \A i \in over + 1 .. u : Contents[i] \in Value
    BY <1>1, <1>7, <2>1
  <2> QED BY <2>2, SubSeqProperties
<1> HIDE DEF r
<1>10. Buffer' /\ Contents' = SubSeq(Contents, over + 1, u) \o values
  <2>1. count' \in 0 .. MaxBatch + Capacity
    <3> HIDE DEF len
    <3> QED BY <1>2, <1>5, RingIndexAssumption, GenericAssumption
  <2>2. /\ WrapSub(writeIdx, r) + Len(values) <= Capacity
        /\ Window(slot, writeIdx, r) \in Seq(Value)
        /\ r \in Index
    BY <1>7, <1>8, <1>9
  <2>3. Buffer' /\ Contents' = Window(slot, writeIdx, r) \o values
    BY <1>2, <1>3, <1>5, <1>6, <2>1, <2>2, SliceFits
  <2> QED BY <1>8, <2>3
<1>11. Queue!PushSlice(values)
  <2> DEFINE all == Contents \o values
             k == (u + len) - Queue!Smaller(u + len, Capacity)
  <2>1. Len(all) = u + len
    BY <1>1, <1>2, ConcatProperties
  <2>2. k = over
    <3> HIDE DEF u, len
    <3> QED BY <1>1, <1>2, RingIndexAssumption DEF Queue!Smaller, over
  <2>3. SubSeq(all, over + 1, u + len) = SubSeq(Contents, over + 1, u) \o values
    <3>1. SubSeq(all, over + 1, Len(Contents) + Len(values))
            = SubSeq(Contents, over + 1, Len(Contents)) \o values
      <4>1. over \in 0 .. Len(Contents)
        BY <1>1, <1>7
      <4>2. Contents \in Seq(Value)
        BY <1>1
      <4> QED BY <1>2, <4>1, <4>2, RestOfConcat
    <3> QED BY <1>1, <3>1
  <2> HIDE DEF u, len
  <2> QED BY <1>5, <1>10, <2>1, <2>2, <2>3 DEF Queue!PushSlice, Queue!Rest, len
<1> QED BY <1>10, <1>11

-----------------------------------------------------------------------------
(* Every call *)

LEMMA CallIs ==
    ASSUME Inv, Call, UNCHANGED overwrite
    PROVE  Buffer' /\ [Queue!Next]_(Queue!queueVars)
<1>0. Buffer
  BY DEF Inv
<1>1. ASSUME NEW v \in Value, PushOverwrite(v) \/ PushReject(v)
      PROVE  Buffer' /\ Queue!Step
  BY <1>0, <1>1, PushOverwriteIs, PushRejectIs DEF Queue!Step
<1>2. ASSUME NEW values \in Batch, PushSliceOverwrite(values) \/ PushSliceReject(values)
      PROVE  Buffer' /\ Queue!Step
  <2>1. Buffer' /\ Queue!PushSlice(values)
    BY <1>0, <1>2, PushWholeIs, PushPartIs, PushSliceRejectIs
  <2>2. values \in Queue!Batch
    BY DEF Batch, Queue!Batch
  <2> QED BY <2>1, <2>2 DEF Queue!Step
<1>3. CASE EmptySlice
  <2>1. Buffer' /\ Queue!PopSlice(0)
    BY <1>0, <1>3, NothingIs DEF EmptySlice
  <2>2. 0 \in 0 .. MaxBatch
    BY GenericAssumption
  <2> QED BY <2>1, <2>2 DEF Queue!Next, Queue!Step
<1>4. CASE Pop
  BY <1>0, <1>4, PopIs DEF Queue!Next, Queue!Step
<1>5. CASE Peek
  BY <1>0, <1>5, PeekIs DEF Queue!Next, Queue!Step
<1>6. CASE QueryLength
  BY <1>0, <1>6, QueryLengthIs DEF Queue!Next, Queue!Step
<1>7. ASSUME NEW n \in 1 .. MaxBatch, PopSlice(n)
      PROVE  Buffer' /\ Queue!Step
  <2>1. n \in 0 .. MaxBatch
    BY GenericAssumption
  <2> QED BY <1>0, <1>7, <2>1, PopSliceIs DEF Queue!Step
<1>8. CASE Clear
  BY <1>0, <1>8, ClearIs DEF Queue!Next, Queue!Step
<1>9. CASE CloneSelf
  BY <1>0, <1>9, CloneSelfIs DEF Queue!queueVars
<1>10. ASSUME NEW p \in 1 .. Capacity, NEW v \in Value, AssignInPlace(p, v)
       PROVE  Buffer' /\ Queue!Step
  <2>1. Buffer' /\ Queue!Assign(p, v)
    BY <1>0, <1>10, AssignIs DEF AssignInPlace
  <2> QED BY <2>1 DEF Queue!Step
<1> QED BY <1>1, <1>2, <1>3, <1>4, <1>5, <1>6, <1>7, <1>8, <1>9, <1>10
        DEF Call, Queue!Next

-----------------------------------------------------------------------------
(* Iterators *)

\* The slices depend on nothing but the indices.
LEMMA SlicesStay ==
    ASSUME writeIdx' = writeIdx, readIdx' = readIdx
    PROVE  AsSlices' = AsSlices /\ IterSlots' = IterSlots
<1>1. Length' = Length
  BY DEF Length
<1>2. AsSlices' = AsSlices
  BY <1>1 DEF AsSlices, Wraps
<1> QED BY <1>2 DEF IterSlots

\* An iterator as a pair of sequences
LEMMA IteratorIs ==
    ASSUME Inv, left # << >>
    PROVE  \E a \in Seq(Slot), b \in Seq(Slot) :
              /\ left = <<a, b>>
              /\ front \in Seq(Slot) /\ back \in Seq(Slot)
              /\ IterSlots \in Seq(Slot)
              /\ Len(front) + Len(a) + Len(b) + Len(back) = Len(IterSlots)
              /\ (front \o a) \o b = SubSeq(IterSlots, 1, Len(IterSlots) - Len(back))
              /\ \A k \in 1 .. Len(back) : back[k] = IterSlots[Len(IterSlots) - k + 1]
<1>1. left \in Seq(Slot) \X Seq(Slot) /\ front \in Seq(Slot) /\ back \in Seq(Slot)
  BY DEF Inv, TypeOK
<1>2. PICK a \in Seq(Slot), b \in Seq(Slot) : left = <<a, b>>
  BY <1>1
<1>3. left[1] = a /\ left[2] = b
  BY <1>2
<1>4. IterSlots \in Seq(Slot)
  BY SlicesAre DEF Inv, Buffer
<1>5. Len(front) + Len(a) + Len(b) + Len(back) = Len(IterSlots)
  BY <1>3 DEF Inv, Borrowing
<1>6. /\ (front \o a) \o b = SubSeq(IterSlots, 1, Len(IterSlots) - Len(back))
      /\ \A k \in 1 .. Len(back) : back[k] = IterSlots[Len(IterSlots) - k + 1]
  BY <1>3 DEF Inv, IteratorsMeet
<1> QED BY <1>1, <1>2, <1>4, <1>5, <1>6

\* What a step of an iterator has to show
LEMMA IteratorKept ==
    ASSUME Inv, NEW a \in Seq(Slot), NEW b \in Seq(Slot), left' = <<a, b>>,
           UNCHANGED <<overwrite, slot, writeIdx, readIdx, given, count>>,
           left # << >>,
           front' \in Seq(Slot), back' \in Seq(Slot),
           Len(front') + Len(a) + Len(b) + Len(back') = Len(IterSlots),
           (front' \o a) \o b = SubSeq(IterSlots, 1, Len(IterSlots) - Len(back')),
           \A k \in 1 .. Len(back') : back'[k] = IterSlots[Len(IterSlots) - k + 1]
    PROVE  Inv' /\ UNCHANGED Queue!queueVars
<1>1. Contents' = Contents
  BY DEF Contents, ReadAt
<1>2. IterSlots' = IterSlots
  BY SlicesStay
<1>3. left'[1] = a /\ left'[2] = b /\ left' # << >>
  OBVIOUS
<1>4. TypeOK'
  BY <1>1 DEF Inv, TypeOK
<1>5. Buffer'
  BY <1>1 DEF Inv, Buffer
<1>6. Borrowing'
  BY <1>2, <1>3 DEF Inv, Borrowing
<1>7. IteratorsMeet'
  BY <1>2, <1>3 DEF IteratorsMeet
<1> QED BY <1>1, <1>4, <1>5, <1>6, <1>7 DEF Inv, Queue!queueVars

\* Taking the first element of a sequence to the end of another
LEMMA MoveHead ==
    ASSUME NEW V, NEW s \in Seq(V), NEW t \in Seq(V), t # << >>
    PROVE  /\ Append(s, Head(t)) \in Seq(V) /\ Tail(t) \in Seq(V)
           /\ Len(Append(s, Head(t))) = Len(s) + 1 /\ Len(Tail(t)) = Len(t) - 1
           /\ Append(s, Head(t)) \o Tail(t) = s \o t
<1> DEFINE h == Head(t)
           u == Tail(t)
           f == Append(s, h)
<1>1. /\ h \in V /\ u \in Seq(V) /\ Len(u) = Len(t) - 1
      /\ \A i \in 1 .. Len(u) : u[i] = t[i + 1]
  BY HeadTailProperties
<1>2. h = t[1] /\ Len(t) \in Nat \ {0} /\ Len(s) \in Nat
  BY EmptySeq, LenProperties
<1> HIDE DEF h, u
<1>3. /\ f \in Seq(V) /\ Len(f) = Len(s) + 1
      /\ \A i \in 1 .. Len(s) : f[i] = s[i]
      /\ f[Len(s) + 1] = h
  BY <1>1, AppendProperties
<1> HIDE DEF f
<1>4. /\ f \o u \in Seq(V) /\ Len(f \o u) = Len(f) + Len(u)
      /\ \A i \in 1 .. Len(f) + Len(u) :
            (f \o u)[i] = IF i <= Len(f) THEN f[i] ELSE u[i - Len(f)]
  BY <1>1, <1>3, ConcatProperties
<1>5. /\ s \o t \in Seq(V) /\ Len(s \o t) = Len(s) + Len(t)
      /\ \A i \in 1 .. Len(s) + Len(t) :
            (s \o t)[i] = IF i <= Len(s) THEN s[i] ELSE t[i - Len(s)]
  BY ConcatProperties
<1>6. Len(f) + Len(u) = Len(s) + Len(t)
  BY <1>1, <1>2, <1>3
<1>7. ASSUME NEW i \in 1 .. Len(s) + Len(t) PROVE (f \o u)[i] = (s \o t)[i]
  <2>1. CASE i <= Len(s)
    <3>1. i \in 1 .. Len(s) /\ i <= Len(f)
      BY <1>2, <1>3, <2>1
    <3> QED BY <1>3, <1>4, <1>5, <1>6, <2>1, <3>1
  <2>2. CASE i = Len(s) + 1
    <3>1. i <= Len(f) /\ ~(i <= Len(s)) /\ i - Len(s) = 1
      BY <1>2, <1>3, <2>2
    <3>2. (f \o u)[i] = f[i] /\ (s \o t)[i] = t[i - Len(s)]
      BY <1>4, <1>5, <1>6, <3>1
    <3>3. f[i] = h /\ t[i - Len(s)] = h
      BY <1>2, <1>3, <2>2, <3>1
    <3> QED BY <3>2, <3>3
  <2>3. CASE i > Len(s) + 1
    <3>1. /\ ~(i <= Len(f)) /\ ~(i <= Len(s))
          /\ i - Len(f) \in 1 .. Len(u) /\ (i - Len(f)) + 1 = i - Len(s)
      BY <1>1, <1>2, <1>3, <2>3
    <3> QED BY <1>1, <1>4, <1>5, <1>6, <3>1
  <2>4. i <= Len(s) \/ i = Len(s) + 1 \/ i > Len(s) + 1
    BY <1>2
  <2> QED BY <2>1, <2>2, <2>3, <2>4
<1>8. f \o u = s \o t
  BY <1>4, <1>5, <1>6, <1>7, SeqEqual
<1> QED BY <1>1, <1>3, <1>8 DEF f, u, h

\* Cutting off the last element
LEMMA ButLast ==
    ASSUME NEW V, NEW s \in Seq(V), NEW n \in 1 .. Len(s)
    PROVE  /\ SubSeq(s, 1, n) \in Seq(V) /\ Len(SubSeq(s, 1, n)) = n
           /\ \A i \in 1 .. n : SubSeq(s, 1, n)[i] = s[i]
           /\ SubSeq(s, 1, n - 1) \in Seq(V) /\ Len(SubSeq(s, 1, n - 1)) = n - 1
           /\ \A i \in 1 .. n - 1 : SubSeq(s, 1, n - 1)[i] = s[i]
<1>0. Len(s) \in Nat /\ n \in Nat /\ n >= 1
  BY LenProperties
<1>1. ASSUME NEW m \in Nat, m <= Len(s)
      PROVE  /\ SubSeq(s, 1, m) \in Seq(V) /\ Len(SubSeq(s, 1, m)) = m
             /\ \A i \in 1 .. m : SubSeq(s, 1, m)[i] = s[i]
  <2>1. 1 \in Int /\ m \in Int /\ \A i \in 1 .. m : s[i] \in V
    BY <1>0, <1>1, ElementOfSeq
  <2>2. /\ SubSeq(s, 1, m) \in Seq(V)
        /\ Len(SubSeq(s, 1, m)) = IF 1 <= m THEN m - 1 + 1 ELSE 0
        /\ \A i \in 1 .. m - 1 + 1 : SubSeq(s, 1, m)[i] = s[1 + i - 1]
    BY <2>1, SubSeqProperties
  <2>3. /\ (IF 1 <= m THEN m - 1 + 1 ELSE 0) = m /\ m - 1 + 1 = m
        /\ \A i \in 1 .. m : 1 + i - 1 = i
    OBVIOUS
  <2> QED BY <2>2, <2>3
<1>2. n \in Nat /\ n <= Len(s) /\ n - 1 \in Nat /\ n - 1 <= Len(s)
  BY <1>0
<1> QED BY <1>1, <1>2

\* Cutting off the last element of what is left
LEMMA CutLast ==
    ASSUME NEW V, NEW p \in Seq(V), NEW t \in Seq(V), NEW s \in Seq(V), t # << >>,
           NEW m \in Nat, m <= Len(s), p \o t = SubSeq(s, 1, m)
    PROVE  /\ t[Len(t)] = s[m] /\ t[Len(t)] \in V
           /\ SubSeq(t, 1, Len(t) - 1) \in Seq(V)
           /\ Len(SubSeq(t, 1, Len(t) - 1)) = Len(t) - 1
           /\ p \o SubSeq(t, 1, Len(t) - 1) = SubSeq(s, 1, m - 1)
<1> DEFINE c == SubSeq(t, 1, Len(t) - 1)
           x == SubSeq(s, 1, m)
           y == SubSeq(s, 1, m - 1)
<1>1. /\ Len(p) \in Nat /\ Len(t) \in Nat \ {0} /\ Len(s) \in Nat
      /\ m \in 1 .. Len(s) /\ Len(t) \in 1 .. Len(t) /\ m = Len(p) + Len(t)
  <2>1. /\ Len(p) \in Nat /\ Len(t) \in Nat \ {0} /\ Len(s) \in Nat
    BY EmptySeq, LenProperties
  <2>2. Len(p \o t) = Len(p) + Len(t)
    BY ConcatProperties
  <2>3. CASE m = 0
    <3>1. SubSeq(s, 1, m) = << >>
      BY <2>3, SubSeqEmpty
    <3> QED BY <2>1, <2>2, <3>1, EmptySeq
  <2>4. CASE m # 0
    <3>1. m \in 1 .. Len(s)
      BY <2>1, <2>4
    <3>2. Len(SubSeq(s, 1, m)) = m
      BY <3>1, ButLast
    <3> QED BY <2>1, <2>2, <3>1, <3>2
  <2> QED BY <2>3, <2>4
<1>2. /\ c \in Seq(V) /\ Len(c) = Len(t) - 1
      /\ \A i \in 1 .. Len(t) - 1 : c[i] = t[i]
  BY <1>1, ButLast
<1>3. /\ x \in Seq(V) /\ Len(x) = m /\ \A i \in 1 .. m : x[i] = s[i]
      /\ y \in Seq(V) /\ Len(y) = m - 1 /\ \A i \in 1 .. m - 1 : y[i] = s[i]
  BY <1>1, ButLast
<1>4. p \o t = x
  OBVIOUS
<1>5. t[Len(t)] \in V
  BY <1>1, ElementOfSeq
<1> HIDE DEF c, x, y
<1>6. \A i \in 1 .. Len(p) + Len(t) : x[i] = IF i <= Len(p) THEN p[i] ELSE t[i - Len(p)]
  BY <1>4, ConcatProperties
<1>7. /\ p \o c \in Seq(V) /\ Len(p \o c) = Len(p) + Len(c)
      /\ \A i \in 1 .. Len(p) + Len(c) :
            (p \o c)[i] = IF i <= Len(p) THEN p[i] ELSE c[i - Len(p)]
  <2>1. c \in Seq(V)
    BY <1>2
  <2> QED BY <2>1, ConcatProperties
<1>8. t[Len(t)] = s[m]
  <2>1. m \in 1 .. Len(p) + Len(t) /\ ~(m <= Len(p)) /\ m - Len(p) = Len(t) /\ m \in 1 .. m
    BY <1>1
  <2>2. x[m] = t[m - Len(p)] /\ x[m] = s[m]
    BY <1>3, <1>6, <2>1
  <2> QED BY <2>1, <2>2
<1>9. Len(p) + Len(c) = m - 1
  BY <1>1, <1>2
<1>10. ASSUME NEW i \in 1 .. m - 1 PROVE (p \o c)[i] = y[i]
  <2>1. /\ i \in 1 .. Len(p) + Len(c) /\ i \in 1 .. Len(p) + Len(t) /\ i \in 1 .. m
        /\ ~(i <= Len(p)) => i - Len(p) \in 1 .. Len(t) - 1
    BY <1>1, <1>9
  <2>2. y[i] = s[i] /\ x[i] = s[i]
    BY <1>3, <2>1
  <2>3. x[i] = IF i <= Len(p) THEN p[i] ELSE t[i - Len(p)]
    BY <1>6, <2>1
  <2>4. (p \o c)[i] = IF i <= Len(p) THEN p[i] ELSE c[i - Len(p)]
    BY <1>7, <2>1
  <2>5. ~(i <= Len(p)) => c[i - Len(p)] = t[i - Len(p)]
    BY <1>2, <2>1
  <2> QED BY <2>2, <2>3, <2>4, <2>5
<1>11. p \o c = y
  BY <1>3, <1>7, <1>9, <1>10, SeqEqual
<1> QED BY <1>2, <1>5, <1>8, <1>11 DEF c, y

\* The newest element left is yielded: back stays the end of the elements, reversed.
LEMMA BackGrows ==
    ASSUME NEW V, NEW s \in Seq(V), NEW r \in Seq(V), NEW e \in V,
           Len(r) + 1 <= Len(s), e = s[Len(s) - Len(r)],
           \A k \in 1 .. Len(r) : r[k] = s[Len(s) - k + 1]
    PROVE  /\ Append(r, e) \in Seq(V) /\ Len(Append(r, e)) = Len(r) + 1
           /\ \A k \in 1 .. Len(Append(r, e)) : Append(r, e)[k] = s[Len(s) - k + 1]
<1> DEFINE f == Append(r, e)
<1>1. Len(r) \in Nat /\ Len(s) \in Nat
  BY LenProperties
<1>2. /\ f \in Seq(V) /\ Len(f) = Len(r) + 1
      /\ \A k \in 1 .. Len(r) : f[k] = r[k]
      /\ f[Len(r) + 1] = e
  BY AppendProperties
<1> HIDE DEF f
<1>3. ASSUME NEW k \in 1 .. Len(f) PROVE f[k] = s[Len(s) - k + 1]
  <2>1. CASE k \in 1 .. Len(r)
    BY <1>2, <2>1
  <2>2. CASE k = Len(r) + 1
    <3>1. Len(s) - k + 1 = Len(s) - Len(r)
      BY <1>1, <2>2
    <3> QED BY <1>2, <2>2, <3>1
  <2> QED BY <1>1, <1>2, <2>1, <2>2
<1> QED BY <1>2, <1>3 DEF f

\* iter and iter_mut start on all the elements.
LEMMA IterBeginIs ==
    ASSUME Inv, IterBegin, UNCHANGED overwrite
    PROVE  Inv' /\ Queue!PopSlice(0)
<1>1. /\ front = << >> /\ back = << >>
      /\ front' = << >> /\ back' = << >> /\ left' = AsSlices
      /\ given' = << >> /\ count' = 0 /\ UNCHANGED <<slot, writeIdx, readIdx>>
  BY DEF IterBegin, Inv, Borrowing
<1>2. Buffer' /\ Queue!PopSlice(0)
  BY <1>1, NothingIs DEF Inv
<1>3. /\ AsSlices \in Seq(Slot) \X Seq(Slot) /\ IterSlots \in Seq(Slot)
  BY SlicesAre DEF Inv, Buffer
<1>4. PICK a \in Seq(Slot), b \in Seq(Slot) : AsSlices = <<a, b>>
  BY <1>3
<1>5. left' = <<a, b>> /\ left' # << >> /\ left'[1] = a /\ left'[2] = b /\ IterSlots = a \o b
  BY <1>1, <1>4 DEF IterSlots
<1>6. IterSlots' = IterSlots
  BY <1>1, SlicesStay
<1>7. << >> \in Seq(Slot) /\ Len(<< >>) = 0
  BY EmptySeq
<1>8. /\ (<< >> \o a) \o b = SubSeq(IterSlots, 1, Len(IterSlots))
      /\ Len(IterSlots) \in Nat /\ Len(a) \in Nat /\ Len(b) \in Nat
      /\ Len(IterSlots) = Len(a) + Len(b)
  <2>1. << >> \o a = a
    BY ConcatEmptySeq
  <2>2. SubSeq(IterSlots, 1, Len(IterSlots)) = IterSlots
    BY <1>3, SubSeqFull
  <2>3. Len(a \o b) = Len(a) + Len(b)
    BY ConcatProperties
  <2>4. Len(IterSlots) \in Nat /\ Len(a) \in Nat /\ Len(b) \in Nat
    BY <1>3, LenProperties
  <2> QED BY <1>5, <2>1, <2>2, <2>3, <2>4
<1>9. Borrowing'
  BY <1>1, <1>5, <1>6, <1>7, <1>8 DEF Borrowing
<1>10. IteratorsMeet'
  BY <1>1, <1>5, <1>6, <1>7, <1>8 DEF IteratorsMeet
<1>11. TypeOK'
  BY <1>1, <1>2, <1>3, <1>7 DEF Inv, TypeOK, Buffer, Cell
<1> QED BY <1>2, <1>9, <1>10, <1>11 DEF Inv

\* next takes from the front of the two slices.
LEMMA IterNextIs ==
    ASSUME Inv, IterNext, UNCHANGED overwrite
    PROVE  Inv' /\ UNCHANGED Queue!queueVars
<1>1. left # << >> /\ left # << << >>, << >> >>
  BY DEF IterNext
<1>2. PICK a \in Seq(Slot), b \in Seq(Slot) :
         /\ left = <<a, b>>
         /\ front \in Seq(Slot) /\ back \in Seq(Slot)
         /\ IterSlots \in Seq(Slot)
         /\ Len(front) + Len(a) + Len(b) + Len(back) = Len(IterSlots)
         /\ (front \o a) \o b = SubSeq(IterSlots, 1, Len(IterSlots) - Len(back))
         /\ \A k \in 1 .. Len(back) : back[k] = IterSlots[Len(IterSlots) - k + 1]
  BY <1>1, IteratorIs
<1>3. UNCHANGED <<overwrite, slot, writeIdx, readIdx, given, count>> /\ back' = back
  BY DEF IterNext, answer
<1>4. /\ Len(front) \in Nat /\ Len(back) \in Nat /\ Len(a) \in Nat /\ Len(b) \in Nat
      /\ Len(IterSlots) \in Nat
  BY <1>2, LenProperties
<1>5. CASE a # << >>
  <2>1. front' = Append(front, Head(a)) /\ left' = <<Tail(a), b>>
    BY <1>2, <1>5 DEF IterNext
  <2>2. /\ front' \in Seq(Slot) /\ Tail(a) \in Seq(Slot)
        /\ Len(front') = Len(front) + 1 /\ Len(Tail(a)) = Len(a) - 1
        /\ front' \o Tail(a) = front \o a
    <3>1. front \in Seq(Slot) /\ a \in Seq(Slot) /\ a # << >>
      BY <1>2, <1>5
    <3>2. /\ Append(front, Head(a)) \in Seq(Slot) /\ Tail(a) \in Seq(Slot)
          /\ Len(Append(front, Head(a))) = Len(front) + 1 /\ Len(Tail(a)) = Len(a) - 1
          /\ Append(front, Head(a)) \o Tail(a) = front \o a
      BY <3>1, MoveHead
    <3> QED BY <2>1, <3>2
  <2>3. Len(front') + Len(Tail(a)) + Len(b) + Len(back) = Len(IterSlots)
    BY <1>2, <1>4, <2>2
  <2>4. (front' \o Tail(a)) \o b = SubSeq(IterSlots, 1, Len(IterSlots) - Len(back))
    BY <1>2, <2>2
  <2> QED BY <1>1, <1>2, <1>3, <2>1, <2>2, <2>3, <2>4, IteratorKept
<1>6. CASE a = << >>
  <2>0. b # << >>
    BY <1>1, <1>2, <1>6
  <2>1. front' = Append(front, Head(b)) /\ left' = <<a, Tail(b)>>
    BY <1>2, <1>6 DEF IterNext
  <2>2. /\ front' \in Seq(Slot) /\ Tail(b) \in Seq(Slot)
        /\ Len(front') = Len(front) + 1 /\ Len(Tail(b)) = Len(b) - 1
        /\ front' \o Tail(b) = front \o b
    <3>1. front \in Seq(Slot) /\ b \in Seq(Slot) /\ b # << >>
      BY <1>2, <2>0
    <3>2. /\ Append(front, Head(b)) \in Seq(Slot) /\ Tail(b) \in Seq(Slot)
          /\ Len(Append(front, Head(b))) = Len(front) + 1 /\ Len(Tail(b)) = Len(b) - 1
          /\ Append(front, Head(b)) \o Tail(b) = front \o b
      BY <3>1, MoveHead
    <3> QED BY <2>1, <3>2
  <2>3. Len(front') + Len(a) + Len(Tail(b)) + Len(back) = Len(IterSlots)
    BY <1>2, <1>4, <2>2
  <2>4. front' \o a = front' /\ front \o a = front
    BY <1>2, <1>6, <2>2, ConcatEmptySeq
  <2>5. (front' \o a) \o Tail(b) = SubSeq(IterSlots, 1, Len(IterSlots) - Len(back))
    BY <1>2, <2>2, <2>4
  <2> QED BY <1>1, <1>2, <1>3, <2>1, <2>2, <2>3, <2>5, IteratorKept
<1> QED BY <1>5, <1>6

\* next_back takes from the back of the two slices.
LEMMA IterNextBackIs ==
    ASSUME Inv, IterNextBack, UNCHANGED overwrite
    PROVE  Inv' /\ UNCHANGED Queue!queueVars
<1>1. left # << >> /\ left # << << >>, << >> >>
  BY DEF IterNextBack
<1>2. PICK a \in Seq(Slot), b \in Seq(Slot) :
         /\ left = <<a, b>>
         /\ front \in Seq(Slot) /\ back \in Seq(Slot)
         /\ IterSlots \in Seq(Slot)
         /\ Len(front) + Len(a) + Len(b) + Len(back) = Len(IterSlots)
         /\ (front \o a) \o b = SubSeq(IterSlots, 1, Len(IterSlots) - Len(back))
         /\ \A k \in 1 .. Len(back) : back[k] = IterSlots[Len(IterSlots) - k + 1]
  BY <1>1, IteratorIs
<1>3. UNCHANGED <<overwrite, slot, writeIdx, readIdx, given, count>> /\ front' = front
  BY DEF IterNextBack, answer
<1> DEFINE n == Len(IterSlots)
           m == n - Len(back)
<1>4. /\ Len(front) \in Nat /\ Len(back) \in Nat /\ Len(a) \in Nat /\ Len(b) \in Nat
      /\ n \in Nat
  BY <1>2, LenProperties
<1>5. ASSUME NEW e \in Slot, e = IterSlots[m], Len(back) + 1 <= n, back' = Append(back, e)
      PROVE  /\ back' \in Seq(Slot) /\ Len(back') = Len(back) + 1
             /\ \A k \in 1 .. Len(back') : back'[k] = IterSlots[n - k + 1]
  <2>1. IterSlots \in Seq(Slot) /\ back \in Seq(Slot)
        /\ \A k \in 1 .. Len(back) : back[k] = IterSlots[Len(IterSlots) - k + 1]
    BY <1>2
  <2> QED BY <1>5, <2>1, BackGrows
<1>6. CASE b # << >>
  <2> DEFINE p == front \o a
             c == SubSeq(b, 1, Len(b) - 1)
  <2>1. back' = Append(back, b[Len(b)]) /\ left' = <<a, c>>
    BY <1>2, <1>6 DEF IterNextBack, BackSlice
  <2>2. p \in Seq(Slot) /\ Len(p) = Len(front) + Len(a)
    BY <1>2, ConcatProperties
  <2>3. m = Len(p) + Len(b) /\ m <= n /\ p \o b = SubSeq(IterSlots, 1, m)
        /\ Len(b) >= 1 /\ Len(back) + 1 <= n
    <3>1. Len(b) >= 1
      BY <1>2, <1>4, <1>6, EmptySeq
    <3> QED BY <1>2, <1>4, <2>2, <3>1
  <2>4. /\ b[Len(b)] = IterSlots[m] /\ b[Len(b)] \in Slot
        /\ c \in Seq(Slot) /\ Len(c) = Len(b) - 1
        /\ p \o c = SubSeq(IterSlots, 1, m - 1)
    <3> HIDE DEF p, m
    <3>1. b \in Seq(Slot) /\ IterSlots \in Seq(Slot) /\ p \in Seq(Slot)
      BY <1>2, <2>2
    <3>2. m \in Nat /\ m <= Len(IterSlots) /\ p \o b = SubSeq(IterSlots, 1, m)
      BY <1>4, <2>2, <2>3
    <3> QED BY <1>6, <3>1, <3>2, CutLast, SMTT(30)
  <2>5. /\ back' \in Seq(Slot) /\ Len(back') = Len(back) + 1
        /\ \A k \in 1 .. Len(back') : back'[k] = IterSlots[n - k + 1]
    <3> HIDE DEF m, n
    <3> QED BY <1>5, <2>1, <2>3, <2>4
  <2>6. Len(front') + Len(a) + Len(c) + Len(back') = n /\ m - 1 = n - Len(back')
    <3> HIDE DEF c
    <3> QED BY <1>2, <1>3, <1>4, <2>4, <2>5
  <2>7. (front' \o a) \o c = SubSeq(IterSlots, 1, n - Len(back'))
    BY <1>3, <2>4, <2>6
  <2>8. front' \in Seq(Slot)
    BY <1>2, <1>3
  <2> HIDE DEF c
  <2> QED BY <1>1, <1>3, <2>1, <2>4, <2>5, <2>6, <2>7, <2>8, IteratorKept
<1>7. CASE b = << >>
  <2> DEFINE c == SubSeq(a, 1, Len(a) - 1)
  <2>0. a # << >>
    BY <1>1, <1>2, <1>7
  <2>1. back' = Append(back, a[Len(a)]) /\ left' = <<c, b>>
    BY <1>2, <1>7 DEF IterNextBack, BackSlice
  <2>2. (front \o a) \o b = front \o a /\ Len(b) = 0
    <3>1. front \o a \in Seq(Slot)
      BY <1>2, ConcatProperties
    <3> QED BY <1>7, <3>1, ConcatEmptySeq, EmptySeq
  <2>3. m = Len(front) + Len(a) /\ m <= n /\ front \o a = SubSeq(IterSlots, 1, m)
        /\ Len(a) >= 1 /\ Len(back) + 1 <= n
    <3>1. Len(a) >= 1
      BY <1>2, <1>4, <2>0, EmptySeq
    <3> QED BY <1>2, <1>4, <2>2, <3>1
  <2>4. /\ a[Len(a)] = IterSlots[m] /\ a[Len(a)] \in Slot
        /\ c \in Seq(Slot) /\ Len(c) = Len(a) - 1
        /\ front \o c = SubSeq(IterSlots, 1, m - 1)
    <3> HIDE DEF m
    <3>1. a \in Seq(Slot) /\ IterSlots \in Seq(Slot) /\ front \in Seq(Slot)
      BY <1>2
    <3>2. m \in Nat /\ m <= Len(IterSlots) /\ front \o a = SubSeq(IterSlots, 1, m)
      BY <1>4, <2>3
    <3>3. /\ a[Len(a)] = IterSlots[m] /\ a[Len(a)] \in Slot
          /\ SubSeq(a, 1, Len(a) - 1) \in Seq(Slot)
          /\ Len(SubSeq(a, 1, Len(a) - 1)) = Len(a) - 1
          /\ front \o SubSeq(a, 1, Len(a) - 1) = SubSeq(IterSlots, 1, m - 1)
      <4> DEFINE s == IterSlots
                 p == front
                 l == m
      <4>1. a \in Seq(Slot) /\ s \in Seq(Slot) /\ p \in Seq(Slot) /\ a # << >>
        BY <2>0, <3>1
      <4>2. l \in Nat /\ l <= Len(s) /\ p \o a = SubSeq(s, 1, l)
        BY <3>2
      <4> HIDE DEF s, p, l
      <4>3. /\ a[Len(a)] = s[l] /\ a[Len(a)] \in Slot
            /\ SubSeq(a, 1, Len(a) - 1) \in Seq(Slot)
            /\ Len(SubSeq(a, 1, Len(a) - 1)) = Len(a) - 1
            /\ p \o SubSeq(a, 1, Len(a) - 1) = SubSeq(s, 1, l - 1)
        BY <4>1, <4>2, CutLast, SMTT(30)
      <4> QED BY <4>3 DEF s, p, l
    <3> QED BY <3>3
  <2>5. /\ back' \in Seq(Slot) /\ Len(back') = Len(back) + 1
        /\ \A k \in 1 .. Len(back') : back'[k] = IterSlots[n - k + 1]
    <3> HIDE DEF m, n
    <3> QED BY <1>5, <2>1, <2>3, <2>4
  <2>6. Len(front') + Len(c) + Len(b) + Len(back') = n /\ m - 1 = n - Len(back')
    <3> HIDE DEF c
    <3> QED BY <1>2, <1>3, <1>4, <2>2, <2>4, <2>5
  <2>7. (front' \o c) \o b = SubSeq(IterSlots, 1, n - Len(back'))
    <3> HIDE DEF c
    <3>1. front \o c \in Seq(Slot)
      BY <1>2, <2>4, ConcatProperties
    <3>2. (front \o c) \o b = front \o c
      BY <1>7, <3>1, ConcatEmptySeq
    <3> QED BY <1>3, <2>4, <2>6, <3>2
  <2>8. front' \in Seq(Slot)
    BY <1>2, <1>3
  <2> HIDE DEF c
  <2> QED BY <1>1, <1>2, <1>3, <2>1, <2>4, <2>5, <2>6, <2>7, <2>8, IteratorKept
<1> QED BY <1>6, <1>7

\* The start of a concatenation
LEMMA StartOfConcat ==
    ASSUME NEW V, NEW s \in Seq(V), NEW t \in Seq(V)
    PROVE  /\ s \o t \in Seq(V) /\ Len(s \o t) = Len(s) + Len(t)
           /\ Len(s) \in Nat /\ Len(t) \in Nat
           /\ \A i \in 1 .. Len(s) : (s \o t)[i] = s[i]
           /\ \A i \in 1 .. Len(t) : (s \o t)[Len(s) + i] = t[i]
<1>1. /\ s \o t \in Seq(V) /\ Len(s \o t) = Len(s) + Len(t)
      /\ \A i \in 1 .. Len(s) + Len(t) :
            (s \o t)[i] = IF i <= Len(s) THEN s[i] ELSE t[i - Len(s)]
  BY ConcatProperties
<1>2. Len(s) \in Nat /\ Len(t) \in Nat
  BY LenProperties
<1>3. ASSUME NEW i \in 1 .. Len(s) PROVE (s \o t)[i] = s[i]
  <2>1. i \in 1 .. Len(s) + Len(t) /\ i <= Len(s)
    BY <1>2
  <2> QED BY <1>1, <2>1
<1>4. ASSUME NEW i \in 1 .. Len(t) PROVE (s \o t)[Len(s) + i] = t[i]
  <2> DEFINE j == Len(s) + i
  <2>1. j \in 1 .. Len(s) + Len(t) /\ ~(j <= Len(s)) /\ j - Len(s) = i
    BY <1>2
  <2> HIDE DEF j
  <2>2. (s \o t)[j] = t[j - Len(s)]
    BY <1>1, <2>1
  <2> QED BY <2>1, <2>2 DEF j
<1> QED BY <1>1, <1>2, <1>3, <1>4

\* What an iterator has lent out is in the buffer.
LEMMA LentIsInBuffer ==
    ASSUME Inv, left # << >>, NEW n \in 1 .. Len(front \o back)
    PROVE  \E p \in 1 .. Len(IterSlots) : IterSlots[p] = (front \o back)[n]
<1>1. PICK a \in Seq(Slot), b \in Seq(Slot) :
         /\ left = <<a, b>>
         /\ front \in Seq(Slot) /\ back \in Seq(Slot)
         /\ IterSlots \in Seq(Slot)
         /\ Len(front) + Len(a) + Len(b) + Len(back) = Len(IterSlots)
         /\ (front \o a) \o b = SubSeq(IterSlots, 1, Len(IterSlots) - Len(back))
         /\ \A k \in 1 .. Len(back) : back[k] = IterSlots[Len(IterSlots) - k + 1]
  BY IteratorIs
<1> DEFINE s == IterSlots
           l == Len(s)
           m == l - Len(back)
<1>2. /\ Len(front) \in Nat /\ Len(back) \in Nat /\ Len(a) \in Nat /\ Len(b) \in Nat
      /\ l \in Nat
  BY <1>1, LenProperties
<1>3. /\ \A i \in 1 .. Len(front) : (front \o back)[i] = front[i]
      /\ \A i \in 1 .. Len(back) : (front \o back)[Len(front) + i] = back[i]
      /\ Len(front \o back) = Len(front) + Len(back)
  <2>1. front \in Seq(Slot) /\ back \in Seq(Slot)
    BY <1>1
  <2> QED BY <2>1, StartOfConcat
<1>4. \A i \in 1 .. Len(front) : ((front \o a) \o b)[i] = front[i]
  <2>1. front \in Seq(Slot)
    BY <1>1
  <2>2. /\ front \o a \in Seq(Slot) /\ Len(front \o a) = Len(front) + Len(a)
        /\ \A i \in 1 .. Len(front) : (front \o a)[i] = front[i]
    BY <2>1, StartOfConcat
  <2>3. \A i \in 1 .. Len(front \o a) : ((front \o a) \o b)[i] = (front \o a)[i]
    <3> DEFINE f == front \o a
    <3>1. f \in Seq(Slot)
      BY <2>2
    <3> HIDE DEF f
    <3>2. \A i \in 1 .. Len(f) : (f \o b)[i] = f[i]
      BY <3>1, StartOfConcat
    <3> QED BY <3>2 DEF f
  <2>4. \A i \in 1 .. Len(front) : i \in 1 .. Len(front \o a)
    BY <1>2, <2>2
  <2> QED BY <2>2, <2>3, <2>4
<1>5. CASE n <= Len(front)
  <2>1. /\ n \in 1 .. Len(front) /\ n \in 1 .. l /\ n \in 1 .. m /\ m \in 1 .. l
    BY <1>1, <1>2, <1>5
  <2>2. SubSeq(s, 1, m)[n] = s[n]
    <3>1. s \in Seq(Slot)
      BY <1>1
    <3> HIDE DEF s, m
    <3>2. \A i \in 1 .. m : SubSeq(s, 1, m)[i] = s[i]
      BY <2>1, <3>1, ButLast DEF l
    <3> QED BY <2>1, <3>2
  <2>3. s[n] = (front \o back)[n]
    BY <1>1, <1>3, <1>4, <2>1, <2>2
  <2> QED BY <2>1, <2>3
<1>6. CASE n > Len(front)
  <2> DEFINE k == n - Len(front)
             p == l - k + 1
  <2>1. k \in 1 .. Len(back) /\ Len(front) + k = n /\ p \in 1 .. l
    BY <1>1, <1>2, <1>3, <1>6
  <2>2. (front \o back)[n] = back[k]
    BY <1>3, <2>1
  <2>3. back[k] = s[p]
    BY <1>1, <2>1
  <2> QED BY <2>1, <2>2, <2>3
<1> QED BY <1>2, <1>5, <1>6

\* Through an iterator an element of the queue is assigned to.
LEMMA IterAssignIs ==
    ASSUME Inv, NEW v \in Value, IterAssign(v), UNCHANGED overwrite
    PROVE  Inv' /\ \E p \in 1 .. Capacity : Queue!Assign(p, v)
<1>1. PICK n \in 1 .. Len(front \o back) : slot' = [slot EXCEPT ![(front \o back)[n]] = v]
  BY DEF IterAssign
<1>2. /\ writeIdx' = writeIdx /\ readIdx' = readIdx /\ given' = given /\ count' = count
      /\ left' = left /\ front' = front /\ back' = back
  BY DEF IterAssign, answer, lent
<1>3. left # << >>
  <2> SUFFICES ASSUME left = << >> PROVE FALSE
    OBVIOUS
  <2>1. front = << >> /\ back = << >>
    BY DEF Inv, Borrowing
  <2>2. front \o back = << >>
    <3>1. << >> \in Seq(Slot)
      BY EmptySeq
    <3> QED BY <2>1, <3>1, ConcatEmptySeq
  <2>3. Len(front \o back) = 0
    BY <2>2, EmptySeq
  <2> QED BY <1>1, <2>3
<1>4. PICK p \in 1 .. Len(IterSlots) : IterSlots[p] = (front \o back)[n]
  BY <1>1, <1>3, LentIsInBuffer
<1>5. given = << >> /\ count = 0
  BY <1>3 DEF Inv, Borrowing
<1>6. Buffer' /\ Queue!Assign(p, v) /\ p \in 1 .. Capacity
  <2>1. slot' = [slot EXCEPT ![IterSlots[p]] = v]
    BY <1>1, <1>4
  <2>2. Buffer /\ writeIdx' = writeIdx /\ readIdx' = readIdx /\ given' = << >> /\ count' = 0
    BY <1>2, <1>5 DEF Inv
  <2> QED BY <2>1, <2>2, AssignIs
<1>7. IterSlots' = IterSlots
  BY <1>2, SlicesStay
<1>8. Borrowing'
  BY <1>2, <1>7 DEF Inv, Borrowing
<1>9. IteratorsMeet'
  BY <1>2, <1>7 DEF Inv, IteratorsMeet
<1>10. TypeOK'
  BY <1>2, <1>6 DEF Inv, TypeOK, Buffer, Cell
<1> QED BY <1>6, <1>8, <1>9, <1>10 DEF Inv

\* The iterator and its loans end.
LEMMA IterEndIs ==
    ASSUME Inv, IterEnd, UNCHANGED overwrite
    PROVE  Inv' /\ UNCHANGED Queue!queueVars
<1>1. /\ left' = << >> /\ front' = << >> /\ back' = << >>
      /\ UNCHANGED <<slot, writeIdx, readIdx, given, count>>
  BY DEF IterEnd, answer
<1>2. Contents' = Contents
  BY <1>1 DEF Contents, ReadAt
<1>3. Buffer'
  BY <1>1, <1>2 DEF Inv, Buffer
<1>4. Borrowing' /\ IteratorsMeet'
  BY <1>1 DEF Borrowing, IteratorsMeet
<1>5. TypeOK'
  BY <1>1, <1>3, EmptySeq DEF Inv, TypeOK, Buffer, Cell
<1> QED BY <1>1, <1>2, <1>3, <1>4, <1>5 DEF Inv, Queue!queueVars

-----------------------------------------------------------------------------
(* The invariant is inductive, and each step is one of the queue's or none. *)

LEMMA InitIs ==
    ASSUME Init
    PROVE  Inv /\ Queue!Init
<1>1. /\ overwrite \in BOOLEAN /\ slot = [k \in Slot |-> NoValue]
      /\ writeIdx = 0 /\ readIdx = 0 /\ given = << >> /\ count = 0
      /\ left = << >> /\ front = << >> /\ back = << >>
  BY DEF Init
<1>2. 0 \in Index /\ slot \in [Slot -> Cell] /\ count \in 0 .. MaxBatch + Capacity
  BY <1>1, RingIndexAssumption, GenericAssumption DEF Index, Cell
<1>3. Contents = << >> /\ WrapSub(writeIdx, readIdx) = 0
  <2>1. Contents = Window(slot, writeIdx, readIdx)
    BY DEF Contents, ReadAt, Window
  <2>2. Window(slot, 0, 0) = << >> /\ WrapSub(0, 0) = 0
    BY <1>2, WindowEmpty
  <2> QED BY <1>1, <2>1, <2>2
<1>4. << >> \in Seq(Value) /\ << >> \in Seq(Slot)
  BY EmptySeq
<1>5. Buffer
  BY <1>1, <1>2, <1>3, <1>4, RingIndexAssumption DEF Buffer
<1>6. TypeOK
  BY <1>1, <1>4, <1>5 DEF TypeOK, Buffer, Cell
<1>7. Borrowing /\ IteratorsMeet
  BY <1>1 DEF Borrowing, IteratorsMeet
<1> QED BY <1>1, <1>3, <1>5, <1>6, <1>7 DEF Inv, Queue!Init

LEMMA NextIs ==
    ASSUME Inv, Next
    PROVE  Inv' /\ [Queue!Next]_(Queue!queueVars)
<1>1. UNCHANGED overwrite
  BY DEF Next
<1>2. CASE left = << >> /\ Call /\ UNCHANGED lent
  <2>1. Buffer' /\ [Queue!Next]_(Queue!queueVars)
    BY <1>1, <1>2, CallIs
  <2>2. left' = << >> /\ front' = << >> /\ back' = << >>
    BY <1>2 DEF lent, Inv, Borrowing
  <2>3. Borrowing' /\ IteratorsMeet'
    BY <2>2 DEF Borrowing, IteratorsMeet
  <2>4. TypeOK'
    BY <1>1, <2>1, <2>2, EmptySeq DEF Inv, TypeOK, Buffer, Cell
  <2> QED BY <2>1, <2>3, <2>4 DEF Inv
<1>3. CASE IterBegin
  <2>1. Inv' /\ Queue!PopSlice(0)
    BY <1>1, <1>3, IterBeginIs
  <2>2. 0 \in 0 .. MaxBatch
    BY GenericAssumption
  <2> QED BY <1>1, <2>1, <2>2 DEF Queue!Next, Queue!Step
<1>4. CASE IterNext
  BY <1>1, <1>4, IterNextIs
<1>5. CASE IterNextBack
  BY <1>1, <1>5, IterNextBackIs
<1>6. ASSUME NEW v \in Value, IterAssign(v)
      PROVE  Inv' /\ Queue!Step
  BY <1>1, <1>6, IterAssignIs DEF Queue!Step
<1>7. CASE IterEnd
  BY <1>1, <1>7, IterEndIs
<1> QED BY <1>1, <1>2, <1>3, <1>4, <1>5, <1>6, <1>7 DEF Next, Iteration, Queue!Next

LEMMA StutterIs ==
    ASSUME Inv, UNCHANGED vars
    PROVE  Inv' /\ UNCHANGED Queue!queueVars
<1>1. UNCHANGED <<overwrite, slot, writeIdx, readIdx, given, count, left, front, back>>
  BY DEF vars, answer, lent
<1>2. Contents' = Contents
  BY <1>1 DEF Contents, ReadAt
<1>3. IterSlots' = IterSlots
  BY <1>1, SlicesStay
<1>4. TypeOK' /\ Buffer'
  BY <1>1, <1>2 DEF Inv, TypeOK, Buffer
<1>5. Borrowing'
  BY <1>1, <1>3 DEF Inv, Borrowing
<1>6. IteratorsMeet'
  BY <1>1, <1>3 DEF Inv, IteratorsMeet
<1> QED BY <1>1, <1>2, <1>4, <1>5, <1>6 DEF Inv, Queue!queueVars

\* In every state, between calls and while an iterator borrows the buffer, the indices are
\* at most a lap apart and every slot between them holds an element.
THEOREM Invariance == Spec => []Inv
<1>1. Init => Inv
  BY InitIs
<1>2. Inv /\ [Next]_vars => Inv'
  BY NextIs, StutterIs
<1> QED BY <1>1, <1>2, PTL DEF Spec

-----------------------------------------------------------------------------
(* What follows *)

\* In every state the buffer can be in, its indices and slots are well formed and it
\* holds at most capacity() elements (Core::len, push and push_slice of generic.rs).
THEOREM TypeCorrect == Spec => []TypeOK
<1>1. Inv => TypeOK
  BY DEF Inv
<1> QED BY <1>1, Invariance, PTL

\* as_slices and as_mut_slices are sound for every position of the data in the storage:
\* inside it, disjoint, initialised, and the elements oldest first.
THEOREM SlicesAreContents == Spec => []SlicesShowContents
<1>1. ASSUME Inv PROVE SlicesShowContents
  <2> DEFINE u == WrapSub(writeIdx, readIdx)
             n == Len(IterSlots)
             at(k) == SlotOf(WrapAdd(readIdx, k - 1))
  <2>1. /\ u \in Nat /\ u <= Capacity /\ Len(Contents) = u /\ Contents \in Seq(Value)
        /\ \A k \in 1 .. u : Contents[k] = slot[at(k)] /\ Contents[k] \in Value
    BY <1>1, QueueIs DEF Inv
  <2>2. n = u /\ \A k \in 1 .. u : IterSlots[k] = at(k)
    BY <1>1, SlicesAre DEF Inv, Buffer
  <2>3. /\ \A k \in 1 .. u : at(k) \in Slot
        /\ \A j, k \in 1 .. u : at(j) = at(k) => j = k
    <3>1. \A k \in 1 .. u : k \in 1 .. Capacity
      <4> HIDE DEF u
      <4> QED BY <2>1, RingIndexAssumption
    <3>2. readIdx \in Index
      BY <1>1 DEF Inv, Buffer
    <3> QED BY <3>1, <3>2, WindowSlots
  <2> HIDE DEF u, at
  <2>4. \A p \in 1 .. n :
          /\ IterSlots[p] \in Slot
          /\ \A q \in 1 .. p - 1 : IterSlots[q] # IterSlots[p]
    <3> SUFFICES ASSUME NEW p \in 1 .. u
        PROVE  /\ IterSlots[p] \in Slot
               /\ \A q \in 1 .. p - 1 : IterSlots[q] # IterSlots[p]
      BY <2>2
    <3>1. \A q \in 1 .. p - 1 : q \in 1 .. u /\ q # p
      BY <2>1
    <3> QED BY <2>2, <2>3, <3>1
  <2>5. [p \in 1 .. n |-> slot[IterSlots[p]]] = Contents
    <3> DEFINE e == [p \in 1 .. u |-> slot[IterSlots[p]]]
    <3>1. \A p \in 1 .. u : e[p] = Contents[p]
      BY <2>1, <2>2
    <3>2. \A p \in 1 .. u : slot[IterSlots[p]] \in Value
      BY <2>1, <2>2
    <3>3. e \in Seq(Value) /\ Len(e) = u
      BY <2>1, <3>2
    <3> HIDE DEF e
    <3>4. e = Contents
      BY <2>1, <3>1, <3>3, SeqEqual
    <3> QED BY <2>2, <3>4 DEF e
  <2>6. \A k \in 1 .. Len(Contents) : Contents[k] # NoValue
    BY <2>1, GenericAssumption
  <2> QED BY <2>4, <2>5, <2>6 DEF SlicesShowContents
<1> QED BY <1>1, Invariance, PTL

\* However calls of next and next_back are mixed, iter and iter_mut yield each element
\* at most once, from the oldest and from the newest, and lose none.
THEOREM IteratorsAreExact == Spec => []IteratorsMeet
<1>1. Inv => IteratorsMeet
  BY DEF Inv
<1> QED BY <1>1, Invariance, PTL

\* Call by call, and with what it returns, the buffer is a bounded queue that overwrites
\* or rejects: for every capacity, every width of the indices and every longest slice.
THEOREM Refinement == Spec => ImplementsQueue
<1>1. Init => Queue!Init
  BY InitIs
<1>2. Inv /\ [Next]_vars => [Queue!Next]_(Queue!queueVars)
  BY NextIs, StutterIs
<1> QED BY <1>1, <1>2, Invariance, PTL DEF Spec, ImplementsQueue, Queue!Spec
=============================================================================
