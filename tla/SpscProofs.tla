----------------------------- MODULE SpscProofs -----------------------------
(***************************************************************************)
(* Proofs about Spsc, for every Capacity, Modulus, Value and MaxBatch.     *)
(***************************************************************************)
EXTENDS Spsc, RingIndexProofs, SequenceTheorems

-----------------------------------------------------------------------------
(* Helpers *)

\* A slice given to push_slice is a non-empty sequence.
LEMMA BatchesAreSequences ==
    ASSUME NEW values \in Batches
    PROVE  values \in Seq(Value) /\ Len(values) >= 1
<1>1. PICK n \in 1 .. MaxBatch : values \in [1 .. n -> Value]
  BY DEF Batches
<1> QED BY <1>1, SpscAssumption

\* push and push_slice take as many values as they were given and as fit (to_push).
LEMMA FittingFits ==
    ASSUME NEW values \in Seq(Value), Len(values) >= 1,
           NEW read \in Index, writeIdx \in Index, Space(read) > 0
    PROVE  /\ Fitting(values, read) \in Seq(Value)
           /\ Len(Fitting(values, read)) >= 1
           /\ WrapSub(writeIdx, read) + Len(Fitting(values, read)) <= Capacity
<1> DEFINE n == Least(Space(read), Len(values))
<1>1. WrapSub(writeIdx, read) \in Nat
  BY SubType
<1>2. /\ Space(read) \in Nat
      /\ WrapSub(writeIdx, read) + Space(read) <= Capacity
  BY <1>1, RingIndexAssumption DEF Space
<1>3. n \in 1 .. Len(values) /\ n <= Space(read)
  BY <1>2, LenProperties DEF Least
<1>4. /\ SubSeq(values, 1, n) \in Seq(Value)
      /\ Len(SubSeq(values, 1, n)) = n
  BY <1>3, SubSeqProperties, LenProperties
<1>5. Fitting(values, read) = SubSeq(values, 1, n)
  BY DEF Fitting
<1> HIDE DEF n
<1> QED BY <1>1, <1>2, <1>3, <1>4, <1>5, RingIndexAssumption

-----------------------------------------------------------------------------
(***************************************************************************)
(* The inductive invariant.  Seen from write_idx backwards, the producer's *)
(* knowledge of read_idx is ordered                                        *)
(*     readIdx, the stores it may load, knownRead, cachedRead              *)
(* and its whole span is at most Capacity; seen from read_idx forwards the *)
(* consumer's knowledge of write_idx is ordered                            *)
(*     cachedWrite, knownWritten, the stores it may load, writeIdx.        *)
(* Distances are wrapped differences, so the order is stated by them.      *)
(***************************************************************************)
ProducerKnows ==
    /\ WrapSub(writeIdx, readIdx) <= WrapSub(writeIdx, knownRead)
    /\ WrapSub(writeIdx, knownRead) <= WrapSub(writeIdx, cachedRead)
    /\ WrapSub(writeIdx, cachedRead) <= Capacity
    /\ \A st \in readStores :
         /\ st.release
         /\ WrapSub(writeIdx, readIdx) <= WrapSub(writeIdx, st.val)
         /\ WrapSub(writeIdx, st.val) <= WrapSub(writeIdx, knownRead)

ConsumerKnows ==
    /\ WrapSub(cachedWrite, readIdx) <= WrapSub(knownWritten, readIdx)
    /\ WrapSub(knownWritten, readIdx) <= WrapSub(writeIdx, readIdx)
    /\ \A st \in writeStores :
         /\ st.release
         /\ WrapSub(knownWritten, readIdx) <= WrapSub(st.val, readIdx)
         /\ WrapSub(st.val, readIdx) <= WrapSub(writeIdx, readIdx)

\* A push that copies fits beside what the cached index shows, and the slots copied
\* so far hold its values.
PushInProgress ==
    /\ ppc \in {"load", "copy"} => Len(batch) >= 1
    /\ ppc = "copy" => WrapSub(writeIdx, cachedRead) + Len(batch) <= Capacity
    /\ ppc # "copy" => written = 0
    /\ written <= Len(batch)
    /\ \A k \in 0 .. written - 1 : slot[SlotOf(WrapAdd(writeIdx, k))] = batch[k + 1]

\* A pop that copies, or a peek, stays below what the consumer knows was written.
PopInProgress ==
    /\ cpc = "load" => want >= 1
    /\ cpc = "copy" => want >= 1 /\ want <= WrapSub(cachedWrite, readIdx)
    /\ cpc = "peek" => WrapSub(knownWritten, readIdx) >= 1
    /\ cpc # "copy" => got = << >>
    /\ Len(got) <= want
    /\ \A k \in 1 .. Len(got) : got[k] = slot[SlotOf(WrapAdd(readIdx, k - 1))]

\* Every slot between the two indices holds a value.
Filled ==
    \A k \in 0 .. WrapSub(writeIdx, readIdx) - 1 :
        slot[SlotOf(WrapAdd(readIdx, k))] \in Value

\* What both threads rely on: the typing, the two chains of indices, what the calls in
\* progress have done so far, and that every queued slot is filled.
Inv ==
    /\ TypeOK
    /\ ProducerKnows
    /\ ConsumerKnows
    /\ PushInProgress
    /\ PopInProgress
    /\ Filled

-----------------------------------------------------------------------------
(* The steps *)

\* A load of read_idx leaves the producer knowing at least as much as before, and
\* the load is of a position between its old knowledge and readIdx.
LEMMA LoadReadIdxKeeps ==
    ASSUME Inv, NEW st \in readStores, LoadReadIdx(st),
           UNCHANGED <<writeIdx, readIdx>>
    PROVE  /\ st.val \in Index
           /\ knownRead' = st.val
           /\ readStores' \subseteq readStores
           /\ WrapSub(writeIdx, readIdx) <= WrapSub(writeIdx, st.val)
           /\ WrapSub(writeIdx, st.val) <= WrapSub(writeIdx, knownRead)
           /\ \A s \in readStores' :
                /\ s.release
                /\ WrapSub(writeIdx, readIdx) <= WrapSub(writeIdx, s.val)
                /\ WrapSub(writeIdx, s.val) <= WrapSub(writeIdx, st.val)
BY DEF Inv, TypeOK, ProducerKnows, Store, LoadReadIdx, AcquireLoad

\* The same for the consumer and write_idx.
LEMMA LoadWriteIdxKeeps ==
    ASSUME Inv, NEW st \in writeStores, LoadWriteIdx(st),
           UNCHANGED <<writeIdx, readIdx>>
    PROVE  /\ st.val \in Index
           /\ knownWritten' = st.val
           /\ writeStores' \subseteq writeStores
           /\ WrapSub(st.val, readIdx) <= WrapSub(writeIdx, readIdx)
           /\ WrapSub(knownWritten, readIdx) <= WrapSub(st.val, readIdx)
           /\ \A s \in writeStores' :
                /\ s.release
                /\ WrapSub(st.val, readIdx) <= WrapSub(s.val, readIdx)
                /\ WrapSub(s.val, readIdx) <= WrapSub(writeIdx, readIdx)
BY DEF Inv, TypeOK, ConsumerKnows, Store, LoadWriteIdx, AcquireLoad

\* The distances the invariant compares are natural numbers.
LEMMA Distances ==
    ASSUME TypeOK
    PROVE  /\ WrapSub(writeIdx, readIdx) \in Nat
           /\ WrapSub(writeIdx, knownRead) \in Nat
           /\ WrapSub(writeIdx, cachedRead) \in Nat
           /\ WrapSub(cachedWrite, readIdx) \in Nat
           /\ WrapSub(knownWritten, readIdx) \in Nat
           /\ \A st \in readStores : WrapSub(writeIdx, st.val) \in Nat
           /\ \A st \in writeStores : WrapSub(st.val, readIdx) \in Nat
           /\ Len(batch) \in Nat /\ Len(got) \in Nat
BY SubType, LenProperties DEF TypeOK, Store

\* The invariant holds of a new buffer: both indices are 0, so nothing is queued, known
\* or in progress (spsc::new).
LEMMA InitInv == Init => Inv
<1> SUFFICES ASSUME Init PROVE Inv
  OBVIOUS
<1> USE DEF Init
<1>0. 0 \in Index /\ 0 \in Nat
  BY RingIndexAssumption DEF Index
<1>1. WrapSub(0, 0) = 0
  BY <1>0, SubType
<1>2. TypeOK
  <2>1. << >> \in Seq(Value)
    BY EmptySeq
  <2>2. slot \in [Slot -> Value \cup {NoValue}]
    OBVIOUS
  <2>3. Release(0) \in Store
    BY <1>0 DEF Release, Store
  <2> QED BY <1>0, <2>1, <2>2, <2>3 DEF TypeOK
<1>3. ProducerKnows /\ ConsumerKnows
  BY <1>0, <1>1, RingIndexAssumption DEF ProducerKnows, ConsumerKnows, Release
<1>4. PushInProgress /\ PopInProgress
  <2>1. Len(<< >>) = 0
    BY EmptySeq
  <2> QED BY <2>1 DEF PushInProgress, PopInProgress
<1>5. Filled
  BY <1>1 DEF Filled
<1> QED BY <1>2, <1>3, <1>4, <1>5 DEF Inv

\* A push that finds room by its cached index keeps the invariant: the batch fits beside
\* what cached_read shows, which is at least what is queued.  One that does not waits.
LEMMA PushBeginKeepsInv ==
    ASSUME Inv, NEW values \in Batches, PushCached(values) \/ PushUncached(values)
    PROVE  Inv'
<1> USE DEF Inv
<1>1. values \in Seq(Value) /\ Len(values) >= 1
  BY BatchesAreSequences
<1>2. /\ batch' \in Seq(Value) /\ Len(batch') >= 1
      /\ ppc' = "copy" => WrapSub(writeIdx, cachedRead) + Len(batch') <= Capacity
      /\ ppc' \in {"load", "copy"}
  <2>1. CASE PushCached(values)
    BY <2>1, <1>1, FittingFits DEF PushCached, TypeOK
  <2>2. CASE PushUncached(values)
    BY <2>2, <1>1 DEF PushUncached
  <2> QED BY <2>1, <2>2
<1>3. UNCHANGED <<sharedVars, cachedRead, written, knownRead, consumerVars>>
  BY DEF PushCached, PushUncached
<1>4. written = 0
  BY DEF PushCached, PushUncached, PushInProgress
<1>5. TypeOK'
  BY <1>2, <1>3 DEF TypeOK, sharedVars, consumerVars
<1>6. PushInProgress'
  BY <1>2, <1>3, <1>4 DEF PushInProgress, sharedVars
<1>7. ProducerKnows' /\ ConsumerKnows' /\ PopInProgress' /\ Filled'
  BY <1>3 DEF ProducerKnows, ConsumerKnows, PopInProgress, Filled, sharedVars,
              consumerVars
<1> QED BY <1>5, <1>6, <1>7

\* The producer's load of read_idx keeps the invariant: what it caches lies between the
\* old cached index and readIdx, whichever store the load returned.
LEMMA PushLoadKeepsInv ==
    ASSUME Inv, NEW st \in readStores, PushLoad(st)
    PROVE  Inv'
<1> USE DEF Inv
<1>1. UNCHANGED <<slot, writeIdx, readIdx, writeStores, written, consumerVars>>
  BY DEF PushLoad
<1>2. LoadReadIdx(st) /\ cachedRead' = st.val
  BY DEF PushLoad, Refreshed
<1>3. /\ st.val \in Index
      /\ knownRead' = st.val
      /\ readStores' \subseteq readStores
      /\ WrapSub(writeIdx, readIdx) <= WrapSub(writeIdx, st.val)
      /\ WrapSub(writeIdx, st.val) <= WrapSub(writeIdx, knownRead)
      /\ \A s \in readStores' :
           /\ s.release
           /\ WrapSub(writeIdx, readIdx) <= WrapSub(writeIdx, s.val)
           /\ WrapSub(writeIdx, s.val) <= WrapSub(writeIdx, st.val)
  BY <1>1, <1>2, LoadReadIdxKeeps
<1>4. ppc = "load" /\ written = 0 /\ Len(batch) >= 1
  BY DEF PushLoad, PushInProgress
<1>5. \/ /\ ppc' = "copy"
         /\ batch' \in Seq(Value) /\ Len(batch') >= 1
         /\ WrapSub(writeIdx, st.val) + Len(batch') <= Capacity
      \/ ppc' = "idle" /\ batch' = << >>
  BY <1>2, <1>3, <1>4, FittingFits DEF PushLoad, TypeOK
<1>6. << >> \in Seq(Value) /\ Len(<< >>) = 0
  BY EmptySeq
<1>7. TypeOK'
  BY <1>1, <1>2, <1>3, <1>5, <1>6 DEF TypeOK, consumerVars
<1>8. ProducerKnows'
  BY <1>1, <1>2, <1>3, Distances, SubType, RingIndexAssumption
     DEF ProducerKnows, TypeOK, consumerVars
<1>9. PushInProgress'
  BY <1>1, <1>2, <1>4, <1>5, <1>6 DEF PushInProgress
<1>10. ConsumerKnows' /\ PopInProgress' /\ Filled'
  BY <1>1 DEF ConsumerKnows, PopInProgress, Filled, consumerVars
<1> QED BY <1>7, <1>8, <1>9, <1>10

\* While a push copies, what it writes, what is queued and the lap of the buffer are
\* within bounds: queue and batch together fit into Capacity.
LEMMA PushFits ==
    ASSUME Inv, ppc = "copy"
    PROVE  /\ WrapSub(writeIdx, readIdx) \in Nat /\ Len(batch) \in Nat /\ written \in Nat
           /\ WrapSub(writeIdx, readIdx) + Len(batch) <= Capacity
           /\ written <= Len(batch)
BY Distances, RingIndexAssumption DEF Inv, TypeOK, ProducerKnows, PushInProgress

\* Element j of the batch goes to a slot that no queued element k occupies.
LEMMA WritesAreApart ==
    ASSUME Inv, ppc = "copy", NEW j \in 0 .. Len(batch) - 1,
           NEW k \in 0 .. WrapSub(writeIdx, readIdx) - 1
    PROVE  SlotOf(WrapAdd(writeIdx, j)) # SlotOf(WrapAdd(readIdx, k))
<1> DEFINE d == WrapSub(writeIdx, readIdx)
<1>1. d \in Nat /\ d + j < Capacity /\ k < d /\ k \in 0 .. Capacity - 1
  BY PushFits, RingIndexAssumption
<1>2. writeIdx \in Index /\ readIdx \in Index
  BY DEF Inv, TypeOK
<1>3. WrapAdd(writeIdx, j) = WrapAdd(readIdx, d + j)
  <2>1. WrapAdd(readIdx, d) = writeIdx
    BY <1>2, AdvanceByDistance
  <2> HIDE DEF d
  <2> QED BY <1>1, <1>2, <2>1, AdvanceTwice, RingIndexAssumption
<1>4. d + j \in 0 .. Capacity - 1 /\ d + j # k
  BY <1>1, RingIndexAssumption
<1> HIDE DEF d
<1> QED BY <1>1, <1>2, <1>3, <1>4, WindowIsInjective

\* Writing an element into its slot keeps the invariant: the slot is none of those that
\* are queued, so what pops have read or will read is unchanged.
LEMMA PushCopyKeepsInv ==
    ASSUME Inv, PushCopy
    PROVE  Inv'
<1> USE DEF Inv
<1> DEFINE c == SlotOf(WrapAdd(writeIdx, written))
<1>1. /\ ppc = "copy" /\ written < Len(batch)
      /\ written' = written + 1
      /\ UNCHANGED <<writeIdx, readIdx, writeStores, readStores, knownRead,
                     ppc, cachedRead, batch, consumerVars>>
  BY DEF PushCopy
<1>2. writeIdx \in Index /\ readIdx \in Index /\ written \in Nat /\ Len(batch) <= Capacity
  BY <1>1, PushFits, RingIndexAssumption DEF TypeOK
<1>3. written \in 0 .. Capacity - 1 /\ written \in 0 .. Len(batch) - 1
  BY <1>1, <1>2, PushFits, RingIndexAssumption
<1>4. slot' = [slot EXCEPT ![c] = batch[written + 1]] /\ c \in Slot
  BY <1>2, <1>3, CopySlotIsSlotOf DEF PushCopy
<1>5. batch[written + 1] \in Value
  BY <1>3, ElementOfSeq, PushFits, <1>1 DEF TypeOK
<1>6. slot'[c] = batch[written + 1] /\ \A x \in Slot : x # c => slot'[x] = slot[x]
  BY <1>4 DEF TypeOK
<1>7. ASSUME NEW k \in 0 .. WrapSub(writeIdx, readIdx) - 1
      PROVE  slot'[SlotOf(WrapAdd(readIdx, k))] = slot[SlotOf(WrapAdd(readIdx, k))]
  <2>1. SlotOf(WrapAdd(readIdx, k)) # c
    BY <1>1, <1>3, WritesAreApart
  <2>2. k \in 0 .. Capacity - 1
    BY <1>1, PushFits, RingIndexAssumption
  <2>3. SlotOf(WrapAdd(readIdx, k)) \in Slot
    BY <2>2, <1>2, CopySlotIsSlotOf
  <2> QED BY <1>6, <2>1, <2>3
<1>8. ASSUME NEW k \in 0 .. written - 1
      PROVE  slot'[SlotOf(WrapAdd(writeIdx, k))] = batch[k + 1]
  <2>1. k \in 0 .. Capacity - 1 /\ k # written
    BY <1>2, <1>3, RingIndexAssumption
  <2>2. SlotOf(WrapAdd(writeIdx, k)) # c
    BY <1>2, <1>3, <2>1, WindowIsInjective
  <2>3. SlotOf(WrapAdd(writeIdx, k)) \in Slot
    BY <2>1, <1>2, CopySlotIsSlotOf
  <2> QED BY <1>6, <2>2, <2>3 DEF PushInProgress
<1>9. TypeOK'
  BY <1>1, <1>4, <1>5 DEF TypeOK, consumerVars
<1>10. PushInProgress'
  <2>1. ASSUME NEW k \in 0 .. written' - 1
        PROVE  slot'[SlotOf(WrapAdd(writeIdx, k))] = batch[k + 1]
    <3>1. k \in 0 .. written - 1 \/ k = written
      BY <1>1, <1>2
    <3> QED BY <3>1, <1>6, <1>8
  <2> QED BY <1>1, <1>2, <2>1, PushFits DEF PushInProgress
<1>11. PopInProgress'
  <2>1. ASSUME NEW k \in 1 .. Len(got)
        PROVE  got[k] = slot'[SlotOf(WrapAdd(readIdx, k - 1))]
    <3>1. k - 1 \in 0 .. WrapSub(writeIdx, readIdx) - 1
      <4>1. cpc = "copy"
        BY EmptySeq DEF PopInProgress
      <4> QED BY <4>1, Distances DEF PopInProgress, ConsumerKnows, TypeOK
    <3> QED BY <3>1, <1>7 DEF PopInProgress
  <2> QED BY <1>1, <2>1 DEF PopInProgress, consumerVars
<1>12. Filled'
  BY <1>1, <1>7 DEF Filled
<1>13. ProducerKnows' /\ ConsumerKnows'
  BY <1>1 DEF ProducerKnows, ConsumerKnows, consumerVars
<1> QED BY <1>9, <1>10, <1>11, <1>12, <1>13

\* The store of write_idx keeps the invariant: the batch, all in its slots, becomes the
\* end of the queue, and every distance to write_idx grows by its length.
LEMMA PushStoreKeepsInv ==
    ASSUME Inv, PushStore
    PROVE  Inv'
<1> USE DEF Inv
<1> DEFINE d == WrapSub(writeIdx, readIdx)
           n == Len(batch)
<1>1. /\ ppc = "copy" /\ written = n
      /\ writeIdx' = WrapAdd(writeIdx, n)
      /\ writeStores' = writeStores \cup {Release(writeIdx')}
      /\ ppc' = "idle" /\ batch' = << >> /\ written' = 0
      /\ UNCHANGED <<slot, readIdx, readStores, cachedRead, knownRead, consumerVars>>
  BY DEF PushStore
<1>2. /\ writeIdx \in Index /\ readIdx \in Index
      /\ d \in Nat /\ n \in Nat /\ d + n <= Capacity
      /\ n \in 0 .. Modulus /\ d + n < Modulus
  BY <1>1, PushFits, RingIndexAssumption DEF TypeOK
<1>3. writeIdx' \in Index
  BY <1>1, <1>2, AddType
<1>4. WrapSub(writeIdx', readIdx) = d + n
  BY <1>1, <1>2, AdvanceFront
<1>5. << >> \in Seq(Value) /\ Len(<< >>) = 0
  BY EmptySeq
<1>6. TypeOK'
  <2>1. Release(writeIdx') \in Store
    BY <1>3 DEF Store, Release
  <2> QED BY <1>1, <1>3, <1>5, <2>1 DEF TypeOK, consumerVars
<1>7. ProducerKnows'
  <2>1. WrapSub(writeIdx, cachedRead) + n <= Capacity
    BY <1>1 DEF PushInProgress
  <2>2. /\ WrapSub(writeIdx', knownRead) = WrapSub(writeIdx, knownRead) + n
        /\ WrapSub(writeIdx', cachedRead) = WrapSub(writeIdx, cachedRead) + n
    BY <1>1, <1>2, <2>1, AdvanceFront, Distances, RingIndexAssumption
       DEF ProducerKnows, TypeOK
  <2>3. ASSUME NEW st \in readStores
        PROVE  WrapSub(writeIdx', st.val) = WrapSub(writeIdx, st.val) + n
    <3>1. st.val \in Index
      BY DEF TypeOK, Store
    <3>2. WrapSub(writeIdx, st.val) + n < Modulus
      BY <1>2, <2>1, Distances, RingIndexAssumption DEF ProducerKnows
    <3> QED BY <1>1, <1>2, <3>1, <3>2, AdvanceFront
  <2> QED BY <1>1, <1>2, <1>4, <2>1, <2>2, <2>3, Distances, RingIndexAssumption
          DEF ProducerKnows
<1>8. ConsumerKnows'
  BY <1>1, <1>2, <1>4, Distances DEF ConsumerKnows, Release, consumerVars
<1>9. PushInProgress'
  BY <1>1, <1>5 DEF PushInProgress
<1>10. PopInProgress'
  BY <1>1 DEF PopInProgress, consumerVars
<1>11. Filled'
  <2> SUFFICES ASSUME NEW k \in 0 .. (d + n) - 1
               PROVE  slot[SlotOf(WrapAdd(readIdx, k))] \in Value
    BY <1>1, <1>4 DEF Filled
  <2>1. CASE k < d
    <3>1. k \in 0 .. d - 1
      BY <2>1, <1>2
    <3> QED BY <3>1 DEF Filled
  <2>2. CASE ~(k < d)
    <3> DEFINE j == k - d
    <3>1. j \in 0 .. written - 1 /\ k = d + j /\ j + 1 \in 1 .. Len(batch)
      BY <1>1, <1>2, <2>2
    <3>2. WrapAdd(readIdx, d) = writeIdx
      BY <1>2, AdvanceByDistance
    <3>3. WrapAdd(writeIdx, j) = WrapAdd(readIdx, k)
      <4> HIDE DEF d, j
      <4> QED BY <1>2, <3>1, <3>2, AdvanceTwice, RingIndexAssumption
    <3>4. slot[SlotOf(WrapAdd(writeIdx, j))] = batch[j + 1]
      BY <3>1 DEF PushInProgress
    <3>5. batch[j + 1] \in Value
      BY <3>1, ElementOfSeq DEF TypeOK
    <3> QED BY <3>3, <3>4, <3>5
  <2> QED BY <2>1, <2>2
<1> QED BY <1>6, <1>7, <1>8, <1>9, <1>10, <1>11

\* The producer's query methods keep the invariant: they load without caching.
LEMMA ProducerQueryKeepsInv ==
    ASSUME Inv, NEW st \in readStores, ProducerQuery(st)
    PROVE  Inv'
<1> USE DEF Inv
<1>1. /\ LoadReadIdx(st)
      /\ UNCHANGED <<slot, writeIdx, readIdx, writeStores, ppc, cachedRead, batch,
                     written, consumerVars>>
  BY DEF ProducerQuery
<1>2. /\ st.val \in Index
      /\ knownRead' = st.val
      /\ readStores' \subseteq readStores
      /\ WrapSub(writeIdx, readIdx) <= WrapSub(writeIdx, st.val)
      /\ WrapSub(writeIdx, st.val) <= WrapSub(writeIdx, knownRead)
      /\ \A s \in readStores' :
           /\ s.release
           /\ WrapSub(writeIdx, readIdx) <= WrapSub(writeIdx, s.val)
           /\ WrapSub(writeIdx, s.val) <= WrapSub(writeIdx, st.val)
  BY <1>1, LoadReadIdxKeeps
<1>3. TypeOK'
  BY <1>1, <1>2 DEF TypeOK, consumerVars
<1>4. ProducerKnows'
  BY <1>1, <1>2, Distances, SubType DEF ProducerKnows, TypeOK, consumerVars
<1>5. ConsumerKnows' /\ PushInProgress' /\ PopInProgress' /\ Filled'
  BY <1>1 DEF ConsumerKnows, PushInProgress, PopInProgress, Filled, consumerVars
<1> QED BY <1>3, <1>4, <1>5

\* A pop that finds elements by its cached index keeps the invariant: it reads no more
\* than cached_write shows, all of which is known to be written.
LEMMA PopBeginKeepsInv ==
    ASSUME Inv, NEW n \in 1 .. MaxBatch, PopCached(n) \/ PopUncached(n)
    PROVE  Inv'
<1> USE DEF Inv
<1>1. UNCHANGED <<sharedVars, producerVars, cachedWrite, got, loop, knownWritten, joined>>
  BY DEF PopCached, PopUncached
<1>2. n \in Nat /\ n >= 1
  BY SpscAssumption
<1>3. cpc = "idle" /\ got = << >>
  BY DEF PopCached, PopUncached, PopInProgress
<1>4. /\ want' \in Nat /\ want' >= 1
      /\ cpc' \in {"load", "copy"}
      /\ cpc' = "copy" => want' <= WrapSub(cachedWrite, readIdx)
  BY <1>2, Distances DEF PopCached, PopUncached, Available, Least
<1>5. TypeOK'
  BY <1>1, <1>4 DEF TypeOK, sharedVars, producerVars
<1>6. PopInProgress'
  <2>1. Len(<< >>) = 0
    BY EmptySeq
  <2> QED BY <2>1, <1>1, <1>3, <1>4 DEF PopInProgress, sharedVars
<1>7. ProducerKnows' /\ ConsumerKnows' /\ PushInProgress' /\ Filled'
  BY <1>1 DEF ProducerKnows, ConsumerKnows, PushInProgress, Filled, sharedVars,
              producerVars
<1> QED BY <1>5, <1>6, <1>7

\* A load of write_idx that neither copies nor moves an index keeps the invariant's
\* account of what the consumer knows, whether or not the load is cached.
LEMMA LoadKeepsConsumerKnows ==
    ASSUME Inv, NEW st \in writeStores, LoadWriteIdx(st),
           UNCHANGED <<writeIdx, readIdx>>,
           cachedWrite' = cachedWrite \/ cachedWrite' = st.val
    PROVE  /\ ConsumerKnows'
           /\ cachedWrite' \in Index /\ knownWritten' \in Index
           /\ writeStores' \subseteq Store
<1>1. /\ st.val \in Index
      /\ knownWritten' = st.val
      /\ writeStores' \subseteq writeStores
      /\ WrapSub(st.val, readIdx) <= WrapSub(writeIdx, readIdx)
      /\ WrapSub(knownWritten, readIdx) <= WrapSub(st.val, readIdx)
      /\ \A s \in writeStores' :
           /\ s.release
           /\ WrapSub(st.val, readIdx) <= WrapSub(s.val, readIdx)
           /\ WrapSub(s.val, readIdx) <= WrapSub(writeIdx, readIdx)
  BY LoadWriteIdxKeeps
<1>2. WrapSub(cachedWrite', readIdx) <= WrapSub(st.val, readIdx)
  BY <1>1, Distances, SubType DEF Inv, TypeOK, ConsumerKnows
<1>3. ConsumerKnows'
  BY <1>1, <1>2 DEF ConsumerKnows
<1> QED BY <1>1, <1>3 DEF Inv, TypeOK

\* The consumer's load of write_idx keeps the invariant, and so does a pop, or a loop of
\* pops, that ends because the load showed nothing.
LEMMA PopLoadKeepsInv ==
    ASSUME Inv, NEW st \in writeStores, PopLoad(st)
    PROVE  Inv'
<1> USE DEF Inv
<1>1. /\ LoadWriteIdx(st) /\ cachedWrite' = st.val
      /\ UNCHANGED <<slot, writeIdx, readIdx, readStores, got, joined, producerVars>>
  BY DEF PopLoad, Refreshed
<1>2. /\ ConsumerKnows'
      /\ cachedWrite' \in Index /\ knownWritten' \in Index
      /\ writeStores' \subseteq Store
  BY <1>1, LoadKeepsConsumerKnows
<1>3. cpc = "load" /\ got = << >> /\ want \in Nat /\ want >= 1
  BY DEF PopLoad, PopInProgress, TypeOK
<1>4. /\ want' \in Nat
      /\ \/ cpc' = "copy" /\ want' >= 1 /\ want' <= WrapSub(cachedWrite', readIdx)
         \/ cpc' \in {"idle", "dropped"} /\ want' = 0
      /\ loop' \in {"none", "clear", "drop"}
  <2>1. WrapSub(cachedWrite', readIdx) \in Nat
    BY <1>2, SubType DEF TypeOK
  <2> QED BY <1>3, <2>1 DEF PopLoad, PopFails, Available, Least, TypeOK
<1>5. TypeOK'
  BY <1>1, <1>2, <1>4 DEF TypeOK, producerVars
<1>6. PopInProgress'
  <2>1. Len(<< >>) = 0
    BY EmptySeq
  <2> QED BY <2>1, <1>1, <1>3, <1>4 DEF PopInProgress
<1>7. ProducerKnows' /\ PushInProgress' /\ Filled'
  BY <1>1 DEF ProducerKnows, PushInProgress, Filled, producerVars
<1> QED BY <1>2, <1>5, <1>6, <1>7

\* What a pop has read, and what it still reads, is in the queue.
LEMMA PopFits ==
    ASSUME Inv, cpc = "copy"
    PROVE  /\ WrapSub(writeIdx, readIdx) \in Nat /\ want \in Nat /\ Len(got) \in Nat
           /\ WrapSub(writeIdx, readIdx) <= Capacity
           /\ want <= WrapSub(cachedWrite, readIdx)
           /\ want <= WrapSub(knownWritten, readIdx)
           /\ want <= WrapSub(writeIdx, readIdx)
           /\ Len(got) <= want
BY Distances, RingIndexAssumption
   DEF Inv, TypeOK, ProducerKnows, ConsumerKnows, PopInProgress

\* Reading an element out of its slot keeps the invariant: the slot is filled.
LEMMA PopCopyKeepsInv ==
    ASSUME Inv, PopCopy
    PROVE  Inv'
<1> USE DEF Inv
<1> DEFINE e == slot[SlotOf(WrapAdd(readIdx, Len(got)))]
<1>1. /\ cpc = "copy" /\ Len(got) < want
      /\ UNCHANGED <<sharedVars, producerVars, cpc, cachedWrite, want, loop,
                     knownWritten, joined>>
  BY DEF PopCopy
<1>2. /\ Len(got) \in 0 .. Capacity - 1
      /\ Len(got) \in 0 .. WrapSub(writeIdx, readIdx) - 1
  BY <1>1, PopFits, RingIndexAssumption
<1>3. got' = Append(got, e)
  BY <1>2, CopySlotIsSlotOf DEF PopCopy, TypeOK
<1>4. e \in Value
  BY <1>2 DEF Filled
<1> HIDE DEF e
<1>5. /\ got' \in Seq(Value) /\ Len(got') = Len(got) + 1
      /\ \A k \in 1 .. Len(got) : got'[k] = got[k]
      /\ got'[Len(got) + 1] = e
  BY <1>3, <1>4, AppendProperties DEF TypeOK
<1>6. TypeOK'
  BY <1>1, <1>5 DEF TypeOK, sharedVars, producerVars
<1>7. PopInProgress'
  <2>1. ASSUME NEW k \in 1 .. Len(got')
        PROVE  got'[k] = slot[SlotOf(WrapAdd(readIdx, k - 1))]
    <3>1. CASE k \in 1 .. Len(got)
      BY <3>1, <1>5 DEF PopInProgress
    <3>2. CASE k = Len(got) + 1
      <4>1. k - 1 = Len(got)
        BY <3>2, <1>2
      <4> QED BY <4>1, <3>2, <1>5 DEF e
    <3> QED BY <3>1, <3>2, <1>2, <1>5
  <2> QED BY <1>1, <1>2, <1>5, <2>1, PopFits DEF PopInProgress, sharedVars
<1>8. ProducerKnows' /\ ConsumerKnows' /\ PushInProgress' /\ Filled'
  BY <1>1 DEF ProducerKnows, ConsumerKnows, PushInProgress, Filled, sharedVars,
              producerVars
<1> QED BY <1>6, <1>7, <1>8

\* The store of read_idx keeps the invariant: every distance from read_idx shrinks by the
\* number of elements read, which none of them is below.
LEMMA PopStoreKeepsInv ==
    ASSUME Inv, PopStore
    PROVE  Inv'
<1> USE DEF Inv
<1> DEFINE d == WrapSub(writeIdx, readIdx)
<1>1. /\ cpc = "copy" /\ Len(got) = want
      /\ readIdx' = WrapAdd(readIdx, want)
      /\ readStores' = readStores \cup {Release(readIdx')}
      /\ cpc' = "idle" /\ want' = 0 /\ got' = << >>
      /\ UNCHANGED <<slot, writeIdx, writeStores, cachedWrite, loop, knownWritten,
                     joined, producerVars>>
  BY DEF PopStore
<1>2. /\ writeIdx \in Index /\ readIdx \in Index
      /\ cachedWrite \in Index /\ knownWritten \in Index
      /\ d \in Nat /\ want \in Nat /\ want <= d /\ d <= Capacity
      /\ want \in 0 .. Modulus
  BY <1>1, PopFits, RingIndexAssumption DEF TypeOK
<1>3. readIdx' \in Index
  BY <1>1, <1>2, AddType
<1>4. /\ WrapSub(writeIdx, readIdx') = d - want
      /\ WrapSub(cachedWrite, readIdx') = WrapSub(cachedWrite, readIdx) - want
      /\ WrapSub(knownWritten, readIdx') = WrapSub(knownWritten, readIdx) - want
  BY <1>1, <1>2, AdvanceBack, PopFits
<1>5. << >> \in Seq(Value) /\ Len(<< >>) = 0
  BY EmptySeq
<1>6. TypeOK'
  <2>1. Release(readIdx') \in Store
    BY <1>3 DEF Store, Release
  <2> QED BY <1>1, <1>3, <1>5, <2>1 DEF TypeOK, producerVars
<1>7. ProducerKnows'
  BY <1>1, <1>2, <1>4, Distances DEF ProducerKnows, Release, producerVars
<1>8. ConsumerKnows'
  <2>1. ASSUME NEW st \in writeStores
        PROVE  WrapSub(st.val, readIdx') = WrapSub(st.val, readIdx) - want
    <3>1. st.val \in Index
      BY DEF TypeOK, Store
    <3>2. want <= WrapSub(st.val, readIdx)
      BY <1>1, <1>2, PopFits, Distances DEF ConsumerKnows
    <3> QED BY <1>1, <1>2, <3>1, <3>2, AdvanceBack
  <2> QED BY <1>1, <1>2, <1>4, <2>1, Distances DEF ConsumerKnows
<1>9. PushInProgress'
  BY <1>1 DEF PushInProgress, producerVars
<1>10. PopInProgress'
  BY <1>1, <1>5 DEF PopInProgress
<1>11. Filled'
  <2> SUFFICES ASSUME NEW k \in 0 .. (d - want) - 1
               PROVE  slot[SlotOf(WrapAdd(readIdx', k))] \in Value
    BY <1>1, <1>4 DEF Filled
  <2>1. want + k \in 0 .. d - 1 /\ k \in Nat /\ want + k < Modulus
    BY <1>2, RingIndexAssumption
  <2>2. WrapAdd(readIdx', k) = WrapAdd(readIdx, want + k)
    BY <1>1, <1>2, <2>1, AdvanceTwice
  <2> QED BY <2>1, <2>2 DEF Filled
<1> QED BY <1>6, <1>7, <1>8, <1>9, <1>10, <1>11

\* The consumer's query methods keep the invariant: they load without caching.
LEMMA ConsumerQueryKeepsInv ==
    ASSUME Inv, NEW st \in writeStores, ConsumerQuery(st)
    PROVE  Inv'
<1> USE DEF Inv
<1>1. /\ LoadWriteIdx(st)
      /\ UNCHANGED <<slot, writeIdx, readIdx, readStores, cpc, cachedWrite, want,
                     got, loop, joined, producerVars>>
      /\ cpc = "idle"
  BY DEF ConsumerQuery
<1>2. /\ ConsumerKnows'
      /\ cachedWrite' \in Index /\ knownWritten' \in Index
      /\ writeStores' \subseteq Store
  BY <1>1, LoadKeepsConsumerKnows
<1>3. TypeOK'
  BY <1>1, <1>2 DEF TypeOK, producerVars
<1>4. ProducerKnows' /\ PushInProgress' /\ PopInProgress' /\ Filled'
  BY <1>1 DEF ProducerKnows, PushInProgress, PopInProgress, Filled, producerVars
<1> QED BY <1>2, <1>3, <1>4

\* A peek that finds an element keeps the invariant: the load it used made the element
\* known to be written.
LEMMA PeekBeginKeepsInv ==
    ASSUME Inv, NEW st \in writeStores, PeekBegin(st)
    PROVE  Inv'
<1> USE DEF Inv
<1>1. /\ LoadWriteIdx(st)
      /\ UNCHANGED <<slot, writeIdx, readIdx, readStores, cachedWrite, want, got,
                     loop, joined, producerVars>>
      /\ cpc = "idle" /\ cpc' = "peek"
      /\ WrapSub(st.val, readIdx) > 0
  BY DEF PeekBegin, Available
<1>2. /\ ConsumerKnows'
      /\ cachedWrite' \in Index /\ knownWritten' \in Index
      /\ writeStores' \subseteq Store
  BY <1>1, LoadKeepsConsumerKnows
<1>3. TypeOK'
  BY <1>1, <1>2 DEF TypeOK, producerVars
<1>4. PopInProgress'
  <2>1. knownWritten' = st.val
    BY <1>1, LoadWriteIdxKeeps
  <2>2. WrapSub(st.val, readIdx) >= 1
    BY <1>1, Distances
  <2> QED BY <1>1, <2>1, <2>2 DEF PopInProgress
<1>5. ProducerKnows' /\ PushInProgress' /\ Filled'
  BY <1>1 DEF ProducerKnows, PushInProgress, Filled, producerVars
<1> QED BY <1>2, <1>3, <1>4, <1>5

\* Joining the producer's thread keeps the invariant: the consumer then knows all that
\* was written.
LEMMA JoinKeepsInv ==
    ASSUME Inv, Join
    PROVE  Inv'
<1> USE DEF Inv
<1>1. /\ cpc = "idle"
      /\ joined' = TRUE
      /\ writeStores' = {st \in writeStores : st.val = writeIdx}
      /\ knownWritten' = writeIdx
      /\ UNCHANGED <<slot, writeIdx, readIdx, readStores, cpc, cachedWrite, want,
                     got, loop, producerVars>>
  BY DEF Join
<1>2. TypeOK'
  BY <1>1 DEF TypeOK, producerVars
<1>3. ConsumerKnows'
  BY <1>1, Distances DEF ConsumerKnows
<1>4. ProducerKnows' /\ PushInProgress' /\ PopInProgress' /\ Filled'
  BY <1>1 DEF ProducerKnows, PushInProgress, PopInProgress, Filled, producerVars
<1> QED BY <1>2, <1>3, <1>4

\* The steps that only move a program counter, and stuttering.
LEMMA ControlStepKeepsInv ==
    ASSUME Inv, ProducerDrop \/ ClearBegin \/ DropBegin \/ PeekEnd \/ UNCHANGED vars
    PROVE  Inv'
<1> USE DEF Inv
<1>1. CASE ProducerDrop
  BY <1>1 DEF ProducerDrop, sharedVars, consumerVars, TypeOK, ProducerKnows,
              ConsumerKnows, PushInProgress, PopInProgress, Filled
<1>2. CASE ClearBegin \/ DropBegin
  BY <1>2 DEF ClearBegin, DropBegin, sharedVars, producerVars, TypeOK, ProducerKnows,
              ConsumerKnows, PushInProgress, PopInProgress, Filled
<1>3. CASE PeekEnd
  BY <1>3 DEF PeekEnd, sharedVars, producerVars, TypeOK, ProducerKnows,
              ConsumerKnows, PushInProgress, PopInProgress, Filled
<1>4. CASE UNCHANGED vars
  BY <1>4 DEF vars, sharedVars, producerVars, consumerVars, TypeOK, ProducerKnows,
              ConsumerKnows, PushInProgress, PopInProgress, Filled
<1> QED BY <1>1, <1>2, <1>3, <1>4

\* The invariant is inductive: every step of either thread, and stuttering, keeps it.
LEMMA NextInv == Inv /\ [Next]_vars => Inv'
<1> SUFFICES ASSUME Inv, [Next]_vars PROVE Inv'
  OBVIOUS
<1>1. CASE PushBegin
  BY <1>1, PushBeginKeepsInv DEF PushBegin
<1>2. ASSUME NEW st \in readStores, PushLoad(st) PROVE Inv'
  BY <1>2, PushLoadKeepsInv
<1>3. CASE PushCopy
  BY <1>3, PushCopyKeepsInv
<1>4. CASE PushStore
  BY <1>4, PushStoreKeepsInv
<1>5. ASSUME NEW st \in readStores, ProducerQuery(st) PROVE Inv'
  BY <1>5, ProducerQueryKeepsInv
<1>6. CASE PopBegin
  BY <1>6, PopBeginKeepsInv DEF PopBegin
<1>7. ASSUME NEW st \in writeStores, PopLoad(st) PROVE Inv'
  BY <1>7, PopLoadKeepsInv
<1>8. CASE PopCopy
  BY <1>8, PopCopyKeepsInv
<1>9. CASE PopStore
  BY <1>9, PopStoreKeepsInv
<1>10. ASSUME NEW st \in writeStores, ConsumerQuery(st) PROVE Inv'
  BY <1>10, ConsumerQueryKeepsInv
<1>11. ASSUME NEW st \in writeStores, PeekBegin(st) PROVE Inv'
  BY <1>11, PeekBeginKeepsInv
<1>12. CASE Join
  BY <1>12, JoinKeepsInv
<1>13. CASE ProducerDrop \/ ClearBegin \/ DropBegin \/ PeekEnd \/ UNCHANGED vars
  BY <1>13, ControlStepKeepsInv
<1> QED BY <1>1, <1>2, <1>3, <1>4, <1>5, <1>6, <1>7, <1>8, <1>9, <1>10, <1>11,
           <1>12, <1>13 DEF Next, ProducerNext, ConsumerNext

\* Inv holds in every reachable state.
THEOREM Invariance == Spec => []Inv
BY InitInv, NextInv, PTL DEF Spec

-----------------------------------------------------------------------------
(* The properties *)

\* Every variable has its type: in particular the indices stay in range when they
\* wrap, and a slot that was never written is never read out.
THEOREM TypeCorrect == Spec => []TypeOK
<1>1. Inv => TypeOK
  BY DEF Inv
<1> QED BY <1>1, Invariance, PTL

\* While both calls copy, and while a peeked reference is held, the two threads use
\* different slots: an element of the batch is less than a lap ahead of one that is
\* still to be read.
LEMMA SlotsAreApart == Inv => NoSharedSlot
<1> SUFFICES ASSUME Inv, NEW c \in WritingSlots, NEW x \in ReadingSlots
             PROVE  c # x
  BY DEF NoSharedSlot
<1>1. writeIdx \in Index /\ readIdx \in Index
  BY DEF Inv, TypeOK
<1>2. ppc = "copy"
  BY DEF WritingSlots
<1>3. PICK j \in 0 .. Len(batch) - 1 : c = CopySlot(writeIdx, j)
  BY <1>2 DEF WritingSlots
<1>4. c = SlotOf(WrapAdd(writeIdx, j))
  <2>1. j \in 0 .. Capacity - 1
    BY <1>2, PushFits, RingIndexAssumption
  <2> QED BY <1>1, <1>3, <2>1, CopySlotIsSlotOf
<1>5. PICK k \in 0 .. WrapSub(writeIdx, readIdx) - 1 : x = SlotOf(WrapAdd(readIdx, k))
  <2>1. CASE cpc = "copy"
    <3>1. PICK k \in 0 .. want - 1 : x = CopySlot(readIdx, k)
      BY <2>1 DEF ReadingSlots
    <3>2. k \in 0 .. Capacity - 1 /\ k \in 0 .. WrapSub(writeIdx, readIdx) - 1
      BY <2>1, PopFits, RingIndexAssumption
    <3> QED BY <1>1, <3>1, <3>2, CopySlotIsSlotOf
  <2>2. CASE cpc = "peek"
    <3>1. x = SlotOf(WrapAdd(readIdx, 0))
      BY <2>2, <1>1, AdvanceByDistance DEF ReadingSlots
    <3>2. WrapSub(writeIdx, readIdx) \in Nat /\ WrapSub(writeIdx, readIdx) >= 1
      BY <2>2, Distances DEF Inv, PopInProgress, ConsumerKnows
    <3> QED BY <3>1, <3>2
  <2> QED BY <2>1, <2>2 DEF ReadingSlots
<1> QED BY <1>2, <1>4, <1>5, WritesAreApart

\* No data race on a slot, whatever stale index the two handles decide on.
THEOREM NoRace == Spec => []NoDataRace
<1>1. Inv => WritesAreOrdered
  BY Distances, RingIndexAssumption
     DEF Inv, TypeOK, ProducerKnows, PushInProgress, WritesAreOrdered
<1>2. Inv => ReadsAreOrdered
  <2> SUFFICES ASSUME Inv, cpc \in {"copy", "peek"}
               PROVE  WrapSub(knownWritten, readIdx)
                        \in (IF cpc = "copy" THEN want ELSE 1) .. Capacity
    BY DEF ReadsAreOrdered
  <2>1. /\ WrapSub(knownWritten, readIdx) \in Nat
        /\ WrapSub(knownWritten, readIdx) <= Capacity
    BY Distances, RingIndexAssumption DEF Inv, ProducerKnows, ConsumerKnows
  <2>2. CASE cpc = "copy"
    BY <2>1, <2>2, PopFits, RingIndexAssumption
  <2>3. CASE cpc = "peek"
    BY <2>1, <2>3, RingIndexAssumption DEF Inv, PopInProgress
  <2> QED BY <2>2, <2>3
<1>3. Inv => NoDataRace
  BY <1>1, <1>2, SlotsAreApart DEF NoDataRace
<1> QED BY <1>3, Invariance, PTL

\* The queries answer on the safe side, whichever store their load returns.
THEOREM SafeQueries == Spec => []QueriesAreSafe
<1>1. Inv => QueriesAreSafe
  BY Distances, RingIndexAssumption
     DEF Inv, TypeOK, ProducerKnows, ConsumerKnows, QueriesAreSafe
<1> QED BY <1>1, Invariance, PTL

\* A push fails only on a buffer full as far as the producer has observed, and a pop
\* only on an empty one.
THEOREM HonestFailure == Spec => FailureIsHonest
<1>1. ASSUME Inv, [Next]_vars PROVE FailsHonestly
  <2>1. ASSUME ppc = "load", ppc' = "idle"
        PROVE  \E st \in readStores' : Space(st.val) = 0
    <3>1. PICK st \in readStores : PushLoad(st)
      BY <1>1, <2>1
         DEF Next, ProducerNext, ConsumerNext, vars, producerVars, sharedVars,
             consumerVars, PushBegin, PushCached, PushUncached, PushCopy, PushStore,
             ProducerQuery, ProducerDrop, PopBegin, PopCached, PopUncached, PopLoad,
             PopCopy, PopStore, ClearBegin, DropBegin, ConsumerQuery, PeekBegin,
             PeekEnd, Join
    <3>2. Space(st.val) = 0
      BY <2>1, <3>1 DEF PushLoad, Refreshed
    <3>3. st \in readStores'
      BY <3>1, <1>1, Distances DEF PushLoad, LoadReadIdx, Inv
    <3> QED BY <3>2, <3>3
  <2>2. ASSUME cpc = "load", cpc' \in {"idle", "dropped"}
        PROVE  \E st \in writeStores' : st.val = readIdx
    <3>1. PICK st \in writeStores : PopLoad(st)
      BY <1>1, <2>2
         DEF Next, ProducerNext, ConsumerNext, vars, producerVars, sharedVars,
             consumerVars, PushBegin, PushCached, PushUncached, PushLoad, PushCopy,
             PushStore, ProducerQuery, ProducerDrop, PopBegin, PopCached, PopUncached,
             PopCopy, PopStore, ClearBegin, DropBegin, ConsumerQuery, PeekBegin,
             PeekEnd, Join
    <3>2. WrapSub(st.val, readIdx) = 0
      BY <2>2, <3>1 DEF PopLoad, PopFails, Refreshed, Available
    <3>3. st.val = readIdx
      BY <1>1, <3>1, <3>2, SubType DEF Inv, TypeOK, Store
    <3>4. st \in writeStores'
      BY <3>1, <1>1, Distances DEF PopLoad, LoadWriteIdx, Inv
    <3> QED BY <3>3, <3>4
  <2> QED BY <2>1, <2>2 DEF FailsHonestly
<1>2. Inv /\ [Next]_vars => [FailsHonestly]_vars
  BY <1>1
<1> QED BY <1>2, Invariance, PTL DEF FailureIsHonest, Spec

\* After the join the consumer can load nothing but the final write index, and it is
\* dropped only when that equals its own.
Joined ==
    /\ joined => ppc = "dropped" /\ \A st \in writeStores : st.val = writeIdx
    /\ joined /\ cpc = "dropped" => readIdx = writeIdx

\* A Consumer dropped after the join leaves nothing in the buffer.
THEOREM CleanDrop == Spec => []DropAfterJoinIsClean
<1>1. Init => Joined
  BY DEF Init, Joined
<1>2. Inv /\ Joined /\ [Next]_vars => Joined'
  <2> SUFFICES ASSUME Inv, Joined, [Next]_vars PROVE Joined'
    OBVIOUS
  <2> USE DEF Joined, sharedVars, producerVars, consumerVars
  <2>1. CASE ProducerNext
    BY <2>1 DEF ProducerNext, PushBegin, PushCached, PushUncached, PushLoad, PushCopy,
                PushStore, ProducerQuery, ProducerDrop
  <2>2. ASSUME NEW st \in writeStores, PopLoad(st) PROVE Joined'
    <3>1. WrapSub(st.val, readIdx) = 0 => st.val = readIdx
      BY SubType DEF Inv, TypeOK, Store
    <3>2. writeStores' \subseteq writeStores
      BY <2>2 DEF PopLoad, LoadWriteIdx
    <3> QED BY <2>2, <3>1, <3>2 DEF PopLoad, PopFails, Refreshed, Available
  <2>3. ASSUME NEW st \in writeStores, ConsumerQuery(st) \/ PeekBegin(st) PROVE Joined'
    <3>1. writeStores' \subseteq writeStores
      BY <2>3 DEF ConsumerQuery, PeekBegin, LoadWriteIdx
    <3> QED BY <2>3, <3>1 DEF ConsumerQuery, PeekBegin
  <2>4. CASE PopBegin \/ PopCopy \/ PopStore \/ ClearBegin \/ DropBegin \/ PeekEnd
    BY <2>4 DEF PopBegin, PopCached, PopUncached, PopCopy, PopStore, ClearBegin,
                DropBegin, PeekEnd
  <2>5. CASE Join
    BY <2>5 DEF Join
  <2>6. CASE UNCHANGED vars
    BY <2>6 DEF vars
  <2> QED BY <2>1, <2>2, <2>3, <2>4, <2>5, <2>6 DEF Next, ConsumerNext
<1>3. Inv /\ Joined => DropAfterJoinIsClean
  <2> SUFFICES ASSUME Inv, Joined, joined, cpc = "dropped" PROVE Contents = << >>
    BY DEF DropAfterJoinIsClean
  <2>1. WrapSub(writeIdx, readIdx) = 0
    BY SubType DEF Joined, Inv, TypeOK
  <2> QED BY <2>1, SubSeqEmpty DEF Contents
<1> QED BY <1>1, <1>2, <1>3, Invariance, PTL DEF Spec

-----------------------------------------------------------------------------
(***************************************************************************)
(* The refinement.  Every step is a step of the abstract queue or leaves   *)
(* all three of its variables alone.                                       *)
(***************************************************************************)
\* The queue that the refinement mapping shows is a sequence of elements.
LEMMA ContentsType ==
    ASSUME Inv
    PROVE  /\ Contents \in Seq(Value)
           /\ Len(Contents) = WrapSub(writeIdx, readIdx)
           /\ \A k \in 1 .. WrapSub(writeIdx, readIdx) :
                Contents[k] = slot[SlotOf(WrapAdd(readIdx, k - 1))]
<1>1. WrapSub(writeIdx, readIdx) \in Nat
  BY Distances DEF Inv
<1>2. ASSUME NEW k \in 1 .. WrapSub(writeIdx, readIdx)
      PROVE  slot[SlotOf(WrapAdd(readIdx, k - 1))] \in Value
  <2>1. k - 1 \in 0 .. WrapSub(writeIdx, readIdx) - 1
    BY <1>1
  <2> QED BY <2>1 DEF Inv, Filled
<1> QED BY <1>1, <1>2 DEF Contents

\* Contents depends on the slots and the two indices only.
LEMMA ContentsKept ==
    ASSUME UNCHANGED <<slot, writeIdx, readIdx>>
    PROVE  Contents' = Contents
BY DEF Contents

\* A push or pop that moves nothing but its own bookkeeping: calls that begin, loads,
\* queries, peeks, joins and drops.  Of these only a push that starts to copy is seen
\* by the abstract queue, and there it is an Offer.
LEMMA OfferOrStutter ==
    ASSUME Inv, Inv', UNCHANGED <<slot, writeIdx, readIdx, got>>, ppc # "copy"
    PROVE  Queue!Offer \/ UNCHANGED Queue!fifoVars
<1>1. Contents' = Contents
  BY ContentsKept
<1>2. CASE ppc' = "copy"
  <2>1. /\ batch' \in Seq(Value) /\ batch' # << >>
    BY <1>2, EmptySeq DEF Inv, TypeOK, PushInProgress
  <2>2. WrapSub(writeIdx, readIdx) + Len(batch') <= Capacity
    <3>1. /\ WrapSub(writeIdx', readIdx') <= WrapSub(writeIdx', cachedRead')
          /\ WrapSub(writeIdx', cachedRead') + Len(batch') <= Capacity
      <4>1. /\ WrapSub(writeIdx', readIdx') \in Nat
            /\ WrapSub(writeIdx', knownRead') \in Nat
            /\ WrapSub(writeIdx', cachedRead') \in Nat
        BY SubType DEF Inv, TypeOK
      <4> QED BY <4>1, <1>2 DEF Inv, ProducerKnows, PushInProgress
    <3>2. /\ WrapSub(writeIdx', readIdx') \in Nat
          /\ WrapSub(writeIdx', cachedRead') \in Nat
          /\ Len(batch') \in Nat
      BY SubType, LenProperties DEF Inv, TypeOK
    <3> QED BY <3>1, <3>2, RingIndexAssumption
  <2> QED BY <1>1, <1>2, <2>1, <2>2, ContentsType DEF Queue!Offer
<1>3. CASE ppc' # "copy"
  BY <1>1, <1>3 DEF Queue!fifoVars
<1> QED BY <1>2, <1>3

\* Copying into a free slot does not touch the queue.
LEMMA PushCopyStutters ==
    ASSUME Inv, PushCopy
    PROVE  UNCHANGED Queue!fifoVars
<1>1. /\ ppc = "copy" /\ written < Len(batch)
      /\ slot' = [slot EXCEPT ![CopySlot(writeIdx, written)] = batch[written + 1]]
      /\ UNCHANGED <<writeIdx, readIdx, ppc, batch, got>>
  BY DEF PushCopy, consumerVars
<1>2. writeIdx \in Index /\ readIdx \in Index /\ slot \in [Slot -> Value \cup {NoValue}]
  BY DEF Inv, TypeOK
<1>3. ASSUME NEW k \in 1 .. WrapSub(writeIdx, readIdx)
      PROVE  slot'[SlotOf(WrapAdd(readIdx, k - 1))] = slot[SlotOf(WrapAdd(readIdx, k - 1))]
  <2>1. /\ k - 1 \in 0 .. WrapSub(writeIdx, readIdx) - 1
        /\ written \in 0 .. Len(batch) - 1
        /\ written \in 0 .. Capacity - 1
        /\ k - 1 \in 0 .. Capacity - 1
    BY <1>1, PushFits, RingIndexAssumption
  <2>2. CopySlot(writeIdx, written) # SlotOf(WrapAdd(readIdx, k - 1))
    BY <1>1, <1>2, <2>1, WritesAreApart, CopySlotIsSlotOf
  <2>3. SlotOf(WrapAdd(readIdx, k - 1)) \in Slot
    BY <1>2, <2>1, CopySlotIsSlotOf
  <2> QED BY <1>1, <1>2, <2>2, <2>3
<1>4. Contents' = Contents
  BY <1>1, <1>3 DEF Contents
<1> QED BY <1>1, <1>4 DEF Queue!fifoVars

\* The store of write_idx appends the whole batch.
LEMMA PushStoreEnqueues ==
    ASSUME Inv, Inv', PushStore
    PROVE  Queue!Enqueue
<1> DEFINE d == WrapSub(writeIdx, readIdx)
           n == Len(batch)
<1>1. /\ ppc = "copy" /\ written = n
      /\ writeIdx' = WrapAdd(writeIdx, n)
      /\ ppc' = "idle"
      /\ UNCHANGED <<slot, readIdx, got>>
  BY DEF PushStore, consumerVars
<1>2. /\ writeIdx \in Index /\ readIdx \in Index /\ batch \in Seq(Value)
      /\ d \in Nat /\ n \in Nat /\ n >= 1 /\ d + n <= Capacity /\ d + n < Modulus
  <2>1. writeIdx \in Index /\ readIdx \in Index /\ batch \in Seq(Value)
    BY DEF Inv, TypeOK
  <2>2. n >= 1
    BY <1>1 DEF Inv, PushInProgress
  <2> QED BY <1>1, <2>1, <2>2, PushFits, RingIndexAssumption
<1>3. WrapSub(writeIdx', readIdx') = d + n
  BY <1>1, <1>2, AdvanceFront
<1>4. /\ Contents' \in Seq(Value) /\ Len(Contents') = d + n
      /\ \A k \in 1 .. d + n : Contents'[k] = slot[SlotOf(WrapAdd(readIdx, k - 1))]
  <2>1. Contents' = [k \in 1 .. d + n |-> slot[SlotOf(WrapAdd(readIdx, k - 1))]]
    BY <1>1, <1>3 DEF Contents
  <2>2. ASSUME NEW k \in 1 .. d + n
        PROVE  slot[SlotOf(WrapAdd(readIdx, k - 1))] \in Value
    <3>1. k - 1 \in 0 .. WrapSub(writeIdx', readIdx') - 1
      BY <1>2, <1>3
    <3> QED BY <1>1, <3>1 DEF Inv, Filled
  <2>3. d + n \in Nat
    BY <1>2
  <2> HIDE DEF d
  <2> QED BY <2>1, <2>2, <2>3
<1>5. /\ Contents \o batch \in Seq(Value) /\ Len(Contents \o batch) = d + n
      /\ \A k \in 1 .. d + n :
           (Contents \o batch)[k] = IF k <= d THEN Contents[k] ELSE batch[k - d]
  <2>1. Contents \in Seq(Value) /\ Len(Contents) = d
    BY ContentsType
  <2> HIDE DEF d
  <2> QED BY <1>2, <2>1, ConcatProperties
<1>6. ASSUME NEW k \in 1 .. d + n
      PROVE  Contents'[k] = (Contents \o batch)[k]
  <2>1. CASE k <= d
    <3>1. k \in 1 .. d
      BY <2>1, <1>2
    <3> QED BY <2>1, <3>1, <1>4, <1>5, ContentsType
  <2>2. CASE ~(k <= d)
    <3> DEFINE j == k - 1 - d
    <3>1. j \in 0 .. written - 1 /\ j + 1 = k - d /\ d + j = k - 1
      BY <1>1, <1>2, <2>2
    <3>2. WrapAdd(readIdx, d) = writeIdx
      BY <1>2, AdvanceByDistance
    <3>3. WrapAdd(writeIdx, j) = WrapAdd(readIdx, k - 1)
      <4> HIDE DEF d, j
      <4> QED BY <1>2, <3>1, <3>2, AdvanceTwice, RingIndexAssumption
    <3>4. slot[SlotOf(WrapAdd(writeIdx, j))] = batch[j + 1]
      BY <3>1 DEF Inv, PushInProgress
    <3> QED BY <2>2, <3>1, <3>3, <3>4, <1>4, <1>5
  <2> QED BY <2>1, <2>2
<1> HIDE DEF d, n
<1>7. Contents' = Contents \o batch
  BY <1>4, <1>5, <1>6, SeqEqual
<1>8. batch # << >>
  BY <1>2, EmptySeq DEF n
<1> QED BY <1>1, <1>7, <1>8 DEF Queue!Enqueue

\* Reading out a slot takes the next element of the queue.
LEMMA PopCopyTakes ==
    ASSUME Inv, PopCopy
    PROVE  Queue!Take
<1>1. /\ cpc = "copy" /\ Len(got) < want
      /\ got' = Append(got, slot[CopySlot(readIdx, Len(got))])
      /\ UNCHANGED <<slot, writeIdx, readIdx, ppc, batch>>
  BY DEF PopCopy, sharedVars, producerVars
<1>2. /\ Len(got) \in 0 .. Capacity - 1
      /\ Len(got) + 1 \in 1 .. WrapSub(writeIdx, readIdx)
      /\ (Len(got) + 1) - 1 = Len(got)
      /\ Len(got) < WrapSub(writeIdx, readIdx)
      /\ readIdx \in Index
  BY <1>1, PopFits, RingIndexAssumption DEF Inv, TypeOK
<1>3. Contents[Len(got) + 1] = slot[CopySlot(readIdx, Len(got))]
  <2>1. CopySlot(readIdx, Len(got)) = SlotOf(WrapAdd(readIdx, Len(got)))
    BY <1>2, CopySlotIsSlotOf
  <2>2. Contents[Len(got) + 1] = slot[SlotOf(WrapAdd(readIdx, (Len(got) + 1) - 1))]
    BY <1>2, ContentsType
  <2> QED BY <1>2, <2>1, <2>2
<1>4. Len(got) < Len(Contents)
  BY <1>2, ContentsType
<1> QED BY <1>1, <1>3, <1>4, ContentsKept DEF Queue!Take

\* The store of read_idx removes what was taken.
LEMMA PopStoreRemoves ==
    ASSUME Inv, Inv', PopStore
    PROVE  Queue!Remove
<1> DEFINE d == WrapSub(writeIdx, readIdx)
<1>1. /\ cpc = "copy" /\ Len(got) = want
      /\ readIdx' = WrapAdd(readIdx, want)
      /\ got' = << >>
      /\ UNCHANGED <<slot, writeIdx, ppc, batch>>
  BY DEF PopStore, producerVars
<1>2. /\ writeIdx \in Index /\ readIdx \in Index
      /\ d \in Nat /\ want \in Nat /\ want >= 1 /\ want <= d /\ d < Modulus
  BY <1>1, PopFits, RingIndexAssumption DEF Inv, TypeOK, PopInProgress
<1>3. WrapSub(writeIdx', readIdx') = d - want
  BY <1>1, <1>2, AdvanceBack
<1>4. /\ Contents' \in Seq(Value) /\ Len(Contents') = d - want
      /\ \A k \in 1 .. d - want : Contents'[k] = slot[SlotOf(WrapAdd(readIdx', k - 1))]
  <2>1. Contents' = [k \in 1 .. d - want |-> slot[SlotOf(WrapAdd(readIdx', k - 1))]]
    BY <1>1, <1>3 DEF Contents
  <2>2. ASSUME NEW k \in 1 .. d - want
        PROVE  slot[SlotOf(WrapAdd(readIdx', k - 1))] \in Value
    <3>1. k - 1 \in 0 .. WrapSub(writeIdx', readIdx') - 1
      BY <1>2, <1>3
    <3> QED BY <1>1, <3>1 DEF Inv, Filled
  <2>3. d - want \in Nat
    BY <1>2
  <2> HIDE DEF d
  <2> QED BY <2>1, <2>2, <2>3
<1> DEFINE rest == SubSeq(Contents, want + 1, d)
<1>5. /\ rest \in Seq(Value) /\ Len(rest) = d - want
      /\ \A k \in 1 .. d - want : rest[k] = Contents[want + k]
  <2>1. want + 1 \in Int /\ d \in Int
    BY <1>2
  <2>2. \A i \in want + 1 .. d : Contents[i] \in Value
    BY <1>2, ContentsType, ElementOfSeq
  <2>3. /\ rest \in Seq(Value)
        /\ Len(rest) = IF want + 1 <= d THEN d - (want + 1) + 1 ELSE 0
        /\ \A i \in 1 .. d - (want + 1) + 1 : rest[i] = Contents[(want + 1) + i - 1]
    BY <2>1, <2>2, SubSeqProperties
  <2> HIDE DEF rest, d
  <2> QED BY <1>2, <2>3
<1>6. ASSUME NEW k \in 1 .. d - want
      PROVE  Contents'[k] = rest[k]
  <2>1. want + k \in 1 .. d /\ k - 1 \in Nat /\ want + (k - 1) < Modulus
    <3> HIDE DEF d
    <3> QED BY <1>2, RingIndexAssumption
  <2>2. Contents[want + k] = slot[SlotOf(WrapAdd(readIdx, (want + k) - 1))]
    BY <2>1, ContentsType
  <2>3. WrapAdd(readIdx', k - 1) = WrapAdd(readIdx, (want + k) - 1)
    <3>1. want + (k - 1) = (want + k) - 1
      BY <1>2
    <3> QED BY <1>1, <1>2, <2>1, <3>1, AdvanceTwice
  <2> QED BY <1>4, <1>5, <2>2, <2>3
<1>7. Contents' = rest
  <2> HIDE DEF rest, d
  <2> QED BY <1>4, <1>5, <1>6, SeqEqual
<1>8. rest = SubSeq(Contents, Len(got) + 1, Len(Contents)) /\ got # << >>
  BY <1>1, <1>2, ContentsType, EmptySeq
<1> QED BY <1>1, <1>7, <1>8 DEF Queue!Remove

\* The buffer is a bounded FIFO queue of whole batches, for every capacity, index
\* width, element type and batch size.
THEOREM Refinement == Spec => ImplementsFifo
<1>1. Init => Queue!Init
  <2> SUFFICES ASSUME Init PROVE Queue!Init
    OBVIOUS
  <2>1. Contents = << >>
    <3>1. Len(Contents) = 0 /\ Contents \in Seq(Value)
      BY InitInv, ContentsType, SubType, RingIndexAssumption DEF Init, Index
    <3> QED BY <3>1, EmptySeq
  <2> QED BY <2>1 DEF Init, Queue!Init
<1>2. Inv /\ Inv' /\ [Next]_vars => [Queue!Next]_(Queue!fifoVars)
  <2> SUFFICES ASSUME Inv, Inv', [Next]_vars
               PROVE  Queue!Next \/ UNCHANGED Queue!fifoVars
    OBVIOUS
  <2>1. CASE PushCopy
    BY <2>1, PushCopyStutters
  <2>2. CASE PushStore
    BY <2>2, PushStoreEnqueues DEF Queue!Next
  <2>3. CASE PopCopy
    BY <2>3, PopCopyTakes DEF Queue!Next
  <2>4. CASE PopStore
    BY <2>4, PopStoreRemoves DEF Queue!Next
  <2>5. ASSUME UNCHANGED <<slot, writeIdx, readIdx, got>>,
               ppc # "copy" \/ UNCHANGED <<ppc, batch>>
        PROVE  Queue!Next \/ UNCHANGED Queue!fifoVars
    <3>1. CASE ppc # "copy"
      BY <2>5, <3>1, OfferOrStutter DEF Queue!Next
    <3>2. CASE UNCHANGED <<ppc, batch>>
      BY <2>5, <3>2, ContentsKept DEF Queue!fifoVars
    <3> QED BY <2>5, <3>1, <3>2
  <2>6. \/ PushCopy \/ PushStore \/ PopCopy \/ PopStore
        \/ /\ UNCHANGED <<slot, writeIdx, readIdx, got>>
           /\ ppc # "copy" \/ UNCHANGED <<ppc, batch>>
    BY DEF Next, ProducerNext, ConsumerNext, vars, producerVars, sharedVars,
           consumerVars, PushBegin, PushCached, PushUncached, PushLoad, ProducerQuery,
           ProducerDrop, PopBegin, PopCached, PopUncached, PopLoad, ClearBegin,
           DropBegin, ConsumerQuery, PeekBegin, PeekEnd, Join
  <2> QED BY <2>1, <2>2, <2>3, <2>4, <2>5, <2>6
<1> QED BY <1>1, <1>2, Invariance, PTL DEF Spec, ImplementsFifo, Queue!Spec
=============================================================================
