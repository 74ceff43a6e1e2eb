---------------------------- MODULE AtomicProofs ----------------------------
(***************************************************************************)
(* Proofs about AtomicRing, for any number of threads and every capacity,  *)
(* index width and bound: what values carry, and type correctness, which   *)
(* holds however the buffer is shared.                                     *)
(***************************************************************************)
EXTENDS AtomicRing, RingIndexProofs, SequenceTheorems, FiniteSetTheorems

-----------------------------------------------------------------------------
(* The elements *)

\* A remainder by a multiple of u keeps the remainder by u.
LEMMA RemainderOfMultiple ==
    ASSUME NEW a \in Int, NEW u \in Nat \ {0}, NEW w \in Nat \ {0}, w % u = 0
    PROVE  (a % w) % u = a % u
<1> DEFINE q == a \div w
           r == a % w
           m == w \div u
           p == r \div u
           s == r % u
<1>1. /\ q \in Int /\ r \in 0 .. w - 1 /\ a = (w * q) + r
      /\ m \in Int /\ w = (u * m) + 0
      /\ p \in Int /\ s \in 0 .. u - 1 /\ r = (u * p) + s
  <2>1. q \in Int /\ r \in 0 .. w - 1 /\ a = (w * q) + r
    BY RemainderExists
  <2>2. m \in Int /\ w = (u * m) + 0
    BY RemainderExists
  <2>3. r \in Int
    BY <2>1
  <2> HIDE DEF r
  <2>4. p \in Int /\ s \in 0 .. u - 1 /\ r = (u * p) + s
    BY <2>3, RemainderExists
  <2> QED BY <2>1, <2>2, <2>4
<1> HIDE DEF q, m, p, s, r
<1>2. u * m \in Int /\ u * p \in Int /\ m * q \in Int /\ (m * q) + p \in Int
  BY <1>1, Multiples
<1>3. w * q = u * (m * q)
  BY <1>1
<1>4. u * ((m * q) + p) = (u * (m * q)) + (u * p)
  BY <1>1, <1>2
<1>5. a = (u * ((m * q) + p)) + s
  BY <1>1, <1>2, <1>3, <1>4
<1>6. a % u = s
  BY <1>1, <1>2, <1>5, RemainderUnique
<1> QED BY <1>6 DEF r, s

\* Adding a multiple of the divisor keeps the remainder.
LEMMA RemainderOfSum ==
    ASSUME NEW a \in Int, NEW u \in Nat \ {0}, NEW n \in Int
    PROVE  (a + (u * n)) % u = a % u
<1> DEFINE q == a \div u
           r == a % u
<1>1. q \in Int /\ r \in 0 .. u - 1 /\ a = (u * q) + r
  BY RemainderExists
<1> HIDE DEF q, r
<1>2. u * (q + n) = (u * q) + (u * n) /\ u * q \in Int /\ u * n \in Int /\ q + n \in Int
  BY <1>1, Multiples
<1>3. a + (u * n) = (u * (q + n)) + r /\ a + (u * n) \in Int
  BY <1>1, <1>2
<1> QED BY <1>1, <1>2, <1>3, RemainderUnique DEF r

\* A remainder may be taken before or after an addition.
LEMMA RemainderFirst ==
    ASSUME NEW a \in Int, NEW w \in Nat \ {0}, NEW n \in Int
    PROVE  ((a % w) + n) % w = (a + n) % w
<1> DEFINE q == a \div w
           r == a % w
<1>1. q \in Int /\ r \in 0 .. w - 1 /\ a = (w * q) + r
  BY RemainderExists
<1> HIDE DEF q, r
<1>2. w * q \in Int
  BY <1>1, Multiples
<1>3. r + n \in Int /\ a + n = (r + n) + (w * q)
  BY <1>1, <1>2
<1>4. ((r + n) + (w * q)) % w = (r + n) % w
  BY <1>1, <1>3, RemainderOfSum
<1> QED BY <1>3, <1>4 DEF r

\* The bound on the number of pushes is a number, and every name is below Unit.
LEMMA UnitType ==
    /\ MaxPush \in Nat /\ Unit \in Nat \ {0} /\ Width \in Nat \ {0}
    /\ Width % Unit = 0 /\ MaxPush < Width /\ Unit - 1 = MaxPush
    /\ 0 \in Value /\ PushId \subseteq Value
BY AtomicAssumption, WidthAssumption DEF Unit, PushId, Value

\* The name in a value is the name of a push or 0, and names stand for themselves.
LEMMA IdType ==
    /\ \A v \in Value : IdOf(v) \in {0} \cup PushId
    /\ \A v \in {0} \cup PushId : IdOf(v) = v
<1>1. ASSUME NEW v \in Value PROVE IdOf(v) \in {0} \cup PushId
  <2>1. v \in Int
    BY UnitType DEF Value
  <2>2. v % Unit \in 0 .. Unit - 1
    BY <2>1, UnitType, RemainderExists
  <2> QED BY <2>2, UnitType DEF IdOf, PushId
<1>2. ASSUME NEW v \in {0} \cup PushId PROVE IdOf(v) = v
  <2>1. v \in Int /\ v \in 0 .. Unit - 1 /\ v = (Unit * 0) + v
    BY UnitType DEF PushId
  <2> QED BY <2>1, UnitType, RemainderUnique DEF IdOf
<1> QED BY <1>1, <1>2

\* fetch_add and fetch_sub of a multiple of Unit, which wrap, keep the name.
LEMMA AdditionsKeepId ==
    ASSUME NEW v \in Value
    PROVE  /\ FetchAdd(v, Unit) \in Value /\ IdOf(FetchAdd(v, Unit)) = IdOf(v)
           /\ FetchSub(v, Unit) \in Value /\ IdOf(FetchSub(v, Unit)) = IdOf(v)
<1>1. v \in Int /\ v + Unit \in Int /\ v - Unit \in Int
  BY UnitType DEF Value
<1>2. ((v + Unit) % Width) \in Value /\ ((v - Unit) % Width) \in Value
  BY <1>1, UnitType, RemainderExists DEF Value
<1>3. /\ ((v + Unit) % Width) % Unit = (v + Unit) % Unit
      /\ ((v - Unit) % Width) % Unit = (v - Unit) % Unit
  BY <1>1, UnitType, RemainderOfMultiple
<1>4. v + Unit = v + (Unit * 1) /\ v - Unit = v + (Unit * (-1))
  BY <1>1, UnitType
<1>5. /\ (v + (Unit * 1)) % Unit = v % Unit
      /\ (v + (Unit * (-1))) % Unit = v % Unit
  <2>1. 1 \in Int /\ -1 \in Int
    OBVIOUS
  <2> QED BY <2>1, <1>1, UnitType, RemainderOfSum, ZenonT(60)
<1> QED BY <1>2, <1>3, <1>4, <1>5 DEF FetchAdd, FetchSub, IdOf

-----------------------------------------------------------------------------
(***************************************************************************)
(* What makes the typing inductive.  A push has a name of its own, and     *)
(* reserves one slot at most, so that the reservations cannot outnumber    *)
(* the pushes, nor writeIdx leave its range.  A slot that is committed, or *)
(* about to be, carries a name, and keeps carrying one.                    *)
(***************************************************************************)
\* Where a push has not reserved a slot yet, and where it has
Unreserved == {"push_read", "push_write", "push_reserve", "ow_reserve"}
Reserved   == {"push_store", "push_commit", "ow_read", "ow_advance", "ow_late", "ow_swap"}
Pushing    == Unreserved \cup Reserved

Names ==
    /\ \A t \in Thread : pc[t] \in Pushing => val[t] \in 1 .. calls
    /\ \A t \in Thread : pc[t] \in Unreserved => \A i \in 1 .. Len(log) : log[i] # val[t]
    /\ \A t, u \in Thread :
         t # u /\ pc[t] \in Pushing /\ pc[u] \in Pushing => val[t] # val[u]
    /\ \A i \in 1 .. Len(log) : log[i] \in 1 .. calls
    /\ \A i, j \in 1 .. Len(log) : log[i] = log[j] => i = j

Named(v) == IdOf(v) \in PushId

Marks ==
    /\ \A k \in Slot : commit[k] # Never => Named(slot[k])
    /\ \A t \in Thread :
         /\ pc[t] \in {"push_commit", "ow_late"} => Named(PeekAt(wr[t]))
         /\ pc[t] = "pop_load" => Named(PeekAt(rd[t]))
         /\ pc[t] = "pop_cas" => Named(tmp[t])
         /\ pc[t] = "clear_store" => wr[t] <= writeIdx

Basics == TypeOK /\ Names /\ Marks

\* There are no more reservations than pushes, and fewer while one has none.
LEMMA ReservationsAreBounded ==
    ASSUME TypeOK, Names
    PROVE  /\ Len(log) <= MaxPush
           /\ (\E t \in Thread : pc[t] \in Unreserved) => Len(log) < MaxPush
<1>1. /\ Len(log) \in Nat /\ log \in [1 .. Len(log) -> PushId]
  BY LenProperties DEF TypeOK, GhostTypes
<1>2. /\ IsFiniteSet(1 .. Len(log)) /\ Cardinality(1 .. Len(log)) = Len(log)
      /\ IsFiniteSet(PushId) /\ Cardinality(PushId) = MaxPush
  <2>1. ASSUME NEW n \in Nat PROVE IsFiniteSet(1 .. n) /\ Cardinality(1 .. n) = n
    <3>1. 1 \in Int /\ n \in Int
      OBVIOUS
    <3>2. IsFiniteSet(1 .. n) /\ Cardinality(1 .. n) = IF 1 > n THEN 0 ELSE n - 1 + 1
      BY <3>1, FS_Interval, Zenon
    <3> QED BY <3>2
  <2> QED BY <1>1, <2>1, UnitType DEF PushId
<1>3. \A i, j \in 1 .. Len(log) : i # j => log[i] # log[j]
  BY DEF Names
<1>4. Len(log) <= MaxPush
  <2> SUFFICES ASSUME Cardinality(PushId) < Cardinality(1 .. Len(log)) PROVE FALSE
    BY <1>1, <1>2, UnitType
  <2> QED BY <1>1, <1>2, <1>3, FS_PigeonHole
<1>5. ASSUME NEW t \in Thread, pc[t] \in Unreserved PROVE Len(log) < MaxPush
  <2> DEFINE T == PushId \ {val[t]}
  <2>1. val[t] \in PushId
    BY <1>5, UnitType DEF Names, Pushing, TypeOK, GhostTypes, PushId
  <2>2. IsFiniteSet(T) /\ Cardinality(T) = MaxPush - 1
    BY <2>1, <1>2, FS_RemoveElement
  <2>3. log \in [1 .. Len(log) -> T]
    BY <1>1, <1>5 DEF Names
  <2> HIDE DEF T
  <2> SUFFICES ASSUME Cardinality(T) < Cardinality(1 .. Len(log)) PROVE FALSE
    BY <1>1, <1>2, <2>2, UnitType
  <2> QED BY <1>2, <1>3, <2>2, <2>3, FS_PigeonHole
<1> QED BY <1>4, <1>5

\* The slot of an index is a slot, and indices within the bound may be advanced.
LEMMA IndexFacts ==
    /\ Index \subseteq Int /\ 0 \in Index /\ 1 \in Index
    /\ \A i \in Int : SlotOf(i) \in Slot
    /\ \A i, n \in Int : WrapAdd(i, n) \in Int
    /\ \A i, n \in Index : WrapAdd(i, n) \in Index
    /\ \A i \in 0 .. MaxPush : i \in Index /\ WrapAdd(i, 1) = i + 1
    /\ \A n \in 0 .. Capacity - 1 : n \in Index
<1>1. \A i \in Int : SlotOf(i) \in Slot
  BY RemainderExists, RingIndexAssumption DEF SlotOf, Slot
<1>2. \A i, n \in Index : WrapAdd(i, n) \in Index
  BY AddType, RingIndexAssumption DEF Index
<1> QED BY <1>1, <1>2, AtomicAssumption, RingIndexAssumption DEF Index, WrapAdd

\* A call that returns resets locals that have their types, and one that goes on may
\* have changed a local to a value of its type.
LEMMA ReturnTypes ==
    ASSUME LocalTypes, NEW t \in Thread, Return(t)
    PROVE  LocalTypes'
<1>1. 0 \in Index /\ 0 \in Value /\ << >> \in Seq(Value)
  BY IndexFacts, UnitType, EmptySeq
<1> QED BY <1>1 DEF LocalTypes, Return, Label

\* A step of thread t, of whatever call it is in
Step(t) ==
    PushCall(t) \/ PushStep(t) \/ PopStep(t) \/ ClearStep(t) \/ ObserverStep(t) \/ EditStep(t)

\* The locals keep their types.
LEMMA LocalStep ==
    ASSUME TypeOK, NEW t \in Thread,
           Step(t)
    PROVE  LocalTypes'
<1> USE DEF LocalTypes, SharedTypes, LoadReadIdx, LoadWriteIdx, Goto, Label
<1>0. /\ LocalTypes /\ SharedTypes /\ calls \in 0 .. MaxPush
      /\ Index \subseteq Int /\ 0 \in Index
      /\ \A i \in Int : SlotOf(i) \in Slot
      /\ 0 \in Value /\ PushId \subseteq Value
      /\ << >> \in Seq(Value)
  BY IndexFacts, UnitType, EmptySeq DEF TypeOK, GhostTypes
<1>1. CASE Return(t)
  BY <1>0, <1>1, ReturnTypes
<1>2. CASE PushCall(t)
  <2>1. calls' \in Value
    BY <1>0, <1>2, UnitType DEF PushCall, PushId
  <2> QED BY <1>0, <1>2, <2>1 DEF PushCall
<1>3. CASE PushLoadRead(t)
  BY <1>0, <1>3 DEF PushLoadRead
<1>11. CASE PushRetry(t)
  BY <1>0, <1>11 DEF PushRetry
<1>10. CASE PushLoadWrite(t)
  <2>1. CASE ~Return(t)
    BY <1>0, <1>10, <2>1 DEF PushLoadWrite
  <2> QED BY <1>1, <2>1
<1>4. CASE PushReserve(t) \/ OverwriteReserve(t) \/ PushStoreSlot(t)
  BY <1>0, <1>4 DEF PushReserve, OverwriteReserve, PushStoreSlot
<1>5. CASE OverwriteLoadRead(t) \/ OverwriteAdvance(t) \/ OverwriteSwap(t)
  BY <1>0, <1>5, ZenonT(60) DEF OverwriteLoadRead, OverwriteAdvance, OverwriteSwap, PeekAt
<1>6. CASE PopLoadRead(t) \/ PopLoadCommit(t) \/ PopLoadSlot(t) \/ PopRetry(t)
  BY <1>0, <1>1, <1>6, ZenonT(60) DEF PopLoadRead, PopLoadCommit, PopLoadSlot, PopRetry, PeekAt
<1>7. CASE ClearLoadWrite(t) \/ PeekLoadRead(t) \/ PeekLoadCommit(t) \/ QueryLoadWrite(t)
           \/ QueryLoadRead(t) \/ RangeLoadRead(t) \/ RangeLoadWrite(t) \/ AllLoadCommit(t)
  BY <1>0, <1>7, ZenonT(60) DEF ClearLoadWrite, PeekLoadRead, PeekLoadCommit, QueryLoadWrite,
                    QueryLoadRead, RangeLoadRead, RangeLoadWrite, AllLoadCommit
<1>8. CASE PeekLoadSlot(t) \/ AllLoadSlot(t) \/ IterNext(t)
  <2>1. ASSUME NEW i \in Int PROVE PeekAt(i) \in Value
    BY <1>0 DEF PeekAt
  <2>2. rd[t] \in Int /\ CurrIdx(t) \in Int
    <3>1. seen[t] \in Seq(Value) /\ rd[t] \in Int
      BY <1>0
    <3>2. Len(seen[t]) \in Int
      BY <3>1, LenProperties
    <3> QED BY <3>1, <3>2, IndexFacts DEF CurrIdx
  <2>3. CASE PeekLoadSlot(t)
    <3>1. <<PeekAt(rd[t])>> \in Seq(Value)
      BY <2>1, <2>2
    <3> QED BY <1>0, <2>3, <3>1 DEF PeekLoadSlot
  <2>4. ASSUME Show(t) PROVE seen' \in [Thread -> Seq(Value)]
    <3>1. Append(seen[t], PeekAt(CurrIdx(t))) \in Seq(Value)
      BY <1>0, <2>1, <2>2, AppendProperties
    <3> QED BY <1>0, <2>4, <3>1 DEF Show
  <2> QED BY <1>0, <1>8, <2>3, <2>4 DEF AllLoadSlot, IterNext
<1>9. CASE EditCheck(t)
  <2>1. wr' \in [Thread -> Index]
    BY <1>0, <1>9, IndexFacts DEF EditCheck
  <2> QED BY <1>0, <1>9, <2>1 DEF EditCheck
<1>12. CASE EditLoadRead(t)
  BY <1>0, <1>12 DEF EditLoadRead
<1> QED
  BY <1>1, <1>2, <1>3, <1>4, <1>5, <1>6, <1>7, <1>8, <1>9, <1>10, <1>11, <1>12
     DEF Step, PushStep, PopStep, ClearStep, ObserverStep, EditStep, PushPanics, PushCommit,
         PopTake, ClearStoreRead, LoadPanic, CallReturn, EditElement

\* A thread has no access to the locals of another.
LEMMA OthersKeepLocals ==
    ASSUME LocalTypes, NEW t \in Thread, Step(t), NEW u \in Thread, u # t
    PROVE  /\ pc'[u] = pc[u] /\ rd'[u] = rd[u] /\ wr'[u] = wr[u] /\ val'[u] = val[u]
           /\ tmp'[u] = tmp[u] /\ over'[u] = over[u] /\ seen'[u] = seen[u]
<1> USE DEF LocalTypes, Goto, LoadReadIdx, LoadWriteIdx
<1>1. CASE Return(t)
  BY <1>1 DEF Return
<1>2. CASE PushCall(t) \/ PushLoadRead(t) \/ PushRetry(t)
  BY <1>2 DEF PushCall, PushLoadRead, PushRetry
<1>3. CASE PushReserve(t) \/ OverwriteReserve(t) \/ PushStoreSlot(t)
  BY <1>3 DEF PushReserve, OverwriteReserve, PushStoreSlot
<1>4. CASE OverwriteLoadRead(t) \/ OverwriteAdvance(t) \/ OverwriteSwap(t)
  BY <1>4 DEF OverwriteLoadRead, OverwriteAdvance, OverwriteSwap
<1>5. CASE PopLoadRead(t) \/ PopLoadSlot(t) \/ PopRetry(t)
  BY <1>5 DEF PopLoadRead, PopLoadSlot, PopRetry
<1>6. CASE ClearLoadWrite(t) \/ PeekLoadRead(t) \/ PeekLoadCommit(t) \/ QueryLoadWrite(t)
           \/ QueryLoadRead(t) \/ RangeLoadRead(t) \/ RangeLoadWrite(t) \/ AllLoadCommit(t)
  BY <1>6 DEF ClearLoadWrite, PeekLoadRead, PeekLoadCommit, QueryLoadWrite,
              QueryLoadRead, RangeLoadRead, RangeLoadWrite, AllLoadCommit
<1>7. CASE PeekLoadSlot(t) \/ AllLoadSlot(t) \/ IterNext(t) \/ EditCheck(t)
           \/ EditLoadRead(t)
  BY <1>7 DEF PeekLoadSlot, AllLoadSlot, IterNext, Show, EditCheck, EditLoadRead
<1>8. CASE PushLoadWrite(t) /\ ~Return(t)
  BY <1>8 DEF PushLoadWrite
<1>9. CASE PopLoadCommit(t) /\ ~Return(t)
  BY <1>9 DEF PopLoadCommit
<1> QED
  BY <1>1, <1>2, <1>3, <1>4, <1>5, <1>6, <1>7, <1>8, <1>9
     DEF Step, PushStep, PopStep, ClearStep, ObserverStep, EditStep, PushPanics, PushCommit,
         PopTake, ClearStoreRead, LoadPanic, CallReturn, EditElement

\* Which steps write the shared variables and which the ghosts
Reserves(t)  == PushReserve(t) \/ OverwriteReserve(t)
Takes(t)     == PopTake(t) \/ OverwriteAdvance(t) \/ ClearStoreRead(t)
Writes(t)    == PushStoreSlot(t) \/ OverwriteSwap(t) \/ EditElement(t)

LEMMA Frames ==
    ASSUME NEW t \in Thread, Step(t)
    PROVE  /\ ~PushCall(t) => UNCHANGED calls
           /\ ~EditCheck(t) => UNCHANGED adds
           /\ ~EditElement(t) => UNCHANGED added
           /\ ~Reserves(t) => UNCHANGED <<writeIdx, log>>
           /\ ~Takes(t) => UNCHANGED readIdx
           /\ ~PopTake(t) => UNCHANGED delivered
           /\ ~PopTake(t) /\ ~PushCommit(t) => UNCHANGED handed
           /\ ~ClearStoreRead(t) => UNCHANGED cleared
           /\ ~PushPanics(t) => UNCHANGED abandoned
           /\ ~Writes(t) => UNCHANGED slot
           /\ ~PushCommit(t) => UNCHANGED commit
<1> USE DEF shared, ghosts, Reserves, Takes, Writes
<1>1. CASE PushCall(t) \/ PushStep(t)
  BY <1>1 DEF PushCall, PushStep, PushLoadRead, PushLoadWrite, PushReserve, PushRetry,
              PushStoreSlot, PushPanics, PushCommit, OverwriteReserve, OverwriteLoadRead,
              OverwriteAdvance, OverwriteSwap
<1>2. CASE PopStep(t) \/ ClearStep(t)
  BY <1>2 DEF PopStep, ClearStep, PopLoadRead, PopLoadCommit, PopLoadSlot, PopTake, PopRetry,
              ClearLoadWrite, ClearStoreRead
<1>3. CASE ObserverStep(t) \/ EditStep(t)
  BY <1>3 DEF ObserverStep, EditStep, PeekLoadRead, PeekLoadCommit, PeekLoadSlot, RangeLoadRead,
              RangeLoadWrite, AllLoadCommit, AllLoadSlot, IterNext, LoadPanic, QueryLoadWrite,
              QueryLoadRead, CallReturn, EditCheck, EditLoadRead, EditElement, Credit
<1> QED BY <1>1, <1>2, <1>3 DEF Step

\* The shared variables keep their types.
LEMMA SharedStep ==
    ASSUME Basics, NEW t \in Thread, Step(t)
    PROVE  SharedTypes' /\ (Reserves(t) => writeIdx' = writeIdx + 1)
<1> USE DEF SharedTypes, LocalTypes
<1>1. /\ SharedTypes /\ LocalTypes /\ Names
      /\ Index \subseteq Int /\ \A i \in Int : SlotOf(i) \in Slot
      /\ \A i, n \in Index : WrapAdd(i, n) \in Index
      /\ 1 \in Index
  BY IndexFacts DEF Basics, TypeOK
<1>2. ASSUME Reserves(t) PROVE writeIdx' = writeIdx + 1 /\ writeIdx' \in Index
  <2>1. pc[t] \in Unreserved /\ writeIdx' = WrapAdd(writeIdx, 1)
    BY <1>2 DEF Reserves, PushReserve, OverwriteReserve, Unreserved
  <2>2. Len(log) < MaxPush
    BY <2>1, ReservationsAreBounded DEF Basics
  <2>3. writeIdx \in 0 .. MaxPush /\ writeIdx + 1 \in 0 .. MaxPush
    BY <1>1, <2>2, UnitType DEF Basics, TypeOK, GhostTypes, Index
  <2> QED BY <2>1, <2>3, IndexFacts
<1>3. ASSUME Takes(t) PROVE readIdx' \in Index
  BY <1>1, <1>3 DEF Takes, PopTake, OverwriteAdvance, ClearStoreRead, AdvanceReadIdx
<1>4. ASSUME Writes(t) PROVE slot' \in [Slot -> Value]
  <2>1. CASE EditElement(t)
    <3> DEFINE k == SlotOf(OffsetFrom(rd[t], wr[t]))
    <3>1. \/ slot' = [slot EXCEPT ![k] = FetchAdd(@, Unit)]
          \/ slot' = [slot EXCEPT ![k] = FetchSub(@, Unit)]
      BY <2>1 DEF EditElement
    <3>2. k \in Slot
      BY <1>1 DEF OffsetFrom
    <3> HIDE DEF k
    <3>3. slot[k] \in Value
      BY <1>1, <3>2
    <3>4. FetchAdd(slot[k], Unit) \in Value /\ FetchSub(slot[k], Unit) \in Value
      BY <3>3, AdditionsKeepId
    <3> QED BY <1>1, <3>1, <3>4
  <2>2. CASE PushStoreSlot(t) \/ OverwriteSwap(t)
    BY <1>1, <2>2 DEF PushStoreSlot, OverwriteSwap
  <2> QED BY <1>4, <2>1, <2>2 DEF Writes
<1>5. ASSUME PushCommit(t) PROVE commit' \in [Slot -> Index \cup {Never}]
  BY <1>1, <1>5 DEF PushCommit, CommitMark
<1> QED BY <1>1, <1>2, <1>3, <1>4, <1>5, Frames

\* What a pushing thread pushes has a name.
LEMMA PushedIsNamed ==
    ASSUME Basics, NEW t \in Thread, pc[t] \in Pushing
    PROVE  val[t] \in PushId /\ Named(val[t])
<1>1. val[t] \in 1 .. calls /\ calls \in 0 .. MaxPush
  BY DEF Basics, Names, TypeOK, GhostTypes
<1>2. val[t] \in PushId
  BY <1>1, UnitType DEF PushId
<1> QED BY <1>2, IdType DEF Named

\* The ghosts keep their types.
LEMMA GhostStep ==
    ASSUME Basics, NEW t \in Thread, Step(t)
    PROVE  GhostTypes'
<1> USE DEF GhostTypes, SharedTypes, LocalTypes
<1>1. SharedTypes /\ LocalTypes /\ GhostTypes /\ Names /\ Marks
  BY DEF Basics, TypeOK
<1>2. calls' \in 0 .. MaxPush
  <2>1. CASE PushCall(t)
    BY <1>1, <2>1, UnitType DEF PushCall
  <2> QED BY <1>1, <2>1, Frames
<1>3. adds' \in 0 .. MaxAdd
  <2>1. CASE EditCheck(t)
    BY <1>1, <2>1, AtomicAssumption DEF EditCheck
  <2> QED BY <1>1, <2>1, Frames
<1>4. log' \in Seq(PushId) /\ Len(log') = writeIdx'
  <2>1. CASE Reserves(t)
    <3>1. val[t] \in PushId
      BY <2>1, PushedIsNamed DEF Reserves, PushReserve, OverwriteReserve, Pushing, Unreserved
    <3>2. log' = Append(log, val[t])
      BY <2>1 DEF Reserves, PushReserve, OverwriteReserve
    <3>3. log' \in Seq(PushId) /\ Len(log') = Len(log) + 1
      BY <1>1, <3>1, <3>2, AppendProperties
    <3> QED BY <1>1, <2>1, <3>3, SharedStep
  <2>2. CASE ~Reserves(t)
    BY <1>1, <2>2, Frames
  <2> QED BY <2>1, <2>2
<1>5. delivered' \in Seq(PushId)
  <2>1. CASE PopTake(t)
    <3>1. IdOf(tmp[t]) \in PushId
      BY <1>1, <2>1 DEF PopTake, Marks, Named
    <3> QED BY <1>1, <2>1, <3>1, AppendProperties DEF PopTake
  <2> QED BY <1>1, <2>1, Frames
<1>6. handed' \in [{0} \cup PushId -> Nat]
  <2>1. CASE PopTake(t) \/ PushCommit(t)
    <3>1. IdOf(tmp[t]) \in {0} \cup PushId
      BY <1>1, IdType
    <3>2. handed' = handed \/ handed' = [handed EXCEPT ![IdOf(tmp[t])] = @ + 1]
      BY <2>1 DEF PopTake, PushCommit, Hand
    <3>3. handed \in [{0} \cup PushId -> Nat] /\ handed[IdOf(tmp[t])] + 1 \in Nat
      BY <1>1, <3>1
    <3> QED BY <3>2, <3>3
  <2>2. CASE ~PopTake(t) /\ ~PushCommit(t)
    BY <1>1, <2>2, Frames
  <2> QED BY <2>1, <2>2
<1>7. cleared' \subseteq PushId
  <2>1. CASE ClearStoreRead(t)
    <3>1. pc[t] = "clear_store" /\ Len(log) = writeIdx
      BY <1>1, <2>1 DEF ClearStoreRead
    <3>4. wr[t] <= writeIdx
      BY <1>1, <3>1 DEF Marks
    <3>2. \A i \in readIdx .. wr[t] - 1 : i + 1 \in 1 .. Len(log)
      <4>1. readIdx \in Nat /\ wr[t] \in Nat /\ Len(log) \in Nat
        BY <1>1, LenProperties DEF Index
      <4> QED BY <3>1, <3>4, <4>1
    <3>3. \A i \in readIdx .. wr[t] - 1 : log[i + 1] \in PushId
      BY <3>2, <1>1, ElementOfSeq
    <3> QED BY <1>1, <2>1, <3>3 DEF ClearStoreRead
  <2> QED BY <1>1, <2>1, Frames
<1>8. abandoned' \subseteq Index
  <2>1. CASE PushPanics(t)
    BY <1>1, <2>1 DEF PushPanics
  <2> QED BY <1>1, <2>1, Frames
<1>9. added' \in [PushId -> Int]
  <2>1. CASE EditElement(t)
    <3>1. \E v : \E n \in {1, -1} : added' \in {[added EXCEPT ![v] = @ + n], added}
      BY <2>1 DEF EditElement, Credit
    <3>2. PICK v : \E n \in {1, -1} : added' \in {[added EXCEPT ![v] = @ + n], added}
      BY <3>1
    <3>3. /\ added \in [PushId -> Int]
          /\ v \in PushId => \A n \in {1, -1} : added[v] + n \in Int
      BY <1>1
    <3> QED BY <3>2, <3>3
  <2> QED BY <1>1, <2>1, Frames
<1> QED BY <1>2, <1>3, <1>4, <1>5, <1>6, <1>7, <1>8, <1>9

\* A thread is in a push, and before its reservation, only if its call began so.
LEMMA StaysPushing ==
    ASSUME LocalTypes, NEW t \in Thread, Step(t), ~PushCall(t), ~Reserves(t)
    PROVE  /\ pc'[t] \in Pushing => pc[t] \in Pushing /\ val'[t] = val[t]
           /\ pc'[t] \in Unreserved => pc[t] \in Unreserved
<1> USE DEF LocalTypes, Goto, Pushing, Unreserved, Reserved
<1>1. CASE Return(t)
  BY <1>1 DEF Return
<1>2. CASE PushLoadRead(t) \/ PushRetry(t) \/ (PushLoadWrite(t) /\ ~Return(t))
  BY <1>2 DEF PushLoadRead, PushRetry, PushLoadWrite
<1>3. CASE PushStoreSlot(t) \/ OverwriteLoadRead(t) \/ OverwriteAdvance(t) \/ OverwriteSwap(t)
  BY <1>3 DEF PushStoreSlot, OverwriteLoadRead, OverwriteAdvance, OverwriteSwap
<1>4. CASE PopLoadRead(t) \/ (PopLoadCommit(t) /\ ~Return(t)) \/ PopLoadSlot(t) \/ PopRetry(t)
           \/ ClearLoadWrite(t) \/ EditCheck(t) \/ EditLoadRead(t)
  BY <1>4 DEF PopLoadRead, PopLoadCommit, PopLoadSlot, PopRetry, ClearLoadWrite, EditCheck,
              EditLoadRead
<1>5. CASE PeekLoadRead(t) \/ PeekLoadCommit(t) \/ PeekLoadSlot(t) \/ QueryLoadWrite(t)
           \/ QueryLoadRead(t) \/ RangeLoadRead(t) \/ RangeLoadWrite(t)
  BY <1>5 DEF PeekLoadRead, PeekLoadCommit, PeekLoadSlot, QueryLoadWrite,
              QueryLoadRead, RangeLoadRead, RangeLoadWrite
<1>6. CASE AllLoadCommit(t) \/ AllLoadSlot(t) \/ IterNext(t)
  BY <1>6 DEF AllLoadCommit, AllLoadSlot, IterNext
<1> QED
  BY <1>1, <1>2, <1>3, <1>4, <1>5, <1>6
     DEF Step, PushStep, PopStep, ClearStep, ObserverStep, EditStep, Reserves, PushPanics,
         PushCommit, PopTake, ClearStoreRead, LoadPanic, CallReturn, EditElement

\* Names stay unique: a call that begins takes a new one, and one that reserves a slot
\* puts its own in the log, where it was not.
LEMMA NamesStep ==
    ASSUME Basics, NEW t \in Thread, Step(t)
    PROVE  Names'
<1>1. TypeOK /\ Names
  BY DEF Basics
<1>2. \A u \in Thread : u # t => pc'[u] = pc[u] /\ val'[u] = val[u]
  BY <1>1, OthersKeepLocals DEF TypeOK
<1>3. /\ calls \in 0 .. MaxPush
      /\ log \in Seq(PushId) /\ Len(log) \in Nat
  BY <1>1, LenProperties DEF TypeOK, GhostTypes
<1>4. CASE PushCall(t)
  <2>1. /\ UNCHANGED log
        /\ calls' = calls + 1
        /\ val'[t] = calls' /\ pc'[t] \in Unreserved
    BY <1>1, <1>4 DEF PushCall, Goto, TypeOK, LocalTypes, Unreserved
  <2>2. \A u \in Thread : u # t /\ pc'[u] \in Pushing =>
           pc[u] \in Pushing /\ val'[u] = val[u] /\ val[u] \in 1 .. calls
    BY <1>1, <1>2 DEF Names
  <2>3. \A u \in Thread : pc'[u] \in Pushing => val'[u] \in 1 .. calls'
    BY <1>3, <2>1, <2>2
  <2>4. \A u \in Thread : pc'[u] \in Unreserved =>
           \A i \in 1 .. Len(log') : log'[i] # val'[u]
    BY <1>1, <1>2, <1>3, <2>1 DEF Names
  <2>5. \A u, w \in Thread :
           u # w /\ pc'[u] \in Pushing /\ pc'[w] \in Pushing => val'[u] # val'[w]
    BY <1>1, <1>3, <2>1, <2>2 DEF Names
  <2>6. \A i \in 1 .. Len(log') : log'[i] \in 1 .. calls'
    BY <1>1, <1>3, <2>1 DEF Names
  <2> QED BY <1>1, <2>1, <2>3, <2>4, <2>5, <2>6 DEF Names
<1>5. CASE Reserves(t)
  <2>1. /\ pc[t] \in Unreserved /\ pc'[t] \in Reserved /\ UNCHANGED <<calls, val>>
        /\ log' = Append(log, val[t])
    BY <1>1, <1>5 DEF Reserves, PushReserve, OverwriteReserve, Goto, TypeOK, LocalTypes,
                      Unreserved, Reserved
  <2>2. val[t] \in PushId /\ val[t] \in 1 .. calls
    BY <1>1, <2>1, PushedIsNamed DEF Names, Pushing
  <2>3. /\ Len(log') = Len(log) + 1
        /\ \A i \in 1 .. Len(log) : log'[i] = log[i]
        /\ log'[Len(log) + 1] = val[t]
    BY <1>3, <2>1, <2>2, AppendProperties
  <2>4. \A i \in 1 .. Len(log') : i \in 1 .. Len(log) \/ i = Len(log) + 1
    BY <1>3, <2>3
  <2>5. \A i, j \in 1 .. Len(log') : log'[i] = log'[j] => i = j
    BY <1>1, <2>1, <2>3, <2>4 DEF Names
  <2>6. \A i \in 1 .. Len(log') : log'[i] \in 1 .. calls'
    BY <1>1, <2>1, <2>2, <2>3, <2>4 DEF Names
  <2>7. \A u \in Thread : pc'[u] \in Unreserved => u # t /\ pc[u] \in Unreserved
    BY <1>2, <2>1 DEF Unreserved, Reserved
  <2>8. \A u \in Thread : pc'[u] \in Unreserved => val[u] # val[t]
    BY <1>1, <2>1, <2>7 DEF Names, Pushing
  <2>9. \A u \in Thread : pc'[u] \in Unreserved => \A i \in 1 .. Len(log') : log'[i] # val'[u]
    BY <1>1, <2>1, <2>3, <2>4, <2>7, <2>8 DEF Names
  <2>10. \A u \in Thread : pc'[u] \in Pushing => pc[u] \in Pushing
    BY <1>2, <2>1 DEF Pushing
  <2> QED BY <1>1, <2>1, <2>5, <2>6, <2>9, <2>10 DEF Names
<1>6. CASE ~PushCall(t) /\ ~Reserves(t)
  <2>1. UNCHANGED <<calls, log>>
    BY <1>6, Frames
  <2>2. /\ pc'[t] \in Pushing => pc[t] \in Pushing /\ val'[t] = val[t]
        /\ pc'[t] \in Unreserved => pc[t] \in Unreserved
    BY <1>1, <1>6, StaysPushing DEF TypeOK
  <2>3. /\ \A u \in Thread : pc'[u] \in Pushing => pc[u] \in Pushing /\ val'[u] = val[u]
        /\ \A u \in Thread : pc'[u] \in Unreserved => pc[u] \in Unreserved
    BY <1>2, <2>2
  <2>4. \A u \in Thread : pc'[u] \in Unreserved => pc'[u] \in Pushing
    BY DEF Pushing
  <2> QED BY <1>1, <2>1, <2>3, <2>4 DEF Names
<1> QED BY <1>4, <1>5, <1>6

\* The step by which a thread has come to a label of a push or a pop, or to clear_store.
LEMMA Arrivals ==
    ASSUME LocalTypes, NEW t \in Thread, Step(t)
    PROVE  /\ pc'[t] = "push_write" => PushLoadRead(t)
           /\ pc'[t] = "push_reserve" => PushLoadWrite(t)
           /\ pc'[t] = "push_store" => PushReserve(t)
           /\ pc'[t] = "push_commit" => PushStoreSlot(t) \/ OverwriteAdvance(t) \/ OverwriteSwap(t)
           /\ pc'[t] = "ow_read" => OverwriteReserve(t)
           /\ pc'[t] = "ow_advance" => OverwriteLoadRead(t)
           /\ pc'[t] = "ow_swap" => OverwriteLoadRead(t) \/ OverwriteAdvance(t)
           /\ pc'[t] = "ow_late" => OverwriteSwap(t)
           /\ pc'[t] = "pop_commit" => PopLoadRead(t)
           /\ pc'[t] = "pop_load" => PopLoadCommit(t)
           /\ pc'[t] = "pop_cas" => PopLoadSlot(t)
           /\ pc'[t] = "clear_store" => ClearLoadWrite(t)
<1> USE DEF LocalTypes, Goto
<1>1. CASE Return(t)
  BY <1>1 DEF Return
<1>2. CASE PushCall(t) \/ PushRetry(t)
  BY <1>2 DEF PushCall, PushRetry
<1>3. CASE PushLoadRead(t) \/ PushReserve(t) \/ OverwriteReserve(t) \/ PushStoreSlot(t)
  BY <1>3 DEF PushLoadRead, PushReserve, OverwriteReserve, PushStoreSlot
<1>4. CASE PushLoadWrite(t) /\ ~Return(t)
  BY <1>4 DEF PushLoadWrite
<1>5. CASE OverwriteLoadRead(t) \/ OverwriteAdvance(t) \/ OverwriteSwap(t)
  BY <1>5 DEF OverwriteLoadRead, OverwriteAdvance, OverwriteSwap
<1>6. CASE PopLoadRead(t) \/ (PopLoadCommit(t) /\ ~Return(t)) \/ PopLoadSlot(t) \/ PopRetry(t)
           \/ ClearLoadWrite(t) \/ EditCheck(t) \/ EditLoadRead(t)
  BY <1>6 DEF PopLoadRead, PopLoadCommit, PopLoadSlot, PopRetry, ClearLoadWrite, EditCheck,
              EditLoadRead
<1>7. CASE PeekLoadRead(t) \/ PeekLoadCommit(t) \/ PeekLoadSlot(t) \/ QueryLoadWrite(t)
           \/ QueryLoadRead(t) \/ RangeLoadRead(t) \/ RangeLoadWrite(t)
  BY <1>7 DEF PeekLoadRead, PeekLoadCommit, PeekLoadSlot, QueryLoadWrite,
              QueryLoadRead, RangeLoadRead, RangeLoadWrite
<1>8. CASE AllLoadCommit(t) \/ AllLoadSlot(t)
  BY <1>8 DEF AllLoadCommit, AllLoadSlot
<1>9. CASE IterNext(t)
  BY <1>9 DEF IterNext
<1> QED
  BY <1>1, <1>2, <1>3, <1>4, <1>5, <1>6, <1>7, <1>8, <1>9
     DEF Step, PushStep, PopStep, ClearStep, ObserverStep, EditStep, PushPanics,
         PushCommit, PopTake, ClearStoreRead, LoadPanic, CallReturn, EditElement

\* A slot that carries a name carries one after every step.
LEMMA SlotsStayNamed ==
    ASSUME Basics, NEW t \in Thread, Step(t), NEW k \in Slot, Named(slot[k])
    PROVE  Named(slot'[k])
<1>1. slot \in [Slot -> Value] /\ slot[k] \in Value
  BY DEF Basics, TypeOK, SharedTypes
<1>2. CASE PushStoreSlot(t) \/ OverwriteSwap(t)
  <2>1. pc[t] \in Pushing
    BY <1>2 DEF PushStoreSlot, OverwriteSwap, Pushing, Reserved
  <2>2. Named(val[t])
    BY <2>1, PushedIsNamed
  <2> QED BY <1>1, <1>2, <2>2 DEF PushStoreSlot, OverwriteSwap
<1>3. CASE EditElement(t)
  <2>1. \/ slot'[k] = slot[k]
        \/ slot'[k] = FetchAdd(slot[k], Unit)
        \/ slot'[k] = FetchSub(slot[k], Unit)
    BY <1>1, <1>3 DEF EditElement
  <2> QED BY <1>1, <2>1, AdditionsKeepId DEF Named
<1>4. CASE ~Writes(t)
  BY <1>4, Frames
<1> QED BY <1>2, <1>3, <1>4 DEF Writes

\* Slots that are committed or about to be keep their names, and pops get those.
LEMMA MarksStep ==
    ASSUME Basics, NEW t \in Thread, Step(t)
    PROVE  Marks'
<1>1. /\ LocalTypes /\ SharedTypes /\ Marks
      /\ \A i \in Index : SlotOf(i) \in Slot /\ i # Never
      /\ Index \subseteq Int
  BY IndexFacts, AtomicAssumption DEF Basics, TypeOK
<1>2. writeIdx' \in Int /\ writeIdx <= writeIdx'
  <2>1. CASE Reserves(t)
    BY <1>1, <2>1, SharedStep DEF SharedTypes
  <2>2. CASE ~Reserves(t)
    BY <1>1, <2>2, Frames DEF SharedTypes
  <2> QED BY <2>1, <2>2
<1>3. \A k \in Slot : Named(slot[k]) => Named(slot'[k])
  BY SlotsStayNamed
<1>4. ASSUME NEW k \in Slot, commit'[k] # Never PROVE Named(slot'[k])
  <2>1. CASE PushCommit(t) /\ k = SlotOf(wr[t])
    <3>1. Named(slot[k])
      BY <1>1, <2>1 DEF PushCommit, Marks, PeekAt
    <3> QED BY <1>3, <3>1
  <2>2. CASE commit'[k] = commit[k]
    BY <1>1, <1>3, <1>4, <2>2 DEF Marks
  <2>3. PushCommit(t) /\ k # SlotOf(wr[t]) => commit'[k] = commit[k]
    BY <1>1 DEF PushCommit, SharedTypes
  <2> QED BY <2>1, <2>2, <2>3, Frames
<1>5. ASSUME NEW u \in Thread
      PROVE  /\ pc'[u] \in {"push_commit", "ow_late"} => Named(slot'[SlotOf(wr'[u])])
             /\ pc'[u] = "pop_load" => Named(slot'[SlotOf(rd'[u])])
             /\ pc'[u] = "pop_cas" => Named(tmp'[u])
             /\ pc'[u] = "clear_store" => wr'[u] <= writeIdx'
  <2>1. CASE u # t
    <3>1. /\ pc'[u] = pc[u] /\ rd'[u] = rd[u] /\ wr'[u] = wr[u] /\ tmp'[u] = tmp[u]
          /\ rd[u] \in Index /\ wr[u] \in Index
      BY <1>1, <2>1, OthersKeepLocals DEF LocalTypes
    <3>2. /\ SlotOf(rd[u]) \in Slot /\ SlotOf(wr[u]) \in Slot
          /\ wr[u] \in Int /\ writeIdx \in Int
      BY <1>1, <3>1 DEF SharedTypes
    <3>3. pc[u] = "clear_store" => wr[u] <= writeIdx'
      BY <1>1, <1>2, <3>2 DEF Marks
    <3> QED BY <1>1, <1>3, <3>1, <3>2, <3>3 DEF Marks, PeekAt
  <2>2. CASE u = t
    <3>1. /\ rd[t] \in Index /\ wr[t] \in Index
          /\ SlotOf(rd[t]) \in Slot /\ SlotOf(wr[t]) \in Slot
      BY <1>1 DEF LocalTypes
    <3>2. ASSUME pc'[t] \in {"push_commit", "ow_late"} PROVE Named(slot'[SlotOf(wr'[t])])
      <4>1. PushStoreSlot(t) \/ OverwriteAdvance(t) \/ OverwriteSwap(t)
        BY <1>1, <3>2, Arrivals
      <4>2. wr' = wr
        BY <4>1 DEF PushStoreSlot, OverwriteAdvance, OverwriteSwap
      <4>3. CASE PushStoreSlot(t) \/ OverwriteSwap(t)
        <5>1. pc[t] \in Pushing
          BY <4>3 DEF PushStoreSlot, OverwriteSwap, Pushing, Reserved
        <5>2. Named(val[t])
          BY <5>1, PushedIsNamed
        <5>3. slot' = [slot EXCEPT ![SlotOf(wr[t])] = val[t]]
          BY <4>3 DEF PushStoreSlot, OverwriteSwap
        <5> QED BY <1>1, <3>1, <4>2, <5>2, <5>3 DEF SharedTypes
      <4>4. CASE OverwriteAdvance(t)
        <5>1. pc[t] = "ow_late" /\ UNCHANGED slot
          BY <1>1, <3>2, <4>4 DEF OverwriteAdvance, Goto, LocalTypes
        <5> QED BY <1>1, <4>2, <5>1 DEF Marks, PeekAt
      <4> QED BY <4>1, <4>3, <4>4
    <3>3. ASSUME pc'[t] = "pop_load" PROVE Named(slot'[SlotOf(rd'[t])])
      <4>1. PopLoadCommit(t)
        BY <1>1, <3>3, Arrivals
      <4>2. rd' = rd /\ commit[SlotOf(rd[t])] = rd[t] /\ UNCHANGED slot
        BY <1>1, <3>3, <4>1 DEF PopLoadCommit, NotCommitted, CommitStatus, Return, LocalTypes,
                                shared
      <4> QED BY <1>1, <3>1, <4>2 DEF Marks
    <3>4. ASSUME pc'[t] = "pop_cas" PROVE Named(tmp'[t])
      <4>1. PopLoadSlot(t)
        BY <1>1, <3>4, Arrivals
      <4>2. pc[t] = "pop_load" /\ tmp'[t] = PeekAt(rd[t])
        BY <1>1, <4>1 DEF PopLoadSlot, LocalTypes
      <4> QED BY <1>1, <4>2 DEF Marks
    <3>5. ASSUME pc'[t] = "clear_store" PROVE wr'[t] <= writeIdx'
      <4>1. ClearLoadWrite(t)
        BY <1>1, <3>5, Arrivals
      <4> QED BY <1>1, <1>2, <4>1 DEF ClearLoadWrite, LoadWriteIdx, LocalTypes, SharedTypes
    <3> QED BY <2>2, <3>2, <3>3, <3>4, <3>5
  <2> QED BY <2>1, <2>2
<1> QED BY <1>4, <1>5 DEF Marks, PeekAt

\* A buffer that was just created
LEMMA BasicsInit == Init => Basics
<1> SUFFICES ASSUME Init PROVE Basics
  OBVIOUS
<1>1. /\ 0 \in Index /\ 0 \in Value /\ Fresh \subseteq Value
      /\ << >> \in Seq(PushId) /\ << >> \in Seq(Value) /\ Len(<< >>) = 0
      /\ MaxPush \in Nat /\ MaxAdd \in Nat
  BY IndexFacts, UnitType, AtomicAssumption, EmptySeq
<1>2. SharedTypes
  BY <1>1 DEF Init, SharedTypes
<1>3. LocalTypes
  BY <1>1 DEF Init, LocalTypes, Label
<1>4. GhostTypes
  BY <1>1 DEF Init, GhostTypes
<1>5. Names
  BY <1>1 DEF Init, Names, Pushing, Unreserved, Reserved
<1>6. Marks
  BY <1>1 DEF Init, Marks
<1> QED BY <1>2, <1>3, <1>4, <1>5, <1>6 DEF Basics, TypeOK

LEMMA BasicsStep == Basics /\ [Next]_vars => Basics'
<1> SUFFICES ASSUME Basics, [Next]_vars PROVE Basics'
  OBVIOUS
<1>1. CASE UNCHANGED vars
  BY <1>1 DEF Basics, TypeOK, SharedTypes, LocalTypes, GhostTypes, Names, Marks, PeekAt,
              vars, shared, locals, ghosts
<1>2. CASE Next
  <2>1. PICK t \in Thread : Step(t)
    BY <1>2 DEF Next, Step
  <2>2. TypeOK
    BY DEF Basics
  <2> QED BY <2>1, <2>2, LocalStep, SharedStep, GhostStep, NamesStep, MarksStep DEF Basics, TypeOK
<1> QED BY <1>1, <1>2

LEMMA BasicsAlways == Spec => []Basics
<1> QED BY BasicsInit, BasicsStep, PTL DEF Spec

\* Every variable has its type, in whatever way the threads share the buffer: an index
\* stays within its range, no value is handed out that is not an element, and as many
\* slots are reserved as writeIdx counts, whether or not the buffer overwrites.
THEOREM TypeCorrect == Spec => []TypeOK
<1>1. Basics => TypeOK
  BY DEF Basics
<1> QED BY <1>1, BasicsAlways, PTL
=============================================================================
