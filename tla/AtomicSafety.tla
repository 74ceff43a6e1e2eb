---------------------------- MODULE AtomicSafety ----------------------------
(***************************************************************************)
(* What AtomicRing guarantees to threads that share the buffer with some   *)
(* discipline, for any number of them and every capacity, index width and  *)
(* bound.  Without the discipline the guarantees do not hold: the runs     *)
(* atomic_lost, atomic_overtaken and atomic_reordered show what two        *)
(* overwriting producers, a clear by another thread and unordered accesses *)
(* do.                                                                     *)
(***************************************************************************)
EXTENDS AtomicProofs

\* Only the producer, if it is the only one, clears, iterates and adds to elements; a
\* buffer that overwrites has one producer; and if it overwrites or is cleared, the slot
\* accesses are ordered after what their thread has done to read_idx.
Disciplined ==
    /\ \A t \in Clearers \cup Accessors : Producers = {t}
    /\ Overwrite => \A t, u \in Producers : t = u
    /\ Overwrite \/ Clearers # {} => ~Unordered

-----------------------------------------------------------------------------
(* The inductive invariant *)

\* Who gets where
Roles ==
    \A t \in Thread :
        /\ pc[t] \in Pushing => t \in Producers
        /\ pc[t] \in {"push_read", "push_write", "push_reserve", "push_store"} => ~Overwrite
        /\ pc[t] \in {"ow_reserve", "ow_read", "ow_advance", "ow_swap"} => Overwrite
        /\ over[t] => Overwrite
        /\ pc[t] # "ow_late"
        /\ pc[t] \in {"pop_read", "pop_commit", "pop_load", "pop_cas"} => t \in Consumers
        /\ pc[t] = "clear_store" => t \in Clearers
        /\ pc[t] \in {"iter_next", "edit_read", "edit"} => t \in Accessors

\* An overwriting push has reserved one slot more than there are.
Excess == \E t \in Thread : pc[t] \in {"ow_read", "ow_advance"}

\* The indices are at most a lap apart, but for the excess, and what a thread has loaded
\* is not ahead of them.
Window ==
    /\ readIdx <= writeIdx
    /\ writeIdx <= readIdx + Capacity \/ (Excess /\ writeIdx = readIdx + Capacity + 1)
    /\ \A t \in Thread :
        /\ rd[t] <= readIdx /\ wr[t] <= writeIdx
        /\ pc[t] = "push_reserve" => rd[t] <= wr[t] /\ wr[t] < rd[t] + Capacity
        /\ pc[t] = "ow_advance" => rd[t] + Capacity = wr[t]

\* A slot that is reserved and not committed is the reserving thread's own.
Reservations ==
    \A t \in Thread : pc[t] \in Reserved =>
        /\ readIdx <= wr[t] /\ wr[t] < writeIdx
        /\ Elem(wr[t]) = val[t]
        /\ CommitStatus(wr[t]) # wr[t]
        /\ pc[t] = "push_commit" => PeekAt(wr[t]) = val[t]
        /\ Overwrite => writeIdx = wr[t] + 1
        /\ added[val[t]] = 0

\* The indices whose slots nothing newer has been written to
Current == {i \in 0 .. writeIdx - 1 : readIdx <= i \/ writeIdx <= i + Capacity}

Pending(i) == \E t \in Thread : pc[t] \in Reserved /\ wr[t] = i

StoresReturn == \A o \in PushOrders : ~StorePanics(o)

\* What the commit status says
Statuses ==
    /\ \A k \in Slot : commit[k] # Never => commit[k] < writeIdx
    /\ \A i \in Current : CommitStatus(i) = i \/ Pending(i) \/ i \in abandoned
    /\ Overwrite \/ StoresReturn => abandoned = {}

\* What an element was pushed as, with what was added to it
Content(i) == (Elem(i) + Unit * added[Elem(i)]) % Width

\* PublishedIsIntact, and the names stay as long as the slots are not reused.
Contents ==
    \A i \in Current : CommitStatus(i) = i =>
        /\ IdOf(PeekAt(i)) = Elem(i)
        /\ readIdx <= i => PeekAt(i) = Content(i)

\* A pop whose compare_exchange may succeed has found the head committed and read it.
Popping ==
    \A t \in Thread : pc[t] \in {"pop_load", "pop_cas"} /\ rd[t] = readIdx =>
        /\ CommitStatus(rd[t]) = rd[t]
        /\ pc[t] = "pop_cas" => IdOf(tmp[t]) = Elem(rd[t])

\* A push that has moved read_idx past an element finds it in the slot.
Overwriting ==
    \A t \in Thread : over[t] =>
        /\ pc[t] \in {"ow_swap", "push_commit"}
        /\ rd[t] + Capacity = wr[t] /\ rd[t] < readIdx
        /\ pc[t] = "ow_swap" => IdOf(PeekAt(wr[t])) = Elem(rd[t])
        /\ pc[t] = "push_commit" => IdOf(tmp[t]) = Elem(rd[t])

\* The element of index i is on its way to the caller of the push that overwrites it.
InLimbo(i) == \E t \in Thread : over[t] /\ rd[t] = i

Count(P) == IF P THEN 1 ELSE 0

\* ExactlyOnce, at every moment
Accounts ==
    /\ handed[0] = 0
    /\ \A i \in 0 .. writeIdx - 1 :
        handed[Elem(i)] + Count(Elem(i) \in cleared) + Count(InLimbo(i)) = Count(i < readIdx)
    /\ \A v \in PushId : (\A i \in 1 .. Len(log) : log[i] # v) =>
        handed[v] = 0 /\ v \notin cleared /\ added[v] = 0

\* What was delivered lies behind read_idx, in order.
Deliveries ==
    /\ \A k \in 1 .. Len(delivered) : \E i \in 0 .. readIdx - 1 : delivered[k] = Elem(i)
    /\ DeliveredInOrder

\* What the only producer knows of the indices in its other calls
SoleView ==
    \A t \in Thread : Producers = {t} =>
        /\ pc[t] \in {"clear_store", "query_read", "queried",
                      "all_commit", "all_load", "iter_next"} => wr[t] = writeIdx
        /\ pc[t] \in {"peek_commit", "peek_load", "range_write", "all_commit", "all_load",
                      "iter_next", "edit"} => writeIdx <= rd[t] + Capacity
        /\ pc[t] \in {"edit_read", "edit"} => wr[t] < Capacity

Safe ==
    /\ Basics /\ Roles /\ Window /\ Reservations /\ Statuses /\ Contents
    /\ Popping /\ Overwriting /\ Accounts /\ Deliveries /\ SoleView

-----------------------------------------------------------------------------
(* Arithmetic *)

\* Indices within a lap of each other have slots of their own, and one lap on comes the
\* same slot.
LEMMA Laps ==
    /\ \A i, j \in Int : SlotOf(i) = SlotOf(j) /\ i <= j /\ j < i + Capacity => i = j
    /\ \A i \in Int : SlotOf(i + Capacity) = SlotOf(i)
<1>0. Capacity \in Nat \ {0}
  BY RingIndexAssumption
<1>1. ASSUME NEW i \in Int, NEW j \in Int, SlotOf(i) = SlotOf(j), i <= j, j < i + Capacity
      PROVE  i = j
  <2> DEFINE p == i \div Capacity
             q == j \div Capacity
             r == i % Capacity
  <2>1. /\ p \in Int /\ r \in 0 .. Capacity - 1 /\ i = (Capacity * p) + r
        /\ q \in Int /\ j = (Capacity * q) + r
    BY <1>0, <1>1, RemainderExists DEF SlotOf
  <2> HIDE DEF p, q, r
  <2>2. Capacity * (q - p) = (Capacity * q) - (Capacity * p) /\ q - p \in Int
    BY <1>0, <2>1, Multiples
  <2>3. /\ Capacity * p \in Int /\ Capacity * q \in Int
    BY <1>0, <2>1, Multiples
  <2>4. Capacity * (q - p) = j - i
    BY <2>1, <2>2, <2>3
  <2> DEFINE d == q - p
             e == Capacity * d
  <2>5. d \in Int /\ e = j - i
    BY <2>2, <2>4
  <2> HIDE DEF d
  <2>6. e \in Int /\ 0 <= e /\ e < Capacity
    <3> HIDE DEF e
    <3> QED BY <1>0, <1>1, <2>5
  <2>7. d = 0
    BY <1>0, <2>5, <2>6
  <2>8. e = 0
    BY <1>0, <2>7
  <2> HIDE DEF e
  <2> QED BY <1>1, <2>5, <2>8
<1>2. ASSUME NEW i \in Int PROVE SlotOf(i + Capacity) = SlotOf(i)
  <2>1. i + Capacity = i + (Capacity * 1) /\ 1 \in Int
    BY <1>0
  <2>2. (i + (Capacity * 1)) % Capacity = i % Capacity
    BY <1>0, <2>1, RemainderOfSum
  <2> QED BY <2>1, <2>2 DEF SlotOf
<1> QED BY <1>1, <1>2

\* Within the bound the index arithmetic does not wrap.
LEMMA NoWrap ==
    ASSUME NEW i \in 0 .. MaxPush, NEW j \in 0 .. MaxPush
    PROVE  /\ j <= i => WrapSub(i, j) = i - j
           /\ j <= i => (LapApart(i, j) <=> j + Capacity <= i)
           /\ \A n \in 0 .. Capacity : WrapAdd(i, n) = i + n
BY AtomicAssumption, RingIndexAssumption DEF WrapSub, LapApart, WrapAdd

\* The ranges of the numbers in a safe state
LEMMA Ranges ==
    ASSUME Basics, Window
    PROVE  /\ writeIdx \in 0 .. MaxPush /\ readIdx \in 0 .. MaxPush /\ MaxPush \in Nat
           /\ Capacity \in Nat \ {0}
           /\ \A t \in Thread : rd[t] \in 0 .. MaxPush /\ wr[t] \in 0 .. MaxPush
           /\ Len(log) = writeIdx /\ log \in Seq(PushId)
           /\ \A i \in 0 .. writeIdx - 1 : i \in Int /\ Elem(i) \in PushId
           /\ \A i, j \in 0 .. writeIdx - 1 : Elem(i) = Elem(j) => i = j
           /\ \A i \in Int : SlotOf(i) \in Slot
<1>1. /\ writeIdx \in Nat /\ readIdx \in Nat
      /\ \A t \in Thread : rd[t] \in Nat /\ wr[t] \in Nat
      /\ Len(log) = writeIdx /\ log \in Seq(PushId)
      /\ Names
  BY DEF Basics, TypeOK, SharedTypes, LocalTypes, GhostTypes, Index
<1>2. writeIdx <= MaxPush /\ MaxPush \in Nat
  BY <1>1, ReservationsAreBounded, UnitType DEF Basics
<1>3. \A i \in 0 .. writeIdx - 1 : i + 1 \in 1 .. Len(log)
  BY <1>1
<1>4. \A i \in 0 .. writeIdx - 1 : Elem(i) \in PushId
  BY <1>1, <1>3, ElementOfSeq DEF Elem
<1>5. \A i, j \in 0 .. writeIdx - 1 : Elem(i) = Elem(j) => i = j
  BY <1>1, <1>3 DEF Names, Elem
<1>6. readIdx <= writeIdx /\ \A t \in Thread : rd[t] <= readIdx /\ wr[t] <= writeIdx
  BY DEF Window
<1>7. /\ writeIdx \in 0 .. MaxPush /\ readIdx \in 0 .. MaxPush
      /\ \A t \in Thread : rd[t] \in 0 .. MaxPush /\ wr[t] \in 0 .. MaxPush
  BY <1>1, <1>2, <1>6
<1> QED BY <1>1, <1>2, <1>4, <1>5, <1>7, IndexFacts, RingIndexAssumption

-----------------------------------------------------------------------------
(* What a step does to the shared state *)

\* The steps that a thread inside a call may take
LEMMA Departures ==
    ASSUME NEW t \in Thread, Step(t)
    PROVE  /\ pc[t] = "push_store" => PushStoreSlot(t) \/ PushPanics(t)
           /\ pc[t] = "push_commit" => PushCommit(t)
           /\ pc[t] = "ow_read" => OverwriteLoadRead(t)
           /\ pc[t] = "ow_advance" => OverwriteAdvance(t) \/ OverwriteSwap(t)
           /\ pc[t] = "ow_swap" => OverwriteSwap(t)
           /\ pc[t] = "push_write" => PushLoadWrite(t)
           /\ pc[t] = "pop_commit" => PopLoadCommit(t)
<1>1. CASE PushCall(t)
  BY <1>1 DEF PushCall
<1>2. CASE PushStep(t)
  BY <1>2 DEF PushStep, PushLoadRead, PushLoadWrite, PushReserve, PushRetry,
              PushStoreSlot, PushPanics, PushCommit, OverwriteReserve, OverwriteLoadRead,
              OverwriteAdvance, OverwriteSwap
<1>3. CASE PopStep(t) \/ ClearStep(t)
  BY <1>3 DEF PopStep, ClearStep, PopLoadRead, PopLoadCommit, PopLoadSlot, PopTake, PopRetry,
              ClearLoadWrite, ClearStoreRead
<1>4. CASE ObserverStep(t) \/ EditStep(t)
  BY <1>4 DEF ObserverStep, EditStep, PeekLoadRead, PeekLoadCommit, PeekLoadSlot, RangeLoadRead,
              RangeLoadWrite, AllLoadCommit, AllLoadSlot, IterNext, LoadPanic, QueryLoadWrite,
              QueryLoadRead, CallReturn, EditCheck, EditLoadRead, EditElement
<1> QED BY <1>1, <1>2, <1>3, <1>4 DEF Step

\* The log only grows, by the reservation of the next index.
LEMMA LogStep ==
    ASSUME Basics, Window, NEW t \in Thread, Step(t)
    PROVE  /\ writeIdx' \in 0 .. MaxPush /\ writeIdx <= writeIdx'
           /\ \A i \in 0 .. writeIdx - 1 : log'[i + 1] = log[i + 1]
           /\ ~Reserves(t) => UNCHANGED <<writeIdx, log>>
           /\ Reserves(t) => /\ writeIdx' = writeIdx + 1 /\ log'[writeIdx + 1] = val[t]
                             /\ wr'[t] = writeIdx /\ UNCHANGED <<readIdx, slot, commit, over, rd, val>>
                             /\ pc[t] \in Unreserved /\ pc'[t] \in {"push_store", "ow_read"}
<1>1. /\ Len(log) = writeIdx /\ log \in Seq(PushId) /\ writeIdx \in 0 .. MaxPush
      /\ LocalTypes /\ SharedTypes
  BY Ranges DEF Basics, TypeOK
<1>2. CASE Reserves(t)
  <2>1. /\ pc[t] \in Unreserved /\ pc'[t] \in {"push_store", "ow_read"}
        /\ UNCHANGED <<readIdx, slot, commit, over, rd, val>>
        /\ log' = Append(log, val[t])
    BY <1>1, <1>2 DEF Reserves, PushReserve, OverwriteReserve, Goto, LocalTypes, Unreserved
  <2>2. wr'[t] = writeIdx
    BY <1>1, <1>2 DEF Reserves, PushReserve, OverwriteReserve, LoadWriteIdx, LocalTypes
  <2>3. val[t] \in PushId
    BY <2>1, PushedIsNamed DEF Pushing
  <2>4. /\ \A i \in 1 .. Len(log) : log'[i] = log[i]
        /\ log'[Len(log) + 1] = val[t]
    BY <1>1, <2>1, <2>3, AppendProperties
  <2>5. writeIdx' = writeIdx + 1
    BY <1>2, SharedStep
  <2>6. writeIdx < MaxPush
    BY <1>1, <2>1, ReservationsAreBounded DEF Basics
  <2>7. \A i \in 0 .. writeIdx - 1 : log'[i + 1] = log[i + 1]
    BY <1>1, <2>4
  <2>8. log'[writeIdx + 1] = val[t] /\ writeIdx' \in 0 .. MaxPush /\ writeIdx <= writeIdx'
    BY <1>1, <2>4, <2>5, <2>6, UnitType
  <2> QED BY <1>2, <2>1, <2>2, <2>5, <2>7, <2>8
<1>3. CASE ~Reserves(t)
  BY <1>1, <1>3, Frames
<1> QED BY <1>2, <1>3

\* Nobody else is in a push while the thread that shares a slot with none is in one, or
\* while the only producer is in another call.
LEMMA Alone ==
    ASSUME Disciplined, Roles, NEW t \in Thread, NEW u \in Thread, pc[u] \in Pushing,
           \/ Overwrite /\ pc[t] \in Pushing
           \/ pc[t] \in {"clear_store", "iter_next", "edit"}
           \/ Producers = {t}
    PROVE  u = t
BY DEF Disciplined, Roles

\* Nobody is in the excess but the only producer, in a push.
LEMMA NoExcess ==
    ASSUME Disciplined, Roles, NEW t \in Thread,
           pc[t] \notin {"ow_read", "ow_advance"},
           \/ pc[t] \in Pushing
           \/ pc[t] \in {"clear_store", "iter_next", "edit"}
           \/ Producers = {t}
    PROVE  ~Excess
<1> SUFFICES ASSUME NEW u \in Thread, pc[u] \in {"ow_read", "ow_advance"} PROVE FALSE
  BY DEF Excess
<1>1. pc[u] \in Pushing /\ Overwrite
  BY DEF Roles, Pushing, Reserved
<1>2. u = t
  BY <1>1, Alone
<1> QED BY <1>2

LEMMA RolesStep ==
    ASSUME Disciplined, Basics, Roles, NEW t \in Thread, Step(t)
    PROVE  Roles'
<1>1. LocalTypes
  BY DEF Basics, TypeOK
<1> DEFINE R(u, l, o) ==
             /\ l \in Pushing => u \in Producers
             /\ l \in {"push_read", "push_write", "push_reserve", "push_store"} => ~Overwrite
             /\ l \in {"ow_reserve", "ow_read", "ow_advance", "ow_swap"} => Overwrite
             /\ o => Overwrite
             /\ l # "ow_late"
             /\ l \in {"pop_read", "pop_commit", "pop_load", "pop_cas"} => u \in Consumers
             /\ l = "clear_store" => u \in Clearers
             /\ l \in {"iter_next", "edit_read", "edit"} => u \in Accessors
<1>2. \A u \in Thread : R(u, pc[u], over[u])
  BY DEF Roles
<1>3. \A u \in Thread : u # t => R(u, pc'[u], over'[u])
  BY <1>1, <1>2, OthersKeepLocals
<1>4. R(t, pc'[t], over'[t])
  <2> USE <1>1, <1>2 DEF LocalTypes, Goto, Pushing, Reserved, Unreserved
  <2>1. CASE Return(t)
    BY <2>1 DEF Return
  <2>2. CASE PushCall(t) \/ PushLoadRead(t) \/ PushRetry(t)
    BY <2>2, AtomicAssumption DEF PushCall, PushLoadRead, PushRetry
  <2>3. CASE PushReserve(t) \/ OverwriteReserve(t) \/ PushStoreSlot(t)
    BY <2>3 DEF PushReserve, OverwriteReserve, PushStoreSlot
  <2>4. CASE OverwriteLoadRead(t)
    BY <2>4 DEF OverwriteLoadRead
  <2>5. CASE OverwriteAdvance(t)
    BY <2>5 DEF OverwriteAdvance
  <2>6. CASE OverwriteSwap(t)
    <3>1. pc[t] = "ow_swap"
      BY <2>6 DEF OverwriteSwap, Disciplined
    <3> QED BY <2>6, <3>1 DEF OverwriteSwap
  <2>7. CASE PopLoadRead(t) \/ PopLoadSlot(t) \/ PopRetry(t)
    BY <2>7 DEF PopLoadRead, PopLoadSlot, PopRetry
  <2>8. CASE ClearLoadWrite(t) \/ PeekLoadRead(t) \/ PeekLoadCommit(t) \/ QueryLoadWrite(t)
             \/ QueryLoadRead(t) \/ RangeLoadRead(t) \/ RangeLoadWrite(t) \/ AllLoadCommit(t)
    BY <2>8 DEF ClearLoadWrite, PeekLoadRead, PeekLoadCommit, QueryLoadWrite,
                QueryLoadRead, RangeLoadRead, RangeLoadWrite, AllLoadCommit
  <2>9. CASE PeekLoadSlot(t) \/ AllLoadSlot(t) \/ IterNext(t) \/ EditCheck(t)
             \/ EditLoadRead(t)
    BY <2>9 DEF PeekLoadSlot, AllLoadSlot, IterNext, Show, EditCheck, EditLoadRead
  <2>10. CASE PushLoadWrite(t) /\ ~Return(t)
    BY <2>10 DEF PushLoadWrite
  <2>11. CASE PopLoadCommit(t) /\ ~Return(t)
    BY <2>11 DEF PopLoadCommit
  <2> QED
    BY <2>1, <2>2, <2>3, <2>4, <2>5, <2>6, <2>7, <2>8, <2>9, <2>10, <2>11
       DEF Step, PushStep, PopStep, ClearStep, ObserverStep, EditStep, PushPanics, PushCommit,
           PopTake, ClearStoreRead, LoadPanic, CallReturn, EditElement
<1> HIDE DEF R
<1>5. \A u \in Thread : R(u, pc'[u], over'[u])
  BY <1>3, <1>4
<1> QED BY <1>5 DEF Roles, R

\* How the two indices move: readIdx only past what is committed, by one, or to writeIdx.
LEMMA ReadStep ==
    ASSUME Disciplined, Safe, NEW t \in Thread, Step(t)
    PROVE  /\ readIdx' \in 0 .. MaxPush /\ readIdx <= readIdx' /\ readIdx' <= writeIdx
           /\ ~Takes(t) => readIdx' = readIdx
           /\ PopTake(t) => rd[t] = readIdx /\ readIdx' = readIdx + 1
           /\ OverwriteAdvance(t) => \/ readIdx # rd[t] /\ readIdx' = readIdx /\ over' = over
                                     \/ /\ readIdx = rd[t] /\ readIdx' = readIdx + 1
                                        /\ over' = [over EXCEPT ![t] = TRUE]
           /\ ClearStoreRead(t) => readIdx' = writeIdx /\ wr[t] = writeIdx
<1>1. /\ Basics /\ Window /\ Roles /\ LocalTypes /\ SharedTypes
      /\ writeIdx \in 0 .. MaxPush /\ readIdx \in 0 .. MaxPush /\ readIdx <= writeIdx
      /\ MaxPush \in Nat /\ Capacity \in Nat \ {0} /\ rd[t] \in 0 .. MaxPush
      /\ \A i \in Int : SlotOf(i) \in Slot
  BY Ranges DEF Safe, Basics, TypeOK, Window
<1>2. \A i \in 0 .. MaxPush : WrapAdd(i, 1) = i + 1
  BY IndexFacts
<1>3. CASE PopTake(t)
  <2>1. rd[t] = readIdx /\ readIdx' = readIdx + 1 /\ pc[t] = "pop_cas"
    BY <1>1, <1>2, <1>3 DEF PopTake, AdvanceReadIdx
  <2>2. commit[SlotOf(readIdx)] = readIdx
    BY <2>1 DEF Safe, Popping, CommitStatus
  <2>3. SlotOf(readIdx) \in Slot /\ readIdx # Never
    BY <1>1, AtomicAssumption DEF SharedTypes
  <2>4. readIdx < writeIdx
    BY <2>2, <2>3 DEF Safe, Statuses
  <2> QED BY <1>1, <1>3, <2>1, <2>4 DEF Takes, PopTake, OverwriteAdvance, ClearStoreRead
<1>4. CASE OverwriteAdvance(t)
  <2>1. pc[t] = "ow_advance"
    BY <1>1, <1>4 DEF OverwriteAdvance, Roles
  <2>2. /\ rd[t] + Capacity = wr[t] /\ wr[t] < writeIdx
    BY <1>1, <2>1 DEF Safe, Window, Reservations, Reserved
  <2>3. rd[t] < writeIdx
    BY <1>1, <2>2
  <2>4. \/ readIdx # rd[t] /\ readIdx' = readIdx /\ over' = over
        \/ /\ readIdx = rd[t] /\ readIdx' = readIdx + 1
           /\ over' = [over EXCEPT ![t] = TRUE]
    BY <1>1, <1>2, <1>4 DEF OverwriteAdvance, AdvanceReadIdx
  <2> QED BY <1>1, <1>4, <2>1, <2>3, <2>4 DEF Takes, PopTake, OverwriteAdvance, ClearStoreRead
<1>5. CASE ClearStoreRead(t)
  <2>1. pc[t] = "clear_store" /\ t \in Clearers /\ readIdx' = wr[t]
    BY <1>1, <1>5 DEF ClearStoreRead, Roles
  <2>2. wr[t] = writeIdx
    BY <2>1 DEF Safe, SoleView, Disciplined
  <2> QED BY <1>1, <1>5, <2>1, <2>2 DEF Takes, PopTake, OverwriteAdvance, ClearStoreRead
<1>6. CASE ~Takes(t)
  <2>1. readIdx' = readIdx
    BY <1>6, Frames
  <2> QED BY <1>1, <1>6, <2>1 DEF Takes
<1> QED BY <1>3, <1>4, <1>5, <1>6 DEF Takes

\* What a thread loads is an index as it is, and it loses it when the call is over.
LEMMA LoadStep ==
    ASSUME Basics, NEW t \in Thread, Step(t)
    PROVE  /\ rd'[t] \in {0, rd[t], readIdx}
           /\ wr'[t] \in {0, wr[t], writeIdx} \/ EditCheck(t)
<1>1. LocalTypes
  BY DEF Basics, TypeOK
<1> USE <1>1 DEF LocalTypes, LoadReadIdx, LoadWriteIdx
<1>2. CASE Return(t)
  BY <1>2 DEF Return
<1>3. CASE PushCall(t) \/ PushLoadRead(t) \/ PushRetry(t)
  BY <1>3 DEF PushCall, PushLoadRead, PushRetry
<1>4. CASE PushReserve(t) \/ OverwriteReserve(t) \/ PushStoreSlot(t)
  BY <1>4 DEF PushReserve, OverwriteReserve, PushStoreSlot
<1>5. CASE OverwriteLoadRead(t) \/ OverwriteAdvance(t) \/ OverwriteSwap(t)
  BY <1>5 DEF OverwriteLoadRead, OverwriteAdvance, OverwriteSwap
<1>6. CASE PopLoadRead(t) \/ PopLoadSlot(t) \/ PopRetry(t)
  BY <1>6 DEF PopLoadRead, PopLoadSlot, PopRetry
<1>7. CASE ClearLoadWrite(t) \/ PeekLoadRead(t) \/ PeekLoadCommit(t) \/ QueryLoadWrite(t)
           \/ QueryLoadRead(t) \/ RangeLoadRead(t) \/ RangeLoadWrite(t) \/ AllLoadCommit(t)
  BY <1>7 DEF ClearLoadWrite, PeekLoadRead, PeekLoadCommit, QueryLoadWrite,
              QueryLoadRead, RangeLoadRead, RangeLoadWrite, AllLoadCommit
<1>8. CASE PeekLoadSlot(t) \/ AllLoadSlot(t) \/ IterNext(t) \/ EditCheck(t)
           \/ EditLoadRead(t)
  BY <1>8 DEF PeekLoadSlot, AllLoadSlot, IterNext, Show, EditCheck, EditLoadRead
<1>9. CASE PushLoadWrite(t) /\ ~Return(t)
  BY <1>9 DEF PushLoadWrite
<1>10. CASE PopLoadCommit(t) /\ ~Return(t)
  BY <1>10 DEF PopLoadCommit
<1> QED
  BY <1>2, <1>3, <1>4, <1>5, <1>6, <1>7, <1>8, <1>9, <1>10
     DEF Step, PushStep, PopStep, ClearStep, ObserverStep, EditStep, PushPanics, PushCommit,
         PopTake, ClearStoreRead, LoadPanic, CallReturn, EditElement

LEMMA WindowStep ==
    ASSUME Disciplined, Safe, NEW t \in Thread, Step(t)
    PROVE  Window'
<1>1. /\ Basics /\ Window /\ Roles /\ LocalTypes
      /\ writeIdx \in 0 .. MaxPush /\ readIdx \in 0 .. MaxPush /\ readIdx <= writeIdx
      /\ MaxPush \in Nat /\ Capacity \in Nat \ {0}
      /\ \A u \in Thread : rd[u] \in 0 .. MaxPush /\ wr[u] \in 0 .. MaxPush
  BY Ranges DEF Safe, Basics, TypeOK, Window
<1>2. /\ readIdx' \in 0 .. MaxPush /\ readIdx <= readIdx' /\ readIdx' <= writeIdx
      /\ writeIdx' \in 0 .. MaxPush /\ writeIdx <= writeIdx'
      /\ Reserves(t) => readIdx' = readIdx /\ writeIdx' = writeIdx + 1
      /\ ~Reserves(t) => writeIdx' = writeIdx
  BY <1>1, ReadStep, LogStep
<1>3. \A u \in Thread : u # t => pc'[u] = pc[u] /\ rd'[u] = rd[u] /\ wr'[u] = wr[u]
  BY <1>1, OthersKeepLocals
<1>4. \A u \in Thread : rd'[u] <= readIdx' /\ wr'[u] <= writeIdx'
  <2>1. \A u \in Thread : rd[u] <= readIdx /\ wr[u] <= writeIdx
    BY <1>1 DEF Window
  <2>2. rd'[t] <= readIdx'
    BY <1>1, <1>2, <2>1, LoadStep
  <2>3. wr'[t] <= writeIdx'
    <3>1. CASE EditCheck(t)
      <4>1. wr'[t] < WrapSub(writeIdx, readIdx)
        BY <1>1, <3>1 DEF EditCheck, LocalTypes
      <4>2. WrapSub(writeIdx, readIdx) = writeIdx - readIdx
        BY <1>1, NoWrap
      <4>3. wr'[t] \in Int
        BY LocalStep DEF LocalTypes, Index, Safe, Basics
      <4> QED BY <1>1, <1>2, <4>1, <4>2, <4>3
    <3>2. CASE wr'[t] \in {0, wr[t], writeIdx}
      BY <1>1, <1>2, <2>1, <3>2
    <3> QED BY <1>1, <3>1, <3>2, LoadStep
  <2> QED BY <1>1, <1>2, <1>3, <2>1, <2>2, <2>3
<1>5. \A u \in Thread :
        /\ pc'[u] = "push_reserve" => rd'[u] <= wr'[u] /\ wr'[u] < rd'[u] + Capacity
        /\ pc'[u] = "ow_advance" => rd'[u] + Capacity = wr'[u]
  <2>1. ASSUME pc'[t] = "push_reserve" PROVE rd'[t] <= wr'[t] /\ wr'[t] < rd'[t] + Capacity
    <3>1. PushLoadWrite(t)
      BY <1>1, <2>1, Arrivals
    <3>2. ~LapApart(writeIdx, rd[t]) /\ rd'[t] = rd[t] /\ wr'[t] = writeIdx
      BY <1>1, <2>1, <3>1 DEF PushLoadWrite, Return, LoadWriteIdx, LocalTypes
    <3>3. rd[t] <= writeIdx
      BY <1>1 DEF Window
    <3> QED BY <1>1, <3>2, <3>3, NoWrap
  <2>2. ASSUME pc'[t] = "ow_advance" PROVE rd'[t] + Capacity = wr'[t]
    <3>1. OverwriteLoadRead(t)
      BY <1>1, <2>2, Arrivals
    <3>2. /\ pc[t] = "ow_read" /\ LapApart(wr[t], readIdx)
          /\ rd'[t] = readIdx /\ wr'[t] = wr[t]
      BY <1>1, <2>2, <3>1 DEF OverwriteLoadRead, LoadReadIdx, Goto, LocalTypes
    <3>3. Overwrite
      BY <1>1, <3>2 DEF Roles
    <3>4. readIdx <= wr[t] /\ writeIdx = wr[t] + 1
      BY <3>2, <3>3 DEF Safe, Reservations, Reserved
    <3>5. writeIdx <= readIdx + Capacity + 1
      BY <1>1 DEF Window
    <3>6. readIdx + Capacity <= wr[t]
      BY <1>1, <3>2, <3>4, NoWrap
    <3> QED BY <1>1, <3>2, <3>4, <3>5, <3>6
  <2> QED BY <1>1, <1>3, <2>1, <2>2 DEF Window
<1>6. writeIdx' <= readIdx' + Capacity \/ (Excess' /\ writeIdx' = readIdx' + Capacity + 1)
  <2>1. CASE PushReserve(t)
    <3>1. pc[t] = "push_reserve" /\ writeIdx = wr[t]
      BY <2>1 DEF PushReserve
    <3>2. wr[t] < rd[t] + Capacity /\ rd[t] <= readIdx
      BY <1>1, <3>1 DEF Window
    <3> QED BY <1>1, <1>2, <2>1, <3>1, <3>2 DEF Reserves
  <2>2. CASE OverwriteReserve(t)
    <3>1. pc[t] = "ow_reserve" /\ pc'[t] = "ow_read"
      BY <1>1, <2>2 DEF OverwriteReserve, Goto, LocalTypes
    <3>2. ~Excess
      BY <1>1, <3>1, NoExcess DEF Pushing, Unreserved
    <3>3. writeIdx <= readIdx + Capacity
      BY <1>1, <3>2 DEF Window
    <3>4. Excess'
      BY <3>1 DEF Excess
    <3> QED BY <1>1, <1>2, <2>2, <3>3, <3>4 DEF Reserves
  <2>3. CASE ~Reserves(t)
    <3>1. CASE writeIdx <= readIdx + Capacity
      BY <1>1, <1>2, <2>3, <3>1
    <3>2. CASE Excess /\ writeIdx = readIdx + Capacity + 1
      <4>1. PICK u \in Thread : pc[u] \in {"ow_read", "ow_advance"}
        BY <3>2 DEF Excess
      <4>2. CASE readIdx' # readIdx
        <5>1. /\ readIdx \in Int /\ readIdx' \in Int /\ Capacity \in Int
              /\ readIdx + 1 <= readIdx' /\ writeIdx' = writeIdx
          BY <1>1, <1>2, <2>3, <4>2
        <5>2. writeIdx' = readIdx + Capacity + 1
          BY <3>2, <5>1
        <5>3. \A i, j, n \in Int : i + 1 <= j => i + n + 1 <= j + n
          OBVIOUS
        <5> QED BY <5>1, <5>2, <5>3
      <4>3. CASE readIdx' = readIdx /\ pc'[u] \in {"ow_read", "ow_advance"}
        BY <1>2, <2>3, <3>2, <4>3 DEF Excess
      <4>4. CASE readIdx' = readIdx /\ pc'[u] \notin {"ow_read", "ow_advance"}
        <5>1. u = t /\ Overwrite
          BY <1>1, <1>3, <4>1, <4>4 DEF Roles
        <5>2. writeIdx = wr[t] + 1 /\ readIdx <= wr[t]
          BY <4>1, <5>1 DEF Safe, Reservations, Reserved
        <5>3. CASE pc[t] = "ow_read"
          <6>1. OverwriteLoadRead(t)
            BY <5>3, Departures
          <6>2. ~LapApart(wr[t], readIdx)
            BY <1>1, <4>4, <5>1, <6>1 DEF OverwriteLoadRead, Goto, LocalTypes
          <6> QED BY <1>1, <3>2, <5>2, <6>2, NoWrap
        <5>4. CASE pc[t] = "ow_advance"
          <6>1. OverwriteAdvance(t)
            BY <5>1, <5>4, Departures DEF OverwriteSwap, Disciplined
          <6>2. readIdx # rd[t]
            BY <1>1, <4>4, <6>1, ReadStep
          <6>3. rd[t] + Capacity = wr[t] /\ rd[t] <= readIdx
            BY <1>1, <5>4 DEF Window
          <6> QED BY <1>1, <3>2, <5>2, <6>2, <6>3
        <5> QED BY <4>1, <5>1, <5>3, <5>4
      <4> QED BY <4>2, <4>3, <4>4
    <3> QED BY <1>1, <3>1, <3>2 DEF Window
  <2> QED BY <2>1, <2>2, <2>3 DEF Reserves
<1>7. readIdx' <= writeIdx'
  BY <1>1, <1>2
<1> QED BY <1>4, <1>5, <1>6, <1>7 DEF Window

-----------------------------------------------------------------------------
(* Reservations, commits and contents *)

\* Current indices have slots of their own, but for the excess.
LEMMA CurrentSlots ==
    ASSUME Basics, Window, ~Excess, NEW i \in Current, NEW j \in Current, SlotOf(i) = SlotOf(j)
    PROVE  i = j
<1>1. /\ writeIdx \in Int /\ readIdx \in Int /\ Capacity \in Int /\ i \in Int /\ j \in Int
      /\ i < writeIdx /\ writeIdx <= i + Capacity
      /\ j < writeIdx /\ writeIdx <= j + Capacity
  BY Ranges DEF Window, Current
<1>2. i < j + Capacity /\ j < i + Capacity
  BY <1>1
<1>3. i <= j \/ j <= i
  BY <1>1
<1> QED BY <1>1, <1>2, <1>3, Laps

\* A reserved index is current.
LEMMA ReservedIsCurrent ==
    ASSUME Basics, Window, Reservations, NEW t \in Thread, pc[t] \in Reserved
    PROVE  wr[t] \in Current
BY Ranges DEF Reservations, Current

\* No two pushes have reserved the same index.
LEMMA OwnReservation ==
    ASSUME Basics, Window, Reservations, NEW t \in Thread, NEW u \in Thread, u # t,
           pc[t] \in Reserved, pc[u] \in Reserved
    PROVE  wr[t] # wr[u]
<1>1. val[t] # val[u]
  BY DEF Basics, Names, Pushing
<1> QED BY <1>1 DEF Reservations

\* Nobody else's slot is written, and no element of another push is changed, while a push
\* holds a reservation.
LEMMA ReservationsStep ==
    ASSUME Disciplined, Safe, NEW t \in Thread, Step(t)
    PROVE  Reservations'
<1>1. /\ Basics /\ Window /\ Roles /\ Reservations /\ Statuses /\ LocalTypes /\ SharedTypes
      /\ writeIdx \in 0 .. MaxPush /\ readIdx \in 0 .. MaxPush /\ readIdx <= writeIdx
      /\ MaxPush \in Nat /\ Capacity \in Nat \ {0}
      /\ \A u \in Thread : rd[u] \in 0 .. MaxPush /\ wr[u] \in 0 .. MaxPush
      /\ \A i \in Int : SlotOf(i) \in Slot
      /\ \A i \in 0 .. MaxPush : i \in Int /\ i # Never
  BY Ranges, IndexFacts, AtomicAssumption DEF Safe, Basics, TypeOK, Window
<1>2. /\ readIdx' \in 0 .. MaxPush /\ readIdx <= readIdx' /\ readIdx' <= writeIdx
      /\ writeIdx' \in 0 .. MaxPush /\ writeIdx <= writeIdx'
      /\ \A i \in 0 .. writeIdx - 1 : log'[i + 1] = log[i + 1]
  BY <1>1, ReadStep, LogStep
<1> DEFINE Own(u) ==
             /\ readIdx' <= wr'[u] /\ wr'[u] < writeIdx'
             /\ log'[wr'[u] + 1] = val'[u]
             /\ commit'[SlotOf(wr'[u])] # wr'[u]
             /\ pc'[u] = "push_commit" => slot'[SlotOf(wr'[u])] = val'[u]
             /\ Overwrite => writeIdx' = wr'[u] + 1
             /\ added'[val'[u]] = 0
<1>3. ASSUME NEW u \in Thread, u # t, pc'[u] \in Reserved PROVE Own(u)
  <2>1. pc[u] \in Reserved /\ pc'[u] = pc[u] /\ wr'[u] = wr[u] /\ val'[u] = val[u]
    BY <1>1, <1>3, OthersKeepLocals
  <2>2. /\ readIdx <= wr[u] /\ wr[u] < writeIdx
        /\ log[wr[u] + 1] = val[u]
        /\ commit[SlotOf(wr[u])] # wr[u]
        /\ pc[u] = "push_commit" => slot[SlotOf(wr[u])] = val[u]
        /\ Overwrite => writeIdx = wr[u] + 1
        /\ added[val[u]] = 0
        /\ wr[u] \in Int
    BY <1>1, <2>1 DEF Reservations, Elem, CommitStatus, PeekAt
  <2>3. log'[wr[u] + 1] = val[u] /\ wr[u] < writeIdx'
    <3>1. wr[u] \in 0 .. writeIdx - 1
      BY <1>1, <2>2
    <3> QED BY <1>1, <1>2, <2>2, <3>1
  <2>4. /\ ~Overwrite \/ pc[t] \notin Pushing
        /\ pc[t] \notin {"clear_store", "edit"}
    BY <1>1, <1>3, <2>1, Alone DEF Pushing
  <2>5. readIdx' <= wr[u]
    <3>1. CASE PopTake(t)
      <4>1. pc[t] = "pop_cas"
        BY <3>1 DEF PopTake
      <4>2. commit[SlotOf(readIdx)] = readIdx /\ readIdx' = readIdx + 1
        BY <3>1, <4>1, ReadStep DEF Safe, Popping, CommitStatus
      <4>3. wr[u] # readIdx
        BY <2>2, <4>2
      <4> QED BY <1>1, <2>2, <4>2, <4>3
    <3>2. ~OverwriteAdvance(t) /\ ~ClearStoreRead(t)
      BY <1>1, <2>4 DEF OverwriteAdvance, ClearStoreRead, Roles, Pushing, Reserved
    <3> QED BY <2>2, <3>1, <3>2, ReadStep DEF Takes
  <2>6. commit'[SlotOf(wr[u])] # wr[u]
    <3>1. CASE PushCommit(t)
      <4>1. pc[t] \in Reserved /\ commit' = [commit EXCEPT ![SlotOf(wr[t])] = wr[t]]
        BY <3>1 DEF PushCommit, CommitMark, Reserved
      <4>2. wr[t] # wr[u]
        BY <1>1, <1>3, <2>1, <4>1, OwnReservation
      <4> QED BY <1>1, <2>2, <4>1, <4>2 DEF SharedTypes
    <3> QED BY <2>2, <3>1, Frames
  <2>7. pc[u] = "push_commit" => slot'[SlotOf(wr[u])] = val[u]
    <3>1. CASE PushStoreSlot(t)
      <4>1. pc[t] \in Reserved /\ pc[t] = "push_store"
        BY <3>1 DEF PushStoreSlot, Reserved
      <4>2. ~Excess
        BY <1>1, <4>1, NoExcess DEF Pushing
      <4>3. SlotOf(wr[t]) # SlotOf(wr[u])
        BY <1>1, <1>3, <2>1, <4>1, <4>2, ReservedIsCurrent, CurrentSlots, OwnReservation
      <4> QED BY <1>1, <2>2, <3>1, <4>3 DEF PushStoreSlot, SharedTypes
    <3>2. ~OverwriteSwap(t) /\ ~EditElement(t)
      BY <1>1, <2>4 DEF OverwriteSwap, EditElement, Roles, Pushing, Reserved
    <3> QED BY <2>2, <3>1, <3>2, Frames DEF Writes
  <2>8. Overwrite => writeIdx' = wr[u] + 1
    <3>1. Overwrite => ~Reserves(t)
      BY <1>1, <2>4, LogStep DEF Pushing
    <3> QED BY <1>1, <2>2, <3>1, LogStep
  <2>9. added'[val[u]] = 0
    BY <2>2, <2>4, Frames DEF EditElement
  <2> QED BY <2>1, <2>3, <2>5, <2>6, <2>7, <2>8, <2>9
<1>4. ASSUME pc'[t] \in Reserved PROVE Own(t)
  <2>1. CASE Reserves(t)
    <3>1. /\ wr'[t] = writeIdx /\ writeIdx' = writeIdx + 1 /\ log'[writeIdx + 1] = val[t]
          /\ val' = val /\ commit' = commit /\ readIdx' = readIdx
          /\ pc[t] \in Unreserved /\ pc'[t] # "push_commit"
      BY <1>1, <2>1, LogStep
    <3>2. commit[SlotOf(writeIdx)] # writeIdx
      BY <1>1 DEF Statuses
    <3>3. added' = added
      BY <2>1, Frames DEF Reserves, EditElement, PushReserve, OverwriteReserve
    <3>4. /\ val[t] \in PushId
          /\ \A i \in 1 .. Len(log) : log[i] # val[t]
      BY <1>1, <3>1, PushedIsNamed DEF Basics, Names, Pushing
    <3>5. added[val[t]] = 0
      BY <3>4 DEF Safe, Accounts
    <3> QED BY <1>1, <3>1, <3>2, <3>3, <3>5
  <2>2. CASE ~Reserves(t)
    <3>1. PushStoreSlot(t) \/ OverwriteLoadRead(t) \/ OverwriteAdvance(t) \/ OverwriteSwap(t)
      BY <1>1, <1>4, <2>2, Arrivals DEF Reserved, Reserves
    <3>2. /\ pc[t] \in Reserved
          /\ UNCHANGED <<writeIdx, log, commit, wr, val, added>>
      BY <3>1 DEF PushStoreSlot, OverwriteLoadRead, OverwriteAdvance, OverwriteSwap, Reserved,
                  shared, ghosts
    <3>3. /\ readIdx <= wr[t] /\ wr[t] < writeIdx
          /\ log[wr[t] + 1] = val[t]
          /\ commit[SlotOf(wr[t])] # wr[t]
          /\ Overwrite => writeIdx = wr[t] + 1
          /\ added[val[t]] = 0
      BY <1>1, <3>2 DEF Reservations, Elem, CommitStatus
    <3>4. readIdx' <= wr[t]
      <4>1. CASE OverwriteAdvance(t)
        <5>1. rd[t] + Capacity = wr[t]
          BY <1>1, <4>1 DEF OverwriteAdvance, Roles, Window
        <5> QED BY <1>1, <3>3, <4>1, <5>1, ReadStep
      <4>2. CASE readIdx' = readIdx
        BY <3>3, <4>2
      <4> QED BY <3>1, <4>1, <4>2
              DEF PushStoreSlot, OverwriteLoadRead, OverwriteSwap, shared
    <3>5. pc'[t] = "push_commit" => slot'[SlotOf(wr[t])] = val[t]
      <4>1. CASE PushStoreSlot(t) \/ OverwriteSwap(t)
        BY <1>1, <4>1 DEF PushStoreSlot, OverwriteSwap, SharedTypes
      <4>2. CASE OverwriteLoadRead(t) \/ OverwriteAdvance(t)
        BY <1>1, <4>2 DEF OverwriteLoadRead, OverwriteAdvance, Goto, LocalTypes, Roles
      <4> QED BY <3>1, <4>1, <4>2
    <3> QED BY <3>2, <3>3, <3>4, <3>5
  <2> QED BY <2>1, <2>2
<1>5. \A u \in Thread : pc'[u] \in Reserved => Own(u)
  BY <1>3, <1>4
<1> QED BY <1>5 DEF Reservations, Elem, CommitStatus, PeekAt

\* A committed slot stays committed until its index is no longer current.
LEMMA CommitsStay ==
    ASSUME Disciplined, Safe, NEW t \in Thread, Step(t), NEW i \in Current,
           CommitStatus(i) = i
    PROVE  commit'[SlotOf(i)] = i
<1>1. /\ Basics /\ Window /\ Roles /\ Reservations /\ SharedTypes
      /\ i \in Int /\ wr[t] \in Int
      /\ \A j \in Int : SlotOf(j) \in Slot
  BY Ranges DEF Safe, Basics, TypeOK, Current
<1>2. CASE PushCommit(t)
  <2>1. /\ pc[t] = "push_commit" /\ pc[t] \in Reserved
        /\ commit' = [commit EXCEPT ![SlotOf(wr[t])] = wr[t]]
    BY <1>2 DEF PushCommit, CommitMark, Reserved
  <2>2. ~Excess
    BY <1>1, <2>1, NoExcess DEF Pushing
  <2>3. CASE SlotOf(wr[t]) = SlotOf(i)
    <3>1. wr[t] = i
      BY <1>1, <2>1, <2>2, <2>3, ReservedIsCurrent, CurrentSlots
    <3> QED BY <1>1, <2>1, <3>1 DEF SharedTypes
  <2>4. CASE SlotOf(wr[t]) # SlotOf(i)
    BY <1>1, <2>1, <2>4 DEF SharedTypes, CommitStatus
  <2> QED BY <2>3, <2>4
<1>3. CASE ~PushCommit(t)
  BY <1>3, Frames DEF CommitStatus
<1> QED BY <1>2, <1>3

\* No index becomes current again, and a new one is pending.
LEMMA CurrentStep ==
    ASSUME Disciplined, Safe, NEW t \in Thread, Step(t), NEW i \in Current'
    PROVE  \/ i \in Current
           \/ Reserves(t) /\ i = writeIdx
<1>1. /\ Basics /\ Window
      /\ writeIdx \in Int /\ readIdx \in Int /\ Capacity \in Int
      /\ readIdx' \in Int /\ readIdx <= readIdx' /\ writeIdx' \in Int
      /\ writeIdx <= writeIdx'
      /\ Reserves(t) => writeIdx' = writeIdx + 1
      /\ ~Reserves(t) => writeIdx' = writeIdx
  BY Ranges, ReadStep, LogStep DEF Safe
<1>2. /\ i \in 0 .. writeIdx' - 1
      /\ readIdx' <= i \/ writeIdx' <= i + Capacity
  BY DEF Current
<1>3. i \in 0 .. writeIdx - 1 \/ (Reserves(t) /\ i = writeIdx)
  <2>1. CASE Reserves(t)
    <3>1. i \in 0 .. (writeIdx + 1) - 1
      BY <1>1, <1>2, <2>1
    <3> QED BY <1>1, <2>1, <3>1
  <2>2. CASE ~Reserves(t)
    BY <1>1, <1>2, <2>2
  <2> QED BY <2>1, <2>2
<1>4. readIdx <= i \/ writeIdx <= i + Capacity
  <2>1. \A a, b, c \in Int : a <= b /\ b <= c => a <= c
    OBVIOUS
  <2>2. i \in Int /\ i + Capacity \in Int
    BY <1>1, <1>2
  <2> QED BY <1>1, <1>2, <2>1, <2>2
<1> QED BY <1>3, <1>4 DEF Current

LEMMA StatusesStep ==
    ASSUME Disciplined, Safe, NEW t \in Thread, Step(t)
    PROVE  Statuses'
<1>1. /\ Basics /\ Window /\ Roles /\ Reservations /\ Statuses /\ LocalTypes /\ SharedTypes
      /\ writeIdx \in 0 .. MaxPush
      /\ \A i \in Int : SlotOf(i) \in Slot
      /\ \A u \in Thread : wr[u] \in 0 .. MaxPush
  BY Ranges DEF Safe, Basics, TypeOK
<1>2. writeIdx' \in 0 .. MaxPush /\ writeIdx <= writeIdx'
  BY <1>1, LogStep
<1>3. ASSUME NEW k \in Slot, commit'[k] # Never PROVE commit'[k] < writeIdx'
  <2>1. CASE commit'[k] = commit[k]
    <3>1. commit[k] < writeIdx /\ commit[k] \in Int
      BY <1>1, <1>3, <2>1 DEF Statuses, SharedTypes, Index
    <3>2. \A a, b, c \in Int : a < b /\ b <= c => a < c
      OBVIOUS
    <3>3. writeIdx \in Int /\ writeIdx' \in Int
      BY <1>1, <1>2
    <3> QED BY <1>2, <2>1, <3>1, <3>2, <3>3
  <2>2. CASE PushCommit(t) /\ k = SlotOf(wr[t])
    <3>1. /\ pc[t] \in Reserved /\ commit'[k] = wr[t]
          /\ writeIdx' = writeIdx
      BY <1>1, <2>2 DEF PushCommit, CommitMark, Reserved, SharedTypes
    <3> QED BY <1>1, <3>1 DEF Reservations
  <2>3. PushCommit(t) /\ k # SlotOf(wr[t]) => commit'[k] = commit[k]
    BY <1>1 DEF PushCommit, SharedTypes
  <2> QED BY <2>1, <2>2, <2>3, Frames
<1>4. ASSUME NEW i \in Current'
      PROVE  \/ commit'[SlotOf(i)] = i
             \/ \E u \in Thread : pc'[u] \in Reserved /\ wr'[u] = i
             \/ i \in abandoned'
  <2>1. CASE Reserves(t) /\ i = writeIdx
    <3>1. pc'[t] \in Reserved /\ wr'[t] = i
      BY <1>1, <2>1, LogStep DEF Reserved
    <3> QED BY <3>1
  <2>2. CASE i \in Current
    <3>1. CASE CommitStatus(i) = i
      BY <2>2, <3>1, CommitsStay
    <3>2. CASE i \in abandoned
      <4>1. CASE PushPanics(t)
        BY <3>2, <4>1 DEF PushPanics
      <4> QED BY <3>2, <4>1, Frames
    <3>3. CASE Pending(i)
      <4>1. PICK u \in Thread : pc[u] \in Reserved /\ wr[u] = i
        BY <3>3 DEF Pending
      <4>2. CASE u # t
        BY <1>1, <4>1, <4>2, OthersKeepLocals
      <4>3. CASE u = t
        <5>1. CASE PushCommit(t)
          BY <1>1, <4>1, <4>3, <5>1 DEF PushCommit, CommitMark, SharedTypes
        <5>2. CASE PushPanics(t)
          BY <4>1, <4>3, <5>2 DEF PushPanics
        <5>3. CASE PushStoreSlot(t) \/ OverwriteLoadRead(t) \/ OverwriteAdvance(t)
                   \/ OverwriteSwap(t)
          <6>1. pc'[t] \in Reserved /\ wr' = wr
            BY <1>1, <5>3 DEF PushStoreSlot, OverwriteLoadRead, OverwriteAdvance, OverwriteSwap,
                              Goto, LocalTypes, Reserved
          <6> QED BY <4>1, <4>3, <6>1
        <5> QED BY <1>1, <4>1, <4>3, <5>1, <5>2, <5>3, Departures DEF Reserved, Roles
      <4> QED BY <4>2, <4>3
    <3> QED BY <1>1, <2>2, <3>1, <3>2, <3>3 DEF Statuses
  <2> QED BY <2>1, <2>2, CurrentStep
<1>5. Overwrite \/ StoresReturn => abandoned' = {}
  <2>1. PushPanics(t) => ~Overwrite /\ ~StoresReturn
    BY <1>1 DEF PushPanics, Roles, StoresReturn
  <2> QED BY <1>1, <2>1, Frames DEF Statuses
<1> QED BY <1>3, <1>4, <1>5 DEF Statuses, CommitStatus, Pending

\* An element that is in its slot with what was added to it, as soon as it is committed:
\* no push writes to the slot of another current index, and fetch_add_at changes the
\* element whose account it changes, or that of an index that nobody can pop any more.
LEMMA ContentsStep ==
    ASSUME Disciplined, Safe, NEW t \in Thread, Step(t)
    PROVE  Contents'
<1>1. /\ Basics /\ Window /\ Roles /\ Reservations /\ Statuses /\ LocalTypes /\ SharedTypes
      /\ writeIdx \in 0 .. MaxPush /\ MaxPush \in Nat
      /\ \A i \in Int : SlotOf(i) \in Slot
      /\ \A u \in Thread : rd[u] \in 0 .. MaxPush /\ wr[u] \in 0 .. MaxPush
      /\ \A i \in 0 .. MaxPush : i \in Int /\ i # Never
      /\ added \in [PushId -> Int]
  BY Ranges, IndexFacts, AtomicAssumption, ZenonT(60) DEF Safe, Basics, TypeOK, GhostTypes
<1> SUFFICES ASSUME NEW i \in Current', commit'[SlotOf(i)] = i
             PROVE  /\ IdOf(slot'[SlotOf(i)]) = log'[i + 1]
                    /\ readIdx' <= i =>
                         slot'[SlotOf(i)] = (log'[i + 1] + Unit * added'[log'[i + 1]]) % Width
  BY DEF Contents, Content, CommitStatus, PeekAt, Elem
<1>2. i \in Current
  <2> SUFFICES ASSUME Reserves(t), i = writeIdx PROVE FALSE
    BY CurrentStep
  <2>1. commit[SlotOf(i)] = i
    BY <1>1, LogStep
  <2> QED BY <1>1, <2>1 DEF Statuses
<1>3. /\ i \in Int /\ i \in 0 .. writeIdx - 1 /\ log'[i + 1] = Elem(i)
      /\ Elem(i) \in PushId
      /\ \A j \in 0 .. writeIdx - 1 : Elem(i) = Elem(j) => i = j
      /\ SlotOf(i) \in Slot
  BY <1>1, <1>2, LogStep, Ranges DEF Current, Elem
<1>4. CommitStatus(i) = i =>
        /\ IdOf(slot[SlotOf(i)]) = Elem(i)
        /\ readIdx <= i => slot[SlotOf(i)] = Content(i)
  BY <1>2 DEF Safe, Contents, PeekAt
<1>7. readIdx' <= i => readIdx <= i
  <2>1. readIdx \in Int /\ readIdx' \in Int /\ readIdx <= readIdx'
    BY Ranges, ReadStep DEF Safe
  <2> QED BY <1>3, <2>1
<1>5. CASE PushCommit(t)
  <2>1. /\ pc[t] = "push_commit" /\ pc[t] \in Reserved
        /\ commit' = [commit EXCEPT ![SlotOf(wr[t])] = wr[t]]
        /\ UNCHANGED <<slot, added>>
    BY <1>5 DEF PushCommit, CommitMark, Reserved
  <2>2. CASE SlotOf(wr[t]) = SlotOf(i)
    <3>1. i = wr[t]
      BY <1>1, <2>1, <2>2 DEF SharedTypes
    <3>2. /\ slot[SlotOf(i)] = Elem(i) /\ added[Elem(i)] = 0
      BY <1>1, <2>1, <3>1 DEF Reservations, PeekAt
    <3>3. (Elem(i) + Unit * 0) % Width = Elem(i)
      <4>1. /\ Elem(i) \in 0 .. Width - 1 /\ Elem(i) \in Int
            /\ Elem(i) = (Width * 0) + Elem(i)
        BY <1>3, UnitType DEF PushId
      <4>2. Elem(i) % Width = Elem(i)
        BY <4>1, UnitType, RemainderUnique
      <4>3. Elem(i) + Unit * 0 = Elem(i)
        BY <4>1, UnitType
      <4> QED BY <4>2, <4>3
    <3>4. IdOf(Elem(i)) = Elem(i)
      BY <1>3, IdType
    <3> QED BY <1>3, <2>1, <3>2, <3>3, <3>4
  <2>3. CASE SlotOf(wr[t]) # SlotOf(i)
    <3>1. commit[SlotOf(i)] = i
      BY <1>1, <1>3, <2>1, <2>3 DEF SharedTypes
    <3> QED BY <1>3, <1>4, <1>7, <2>1, <3>1 DEF CommitStatus, Content
  <2> QED BY <2>2, <2>3
<1>6. CASE ~PushCommit(t)
  <2>1. commit[SlotOf(i)] = i
    BY <1>6, Frames
  <2>2. /\ IdOf(slot[SlotOf(i)]) = Elem(i)
        /\ readIdx' <= i => slot[SlotOf(i)] = Content(i)
    BY <1>4, <1>7, <2>1 DEF CommitStatus
  <2>3. CASE PushStoreSlot(t) \/ OverwriteSwap(t)
    <3>1. /\ pc[t] \in {"push_store", "ow_swap"} /\ pc[t] \in Reserved
          /\ slot' = [slot EXCEPT ![SlotOf(wr[t])] = val[t]] /\ UNCHANGED added
      <4>1. CASE PushStoreSlot(t)
        BY <4>1 DEF PushStoreSlot, Reserved, ghosts
      <4>2. CASE OverwriteSwap(t)
        BY <1>1, <4>2 DEF OverwriteSwap, Reserved, ghosts, Roles, Disciplined
      <4> QED BY <2>3, <4>1, <4>2
    <3>2. ~Excess
      BY <1>1, <3>1, NoExcess DEF Pushing
    <3>3. wr[t] # i
      BY <1>1, <2>1, <3>1 DEF Reservations, CommitStatus
    <3>4. SlotOf(wr[t]) # SlotOf(i)
      BY <1>1, <1>2, <3>1, <3>2, <3>3, ReservedIsCurrent, CurrentSlots
    <3>5. slot'[SlotOf(i)] = slot[SlotOf(i)]
      BY <1>1, <1>3, <3>1, <3>4 DEF SharedTypes
    <3> QED BY <1>3, <2>2, <3>1, <3>5 DEF Content
  <2>4. CASE EditElement(t)
    <3> DEFINE j == rd[t] + wr[t]
    <3>1. pc[t] = "edit" /\ t \in Accessors /\ Producers = {t} /\ ~Excess
      BY <1>1, <2>4, NoExcess DEF EditElement, Roles, Disciplined
    <3>2. /\ wr[t] < Capacity /\ writeIdx <= rd[t] + Capacity /\ rd[t] <= readIdx
          /\ Capacity \in Nat \ {0} /\ readIdx \in 0 .. MaxPush
          /\ MaxPush + Capacity < Modulus
      BY <1>1, <3>1, Ranges, AtomicAssumption DEF Safe, SoleView, Window
    <3>3. j \in Int /\ 0 <= j /\ writeIdx <= j + Capacity /\ j < rd[t] + Capacity
      BY <1>1, <3>2
    <3>4. OffsetFrom(rd[t], wr[t]) = j
      <4>1. 0 <= rd[t] + wr[t] /\ rd[t] + wr[t] < Modulus
        BY <1>1, <3>2, RingIndexAssumption
      <4> QED BY <1>1, <4>1, RingIndexAssumption DEF OffsetFrom, WrapAdd
    <3>5. \E n \in {1, -1} :
            /\ slot' = [slot EXCEPT ![SlotOf(j)] = (@ + n * Unit) % Width]
            /\ Credit(j, n)
      <4>1. \/ slot' = [slot EXCEPT ![SlotOf(j)] = FetchAdd(@, Unit)] /\ Credit(j, 1)
            \/ slot' = [slot EXCEPT ![SlotOf(j)] = FetchSub(@, Unit)] /\ Credit(j, -1)
        BY <2>4, <3>4 DEF EditElement
      <4>2. \A v \in Int : v + 1 * Unit = v + Unit /\ v + (-1) * Unit = v - Unit
        BY UnitType
      <4>3. slot[SlotOf(j)] \in Int
        BY <1>1, <3>3, UnitType DEF SharedTypes, Value
      <4> QED BY <4>1, <4>2, <4>3 DEF FetchAdd, FetchSub
    <3> HIDE DEF j
    <3>6. PICK n \in {1, -1} :
            /\ slot' = [slot EXCEPT ![SlotOf(j)] = (@ + n * Unit) % Width]
            /\ Credit(j, n)
      BY <3>5
    <3>7. IdOf(slot'[SlotOf(i)]) = Elem(i)
      <4>1. slot'[SlotOf(i)] \in {slot[SlotOf(i)], FetchAdd(slot[SlotOf(i)], Unit),
                                  FetchSub(slot[SlotOf(i)], Unit)}
        BY <1>1, <1>3, <2>4 DEF EditElement, SharedTypes
      <4>2. slot[SlotOf(i)] \in Value
        BY <1>1, <1>3 DEF SharedTypes
      <4> QED BY <2>2, <4>1, <4>2, AdditionsKeepId
    <3>8. CASE i = j
      <4> DEFINE e == Elem(i)
                 m == added[e]
                 c == e + Unit * m
      <4>1. /\ e \in Int /\ m \in Int /\ n \in Int /\ c \in Int
            /\ Unit * m \in Int /\ n * Unit \in Int /\ m + n \in Int
        BY <1>1, <1>3, UnitType, Multiples DEF PushId
      <4>2. i < writeIdx /\ added'[e] = m + n
        BY <1>1, <1>3, <3>6, <3>8 DEF Credit, Elem
      <4>3. slot'[SlotOf(i)] = (slot[SlotOf(i)] + n * Unit) % Width
        BY <1>1, <1>3, <3>6, <3>8 DEF SharedTypes
      <4>4. e + Unit * (m + n) = c + n * Unit
        <5>1. Unit * (m + 1) = Unit * m + Unit /\ Unit * (m + (-1)) = Unit * m - Unit
          BY <4>1, UnitType, Multiples
        <5>2. CASE n = 1
          BY <4>1, <5>1, <5>2, UnitType
        <5>3. CASE n = -1
          BY <4>1, <5>1, <5>3, UnitType
        <5> QED BY <5>2, <5>3
      <4> HIDE DEF c
      <4>5. ((c % Width) + n * Unit) % Width = (c + n * Unit) % Width
        BY <4>1, UnitType, RemainderFirst
      <4>6. readIdx' <= i => slot[SlotOf(i)] = c % Width
        BY <2>2 DEF Content, c
      <4> QED BY <1>3, <3>7, <4>2, <4>3, <4>4, <4>5, <4>6
    <3>9. CASE i # j
      <4>1. readIdx' <= i => SlotOf(i) # SlotOf(j)
        <5>1. CASE j < writeIdx
          BY <1>1, <1>2, <3>1, <3>3, <3>9, <5>1, CurrentSlots DEF Current
        <5>2. CASE writeIdx <= j
          <6>1. readIdx <= i => i <= j /\ j < i + Capacity
            BY <1>1, <1>3, <3>2, <3>3, <5>2
          <6> QED BY <1>3, <1>7, <3>3, <3>9, <6>1, Laps
        <5> QED BY <1>1, <3>3, <5>1, <5>2
      <4>2. readIdx' <= i => slot'[SlotOf(i)] = slot[SlotOf(i)]
        BY <1>1, <1>3, <3>6, <4>1 DEF SharedTypes
      <4>3. added'[Elem(i)] = added[Elem(i)]
        <5>1. j < writeIdx => j \in 0 .. writeIdx - 1
          BY <1>1, <3>3
        <5>2. j < writeIdx => Elem(i) # Elem(j)
          BY <1>3, <3>9, <5>1
        <5> QED BY <1>1, <1>3, <3>6, <5>2 DEF Credit, Elem
      <4> QED BY <1>3, <2>2, <3>7, <4>2, <4>3 DEF Content
    <3> QED BY <3>8, <3>9
  <2>5. CASE ~Writes(t)
    <3>1. UNCHANGED <<slot, added>>
      BY <2>5, Frames DEF Writes
    <3> QED BY <1>3, <2>2, <3>1 DEF Content
  <2> QED BY <2>3, <2>4, <2>5 DEF Writes
<1> QED BY <1>5, <1>6

-----------------------------------------------------------------------------
(* Who gets the elements *)

\* The element of a current index whose slot is committed can be told by its name.
LEMMA CommittedId ==
    ASSUME Safe, NEW i \in Current, CommitStatus(i) = i
    PROVE  IdOf(PeekAt(i)) = Elem(i)
BY DEF Safe, Contents

\* The head, if it is committed, is current.
LEMMA HeadIsCurrent ==
    ASSUME Safe, CommitStatus(readIdx) = readIdx
    PROVE  readIdx \in Current
<1>1. /\ readIdx \in 0 .. MaxPush /\ readIdx # Never /\ SlotOf(readIdx) \in Slot
      /\ writeIdx \in 0 .. MaxPush
  BY Ranges, IndexFacts, AtomicAssumption DEF Safe
<1>2. readIdx < writeIdx
  BY <1>1 DEF Safe, Statuses, CommitStatus
<1> QED BY <1>1, <1>2 DEF Current

\* While a pop has yet to move read_idx and nobody else has, the head stays what it has
\* found and read.
LEMMA PoppingStep ==
    ASSUME Disciplined, Safe, NEW t \in Thread, Step(t)
    PROVE  Popping'
<1>1. /\ Basics /\ Window /\ LocalTypes /\ SharedTypes
      /\ writeIdx \in 0 .. MaxPush /\ readIdx \in 0 .. MaxPush
      /\ readIdx' \in 0 .. MaxPush /\ readIdx <= readIdx'
      /\ \A u \in Thread : rd[u] \in 0 .. MaxPush
  BY Ranges, ReadStep DEF Safe, Basics, TypeOK
<1>2. ASSUME CommitStatus(readIdx) = readIdx
      PROVE  commit'[SlotOf(readIdx)] = readIdx /\ log'[readIdx + 1] = Elem(readIdx)
  <2>1. readIdx \in Current
    BY <1>2, HeadIsCurrent
  <2> QED BY <1>1, <1>2, <2>1, CommitsStay, LogStep DEF Current, Elem
<1> SUFFICES ASSUME NEW u \in Thread, pc'[u] \in {"pop_load", "pop_cas"}, rd'[u] = readIdx'
             PROVE  /\ commit'[SlotOf(rd'[u])] = rd'[u]
                    /\ pc'[u] = "pop_cas" => IdOf(tmp'[u]) = log'[rd'[u] + 1]
  BY DEF Popping, CommitStatus, Elem
<1>3. CASE u # t
  <2>1. pc'[u] = pc[u] /\ rd'[u] = rd[u] /\ tmp'[u] = tmp[u] /\ rd[u] <= readIdx
    BY <1>1, <1>3, OthersKeepLocals DEF Window
  <2>2. rd[u] = readIdx
    BY <1>1, <2>1
  <2>3. /\ CommitStatus(readIdx) = readIdx
        /\ pc[u] = "pop_cas" => IdOf(tmp[u]) = Elem(readIdx)
    BY <2>1, <2>2 DEF Safe, Popping
  <2> QED BY <1>2, <2>1, <2>2, <2>3
<1>4. CASE u = t
  <2>1. CASE PopLoadCommit(t) /\ pc'[t] = "pop_load"
    <3>1. rd' = rd /\ commit' = commit /\ CommitStatus(rd[t]) = rd[t]
      BY <1>1, <2>1 DEF PopLoadCommit, NotCommitted, Return, LocalTypes, shared
    <3> QED BY <1>4, <2>1, <3>1 DEF CommitStatus
  <2>2. CASE PopLoadSlot(t)
    <3>1. /\ rd' = rd /\ tmp'[t] = PeekAt(rd[t]) /\ pc[t] = "pop_load" /\ readIdx' = readIdx
      BY <1>1, <2>2 DEF PopLoadSlot, LocalTypes, shared
    <3>2. rd[t] = readIdx /\ CommitStatus(readIdx) = readIdx
      BY <1>4, <3>1 DEF Safe, Popping
    <3>3. IdOf(tmp'[t]) = Elem(readIdx)
      BY <3>1, <3>2, HeadIsCurrent, CommittedId
    <3> QED BY <1>2, <1>4, <3>1, <3>2, <3>3
  <2> QED BY <1>1, <1>4, <2>1, <2>2, Arrivals
<1> QED BY <1>3, <1>4

\* `overwritten` is set by the compare_exchange of an overwriting push only.
LEMMA OverIsSet ==
    ASSUME LocalTypes, NEW t \in Thread, Step(t), over'[t], ~over[t]
    PROVE  OverwriteAdvance(t) /\ over' # over
<1> USE DEF LocalTypes
<1>0. over' # over
  OBVIOUS
<1>1. ~Return(t)
  BY DEF Return
<1>2. CASE PushCall(t) \/ PushStep(t)
  BY <1>0, <1>1, <1>2
     DEF PushCall, PushStep, PushLoadRead, PushLoadWrite, PushReserve, PushRetry, PushStoreSlot,
         PushPanics, PushCommit, OverwriteReserve, OverwriteLoadRead, OverwriteSwap
<1>3. ~PopStep(t) /\ ~ClearStep(t)
  BY <1>0, <1>1 DEF PopStep, ClearStep, PopLoadRead, PopLoadCommit, PopLoadSlot, PopTake, PopRetry,
                    ClearLoadWrite, ClearStoreRead
<1>4. ~ObserverStep(t) /\ ~EditStep(t)
  BY <1>0, <1>1
     DEF ObserverStep, EditStep, PeekLoadRead, PeekLoadCommit, PeekLoadSlot, RangeLoadRead,
         RangeLoadWrite, AllLoadCommit, AllLoadSlot, IterNext, LoadPanic, QueryLoadWrite,
         QueryLoadRead, CallReturn, EditCheck, EditLoadRead, EditElement
<1> QED BY <1>0, <1>2, <1>3, <1>4 DEF Step

\* The oldest element, once a push has moved read_idx past it, stays in the slot for the
\* swap, and then with the push.
LEMMA OverwritingStep ==
    ASSUME Disciplined, Safe, NEW t \in Thread, Step(t)
    PROVE  Overwriting'
<1>1. /\ Basics /\ Window /\ Roles /\ Reservations /\ LocalTypes /\ SharedTypes
      /\ writeIdx \in 0 .. MaxPush /\ readIdx \in 0 .. MaxPush
      /\ readIdx' \in 0 .. MaxPush /\ readIdx <= readIdx'
      /\ Capacity \in Nat \ {0} /\ MaxPush \in Nat
      /\ \A u \in Thread : rd[u] \in 0 .. MaxPush /\ wr[u] \in 0 .. MaxPush
  BY Ranges, ReadStep DEF Safe, Basics, TypeOK
<1> DEFINE Ow(u) ==
             /\ pc'[u] \in {"ow_swap", "push_commit"}
             /\ rd'[u] + Capacity = wr'[u] /\ rd'[u] < readIdx'
             /\ pc'[u] = "ow_swap" => IdOf(slot'[SlotOf(wr'[u])]) = log'[rd'[u] + 1]
             /\ pc'[u] = "push_commit" => IdOf(tmp'[u]) = log'[rd'[u] + 1]
<1>2. ASSUME NEW u \in Thread, over[u]
      PROVE  /\ pc[u] \in {"ow_swap", "push_commit"} /\ pc[u] \in Reserved
             /\ rd[u] + Capacity = wr[u] /\ rd[u] < readIdx /\ rd[u] < readIdx'
             /\ pc[u] = "ow_swap" => IdOf(slot[SlotOf(wr[u])]) = Elem(rd[u])
             /\ pc[u] = "push_commit" => IdOf(tmp[u]) = Elem(rd[u])
             /\ log'[rd[u] + 1] = Elem(rd[u])
  <2>1. /\ pc[u] \in {"ow_swap", "push_commit"} /\ pc[u] \in Reserved
        /\ rd[u] + Capacity = wr[u] /\ rd[u] < readIdx
        /\ pc[u] = "ow_swap" => IdOf(slot[SlotOf(wr[u])]) = Elem(rd[u])
        /\ pc[u] = "push_commit" => IdOf(tmp[u]) = Elem(rd[u])
    BY <1>2 DEF Safe, Overwriting, PeekAt, Reserved
  <2>2. rd[u] \in 0 .. writeIdx - 1 /\ rd[u] < readIdx'
    <3>1. readIdx <= writeIdx
      BY <1>1 DEF Window
    <3>2. \A a, b, c \in Int : a < b /\ b <= c => a < c
      OBVIOUS
    <3>3. rd[u] \in Int /\ readIdx \in Int /\ readIdx' \in Int
      BY <1>1
    <3> QED BY <1>1, <2>1, <3>1, <3>2, <3>3
  <2>3. log'[rd[u] + 1] = Elem(rd[u])
    BY <1>1, <2>2, LogStep DEF Elem
  <2> QED BY <2>1, <2>2, <2>3
<1>3. ASSUME NEW u \in Thread, u # t, over'[u] PROVE Ow(u)
  <2>1. /\ pc'[u] = pc[u] /\ rd'[u] = rd[u] /\ wr'[u] = wr[u] /\ tmp'[u] = tmp[u]
        /\ over[u]
    BY <1>1, <1>3, OthersKeepLocals
  <2>2. ~Writes(t)
    <3>1. pc[u] \in Pushing /\ Overwrite
      BY <1>1, <1>2, <2>1 DEF Roles, Pushing
    <3>2. pc[t] \notin Pushing /\ pc[t] # "edit"
      BY <1>1, <1>3, <3>1, Alone
    <3> QED BY <1>1, <3>2
            DEF Writes, PushStoreSlot, OverwriteSwap, EditElement, Pushing, Reserved, Roles
  <2>3. slot' = slot
    BY <2>2, Frames
  <2> QED BY <1>2, <2>1, <2>3
<1>4. ASSUME over'[t] PROVE Ow(t)
  <2>1. CASE over[t]
    <3>1. pc[t] = "ow_swap" /\ OverwriteSwap(t)
      <4>1. ~PushCommit(t)
        BY <1>1, <1>4 DEF PushCommit, Return, LocalTypes
      <4> QED BY <1>2, <2>1, <4>1, Departures
    <3>2. /\ rd' = rd /\ wr' = wr /\ tmp'[t] = slot[SlotOf(wr[t])] /\ pc'[t] = "push_commit"
      BY <1>1, <3>1 DEF OverwriteSwap, Goto, LocalTypes, PeekAt
    <3> QED BY <1>2, <2>1, <3>1, <3>2
  <2>2. CASE ~over[t]
    <3>1. OverwriteAdvance(t) /\ over' # over
      BY <1>1, <1>4, <2>2, OverIsSet
    <3>2. /\ readIdx = rd[t] /\ readIdx' = readIdx + 1
          /\ pc[t] = "ow_advance" /\ pc'[t] = "ow_swap" /\ UNCHANGED <<rd, wr, slot, log>>
      BY <1>1, <3>1, ReadStep DEF OverwriteAdvance, Goto, LocalTypes, Roles, ghosts
    <3>3. rd[t] + Capacity = wr[t] /\ wr[t] < writeIdx /\ Overwrite
      BY <1>1, <3>2 DEF Window, Reservations, Reserved, Roles
    <3>4. readIdx \in Current
      BY <1>1, <3>2, <3>3 DEF Current
    <3>5. ~Pending(readIdx)
      <4>1. ASSUME NEW u \in Thread, pc[u] \in Reserved PROVE wr[u] # readIdx
        <5>1. u = t
          BY <1>1, <3>2, <3>3, <4>1, Alone DEF Pushing, Reserved
        <5> QED BY <1>1, <3>2, <3>3, <5>1
      <4> QED BY <4>1 DEF Pending
    <3>6. CommitStatus(readIdx) = readIdx
      BY <3>3, <3>4, <3>5 DEF Safe, Statuses
    <3>7. SlotOf(wr[t]) = SlotOf(readIdx)
      BY <1>1, <3>2, <3>3, Laps
    <3>8. IdOf(slot[SlotOf(wr[t])]) = Elem(readIdx)
      BY <3>4, <3>6, <3>7, CommittedId DEF PeekAt
    <3> QED BY <1>1, <3>2, <3>3, <3>8 DEF Elem
  <2> QED BY <2>1, <2>2
<1>5. \A u \in Thread : over'[u] => Ow(u)
  BY <1>3, <1>4
<1> QED BY <1>5 DEF Overwriting, PeekAt, Elem

\* An element gets in limbo when a push has moved read_idx past it, and out of it when
\* that push returns it.
LEMMA LimboStep ==
    ASSUME Disciplined, Safe, NEW t \in Thread, Step(t), NEW i \in Int
    PROVE  /\ PushCommit(t) /\ over[t] => (InLimbo(i) <=> i = rd[t]) /\ ~InLimbo(i)'
           /\ OverwriteAdvance(t) /\ over' # over => (InLimbo(i)' <=> InLimbo(i) \/ i = readIdx)
           /\ \/ PushCommit(t) /\ over[t]
              \/ OverwriteAdvance(t) /\ over' # over
              \/ InLimbo(i)' <=> InLimbo(i)
<1>1. /\ Basics /\ Roles /\ LocalTypes
      /\ \A u \in Thread : over[u] => pc[u] \in {"ow_swap", "push_commit"}
  BY DEF Safe, Basics, TypeOK, Overwriting
<1>2. \A u \in Thread : u # t => over'[u] = over[u] /\ rd'[u] = rd[u]
  BY <1>1, OthersKeepLocals
<1>3. CASE PushCommit(t) /\ over[t]
  <2>1. pc[t] = "push_commit" /\ ~over'[t] /\ Overwrite
    BY <1>1, <1>3 DEF PushCommit, Return, LocalTypes, Roles
  <2>2. \A u \in Thread : over[u] => u = t
    BY <1>1, <2>1, Alone DEF Pushing, Reserved
  <2>3. ~OverwriteAdvance(t)
    BY <2>1 DEF OverwriteAdvance
  <2> QED BY <1>2, <1>3, <2>1, <2>2, <2>3 DEF InLimbo
<1>4. CASE OverwriteAdvance(t) /\ over' # over
  <2>1. /\ pc[t] = "ow_advance" /\ ~over[t] /\ rd[t] = readIdx /\ rd' = rd /\ over'[t]
    BY <1>1, <1>4, ReadStep DEF OverwriteAdvance, LocalTypes, Roles
  <2>2. ~PushCommit(t)
    BY <2>1 DEF PushCommit
  <2> QED BY <1>2, <1>4, <2>1, <2>2 DEF InLimbo
<1>5. CASE ~(PushCommit(t) /\ over[t]) /\ ~(OverwriteAdvance(t) /\ over' # over)
  <2>1. over[t] => over'[t] /\ rd'[t] = rd[t]
    <3>1. over[t] => OverwriteSwap(t)
      BY <1>1, <1>5, Departures
    <3> QED BY <3>1 DEF OverwriteSwap
  <2>2. over'[t] => over[t]
    BY <1>1, <1>5, OverIsSet
  <2> QED BY <1>2, <1>5, <2>1, <2>2 DEF InLimbo
<1> QED BY <1>3, <1>4, <1>5

\* Every element behind read_idx has exactly one taker.
LEMMA AccountsStep ==
    ASSUME Disciplined, Safe, NEW t \in Thread, Step(t)
    PROVE  Accounts'
<1>1. /\ Basics /\ Window /\ Roles /\ LocalTypes
      /\ writeIdx \in 0 .. MaxPush /\ readIdx \in 0 .. MaxPush /\ readIdx <= writeIdx
      /\ MaxPush \in Nat /\ Len(log) = writeIdx
      /\ \A u \in Thread : rd[u] \in 0 .. MaxPush /\ wr[u] \in 0 .. MaxPush
      /\ \A i \in 0 .. writeIdx - 1 : i \in Int /\ Elem(i) \in PushId
      /\ \A i, j \in 0 .. writeIdx - 1 : Elem(i) = Elem(j) => i = j
      /\ handed \in [{0} \cup PushId -> Nat] /\ 0 \notin PushId
  BY Ranges DEF Safe, Basics, TypeOK, GhostTypes, Window, PushId
<1>2. /\ readIdx' \in 0 .. MaxPush /\ writeIdx' \in 0 .. MaxPush
      /\ \A i \in 0 .. writeIdx - 1 : log'[i + 1] = Elem(i)
  BY <1>1, ReadStep, LogStep DEF Elem
<1>3. /\ handed[0] = 0
      /\ \A i \in 0 .. writeIdx - 1 :
           handed[Elem(i)] + Count(Elem(i) \in cleared) + Count(InLimbo(i)) = Count(i < readIdx)
      /\ \A v \in PushId : (\A i \in 1 .. Len(log) : log[i] # v) =>
           handed[v] = 0 /\ v \notin cleared /\ added[v] = 0
  BY DEF Safe, Accounts
<1>4. CASE PopTake(t)
  <2>1. /\ rd[t] = readIdx /\ readIdx' = readIdx + 1 /\ pc[t] = "pop_cas"
        /\ handed' = [handed EXCEPT ![IdOf(tmp[t])] = @ + 1]
        /\ UNCHANGED <<writeIdx, log, cleared, added>>
    BY <1>4, ReadStep DEF PopTake, Hand
  <2>2. IdOf(tmp[t]) = Elem(readIdx) /\ readIdx \in 0 .. writeIdx - 1
    BY <2>1, HeadIsCurrent DEF Safe, Popping, Current
  <2>3. /\ handed'[Elem(readIdx)] = handed[Elem(readIdx)] + 1
        /\ \A v \in {0} \cup PushId : v # Elem(readIdx) => handed'[v] = handed[v]
    BY <1>1, <2>1, <2>2
  <2>4. ASSUME NEW i \in 0 .. writeIdx - 1
        PROVE  handed'[Elem(i)] + Count(Elem(i) \in cleared) + Count(InLimbo(i)') = Count(i < readIdx')
    <3>1. InLimbo(i)' <=> InLimbo(i)
      <4>1. i \in Int /\ ~PushCommit(t) /\ ~OverwriteAdvance(t)
        BY <2>1 DEF PushCommit, OverwriteAdvance
      <4> QED BY <4>1, LimboStep
    <3>2. /\ handed[Elem(i)] + Count(Elem(i) \in cleared) + Count(InLimbo(i)) = Count(i < readIdx)
          /\ handed[Elem(i)] \in Nat
      BY <1>1, <1>3
    <3>3. CASE i = readIdx
      <4>1. handed[Elem(i)] = 0 /\ Elem(i) \notin cleared /\ ~InLimbo(i)
        BY <1>1, <3>2, <3>3 DEF Count
      <4> QED BY <1>1, <2>1, <2>3, <3>1, <3>3, <4>1 DEF Count
    <3>4. CASE i # readIdx
      <4>1. handed'[Elem(i)] = handed[Elem(i)] /\ (i < readIdx' <=> i < readIdx)
        BY <1>1, <2>1, <2>2, <2>3, <3>4
      <4> QED BY <3>1, <3>2, <4>1 DEF Count
    <3> QED BY <3>3, <3>4
  <2>5. ASSUME NEW v \in PushId, \A i \in 1 .. Len(log) : log[i] # v
        PROVE  handed'[v] = 0 /\ v \notin cleared /\ added[v] = 0
    <3>1. v # Elem(readIdx)
      <4>1. readIdx + 1 \in 1 .. Len(log)
        BY <1>1, <2>2
      <4> QED BY <2>5, <4>1 DEF Elem
    <3> QED BY <1>3, <2>3, <2>5, <3>1
  <2>6. handed'[0] = 0
    BY <1>1, <1>3, <2>2, <2>3
  <2> QED BY <2>1, <2>4, <2>5, <2>6 DEF Accounts, Elem
<1>5. CASE PushCommit(t) /\ over[t]
  <2>1. /\ handed' = [handed EXCEPT ![IdOf(tmp[t])] = @ + 1]
        /\ IdOf(tmp[t]) = Elem(rd[t]) /\ rd[t] < readIdx
        /\ UNCHANGED <<writeIdx, readIdx, log, cleared, added>>
    BY <1>5 DEF PushCommit, Hand, Safe, Overwriting
  <2>2. rd[t] \in 0 .. writeIdx - 1
    BY <1>1, <2>1
  <2>3. /\ handed'[Elem(rd[t])] = handed[Elem(rd[t])] + 1
        /\ \A v \in {0} \cup PushId : v # Elem(rd[t]) => handed'[v] = handed[v]
    BY <1>1, <2>1, <2>2
  <2>4. ASSUME NEW i \in 0 .. writeIdx - 1
        PROVE  handed'[Elem(i)] + Count(Elem(i) \in cleared) + Count(InLimbo(i)') = Count(i < readIdx)
    <3>1. ~InLimbo(i)' /\ (InLimbo(i) <=> i = rd[t])
      <4>1. i \in Int
        OBVIOUS
      <4> QED BY <1>5, <4>1, LimboStep
    <3>2. /\ handed[Elem(i)] + Count(Elem(i) \in cleared) + Count(InLimbo(i)) = Count(i < readIdx)
          /\ handed[Elem(i)] \in Nat
      BY <1>1, <1>3
    <3>3. CASE i = rd[t]
      BY <1>1, <2>3, <3>1, <3>2, <3>3 DEF Count
    <3>4. CASE i # rd[t]
      <4>1. handed'[Elem(i)] = handed[Elem(i)]
        BY <1>1, <2>2, <2>3, <3>4
      <4> QED BY <3>1, <3>2, <3>4, <4>1 DEF Count
    <3> QED BY <3>3, <3>4
  <2>5. ASSUME NEW v \in PushId, \A i \in 1 .. Len(log) : log[i] # v
        PROVE  handed'[v] = 0 /\ v \notin cleared /\ added[v] = 0
    <3>1. v # Elem(rd[t])
      <4>1. rd[t] + 1 \in 1 .. Len(log)
        BY <1>1, <2>2
      <4> QED BY <2>5, <4>1 DEF Elem
    <3> QED BY <1>3, <2>3, <2>5, <3>1
  <2>6. handed'[0] = 0
    BY <1>1, <1>3, <2>2, <2>3
  <2> QED BY <2>1, <2>4, <2>5, <2>6 DEF Accounts, Elem
<1>6. CASE OverwriteAdvance(t) /\ over' # over
  <2>1. /\ readIdx' = readIdx + 1 /\ UNCHANGED <<writeIdx, log, handed, cleared, added>>
    BY <1>6, ReadStep DEF OverwriteAdvance, ghosts
  <2>2. ASSUME NEW i \in 0 .. writeIdx - 1
        PROVE  handed[Elem(i)] + Count(Elem(i) \in cleared) + Count(InLimbo(i)') = Count(i < readIdx')
    <3>1. InLimbo(i)' <=> InLimbo(i) \/ i = readIdx
      <4>1. i \in Int
        OBVIOUS
      <4> QED BY <1>6, <4>1, LimboStep
    <3>2. /\ handed[Elem(i)] + Count(Elem(i) \in cleared) + Count(InLimbo(i)) = Count(i < readIdx)
          /\ handed[Elem(i)] \in Nat
      BY <1>1, <1>3
    <3>3. CASE i = readIdx
      <4>1. handed[Elem(i)] = 0 /\ Elem(i) \notin cleared /\ ~InLimbo(i)
        BY <1>1, <3>2, <3>3 DEF Count
      <4> QED BY <1>1, <2>1, <3>1, <3>3, <4>1 DEF Count
    <3>4. CASE i # readIdx
      <4>1. i < readIdx' <=> i < readIdx
        BY <1>1, <2>1, <3>4
      <4> QED BY <3>1, <3>2, <3>4, <4>1 DEF Count
    <3> QED BY <3>3, <3>4
  <2> QED BY <1>3, <2>1, <2>2 DEF Accounts, Elem
<1>7. CASE ClearStoreRead(t)
  <2>1. /\ readIdx' = writeIdx
        /\ cleared' = cleared \cup {Elem(i) : i \in readIdx .. writeIdx - 1}
        /\ UNCHANGED <<writeIdx, log, handed, added>>
    BY <1>7, ReadStep DEF ClearStoreRead, Elem
  <2>2. ASSUME NEW i \in 0 .. writeIdx - 1
        PROVE  handed[Elem(i)] + Count(Elem(i) \in cleared') + Count(InLimbo(i)') = Count(i < readIdx')
    <3>1. InLimbo(i)' <=> InLimbo(i)
      <4>1. i \in Int /\ ~PushCommit(t) /\ ~OverwriteAdvance(t)
        BY <1>7 DEF PushCommit, OverwriteAdvance, ClearStoreRead
      <4> QED BY <4>1, LimboStep
    <3>2. /\ handed[Elem(i)] + Count(Elem(i) \in cleared) + Count(InLimbo(i)) = Count(i < readIdx)
          /\ handed[Elem(i)] \in Nat
      BY <1>1, <1>3
    <3>3. i < readIdx'
      BY <1>1, <2>1
    <3>4. CASE i < readIdx
      <4>1. Elem(i) \in cleared' <=> Elem(i) \in cleared
        BY <1>1, <2>1, <3>4
      <4> QED BY <3>1, <3>2, <3>3, <3>4, <4>1 DEF Count
    <3>5. CASE ~(i < readIdx)
      <4>1. handed[Elem(i)] = 0 /\ Elem(i) \notin cleared /\ ~InLimbo(i)
        BY <1>1, <3>2, <3>5 DEF Count
      <4>2. Elem(i) \in cleared'
        BY <1>1, <2>1, <3>5
      <4> QED BY <3>1, <3>3, <4>1, <4>2 DEF Count
    <3> QED BY <3>4, <3>5
  <2>3. ASSUME NEW v \in PushId, \A i \in 1 .. Len(log) : log[i] # v
        PROVE  v \notin cleared'
    <3>1. \A i \in readIdx .. writeIdx - 1 : i + 1 \in 1 .. Len(log)
      BY <1>1
    <3> QED BY <1>3, <2>1, <2>3, <3>1 DEF Elem
  <2> QED BY <1>3, <2>1, <2>2, <2>3 DEF Accounts, Elem
<1>8. CASE Reserves(t)
  <2>1. /\ writeIdx' = writeIdx + 1 /\ log'[writeIdx + 1] = val[t] /\ readIdx' = readIdx
        /\ over' = over /\ rd' = rd /\ pc[t] \in Unreserved
    BY <1>1, <1>8, LogStep
  <2>2. UNCHANGED <<handed, cleared, added>> /\ Len(log') = writeIdx'
    <3>1. GhostTypes'
      BY GhostStep DEF Safe
    <3> QED BY <1>8, <3>1 DEF Reserves, PushReserve, OverwriteReserve, GhostTypes
  <2>3. \A i : InLimbo(i)' <=> InLimbo(i)
    BY <2>1 DEF InLimbo
  <2>4. /\ val[t] \in PushId
        /\ \A i \in 1 .. Len(log) : log[i] # val[t]
    BY <1>1, <2>1, PushedIsNamed DEF Basics, Names, Pushing
  <2>5. handed[val[t]] = 0 /\ val[t] \notin cleared
    BY <1>3, <2>4
  <2>6. ~InLimbo(writeIdx)
    <3>1. \A u \in Thread : over[u] => rd[u] < readIdx
      BY DEF Safe, Overwriting
    <3> QED BY <1>1, <3>1 DEF InLimbo
  <2>7. ASSUME NEW i \in 0 .. writeIdx' - 1
        PROVE  handed[log'[i + 1]] + Count(log'[i + 1] \in cleared) + Count(InLimbo(i)') = Count(i < readIdx')
    <3>1. CASE i = writeIdx
      BY <1>1, <2>1, <2>3, <2>5, <2>6, <3>1 DEF Count
    <3>2. CASE i # writeIdx
      <4>1. i \in 0 .. writeIdx - 1
        BY <1>1, <2>1, <3>2
      <4>2. handed[Elem(i)] + Count(Elem(i) \in cleared) + Count(InLimbo(i)) = Count(i < readIdx)
        BY <1>3, <4>1
      <4> QED BY <1>2, <2>1, <2>3, <4>1, <4>2
    <3> QED BY <3>1, <3>2
  <2>8. ASSUME NEW v \in PushId, \A i \in 1 .. Len(log') : log'[i] # v
        PROVE  handed[v] = 0 /\ v \notin cleared /\ added[v] = 0
    <3>1. ASSUME NEW i \in 1 .. Len(log) PROVE log[i] # v
      <4>1. i - 1 \in 0 .. writeIdx - 1 /\ i \in 1 .. Len(log') /\ (i - 1) + 1 = i
        BY <1>1, <2>1, <2>2
      <4>2. log'[i] = log[i]
        BY <1>1, <4>1, LogStep
      <4> QED BY <2>8, <4>1, <4>2
    <3> QED BY <1>3, <3>1
  <2> QED BY <1>3, <2>2, <2>7, <2>8 DEF Accounts, Elem
<1>9. CASE /\ ~PopTake(t) /\ ~(PushCommit(t) /\ over[t]) /\ ~(OverwriteAdvance(t) /\ over' # over)
           /\ ~ClearStoreRead(t) /\ ~Reserves(t)
  <2>1. UNCHANGED <<writeIdx, log, cleared, readIdx>>
    <3>1. OverwriteAdvance(t) => readIdx' = readIdx
      <4>1. ASSUME OverwriteAdvance(t), over' = [over EXCEPT ![t] = TRUE] PROVE over' # over
        <5>1. pc[t] = "ow_advance"
          BY <1>1, <4>1 DEF OverwriteAdvance, Roles
        <5>2. ~over[t]
          BY <5>1 DEF Safe, Overwriting
        <5> QED BY <1>1, <4>1, <5>2 DEF LocalTypes
      <4> QED BY <1>9, <4>1, ReadStep
    <3> QED BY <1>9, <3>1, Frames DEF Takes
  <2>2. handed' = handed
    BY <1>9, Frames DEF PushCommit
  <2>3. \A i \in Int : InLimbo(i)' <=> InLimbo(i)
    BY <1>9, LimboStep
  <2>4. ASSUME NEW v \in PushId, \A i \in 1 .. Len(log) : log[i] # v
        PROVE  added'[v] = 0
    <3>1. CASE EditElement(t)
      <4>1. rd[t] + wr[t] < writeIdx => rd[t] + wr[t] + 1 \in 1 .. Len(log)
        BY <1>1
      <4>2. rd[t] + wr[t] < writeIdx => v # log[rd[t] + wr[t] + 1]
        BY <2>4, <4>1
      <4>3. added \in [PushId -> Int]
        BY DEF Safe, Basics, TypeOK, GhostTypes
      <4> QED BY <1>3, <2>4, <3>1, <4>2, <4>3 DEF EditElement, Credit
    <3>2. CASE ~EditElement(t)
      BY <1>3, <2>4, <3>2, Frames
    <3> QED BY <3>1, <3>2
  <2>5. ASSUME NEW i \in 0 .. writeIdx - 1
        PROVE  handed[Elem(i)] + Count(Elem(i) \in cleared) + Count(InLimbo(i)') = Count(i < readIdx)
    <3>1. Count(InLimbo(i)') = Count(InLimbo(i))
      BY <2>3 DEF Count
    <3> QED BY <1>3, <3>1
  <2> QED BY <1>3, <2>1, <2>2, <2>4, <2>5 DEF Accounts, Elem
<1> QED BY <1>4, <1>5, <1>6, <1>7, <1>8, <1>9

\* Pops get the elements in the order in which they were reserved.
LEMMA DeliveriesStep ==
    ASSUME Disciplined, Safe, NEW t \in Thread, Step(t)
    PROVE  Deliveries'
<1>1. /\ Basics /\ Window
      /\ writeIdx \in 0 .. MaxPush /\ readIdx \in 0 .. MaxPush /\ readIdx <= writeIdx
      /\ readIdx' \in 0 .. MaxPush /\ readIdx <= readIdx'
      /\ writeIdx' \in 0 .. MaxPush /\ writeIdx <= writeIdx'
      /\ \A i \in 0 .. writeIdx - 1 : i \in Int /\ Elem(i) \in PushId
      /\ delivered \in Seq(PushId) /\ Len(delivered) \in Nat
      /\ \A i \in 0 .. writeIdx - 1 : log'[i + 1] = Elem(i)
  BY Ranges, ReadStep, LogStep, LenProperties DEF Safe, Basics, TypeOK, GhostTypes, Window, Elem
<1>2. \A i, j \in 0 .. writeIdx' - 1 : log'[i + 1] = log'[j + 1] => i = j
  <2>1. Names' /\ Len(log') = writeIdx'
    BY NamesStep, GhostStep DEF Safe, GhostTypes
  <2>2. \A n \in Nat : \A i \in 0 .. n - 1 : i + 1 \in 1 .. n /\ i \in Int
    OBVIOUS
  <2>3. writeIdx' \in Nat
    BY <1>1
  <2>4. \A i \in 0 .. writeIdx' - 1 : i + 1 \in 1 .. writeIdx' /\ i \in Int
    BY <2>2, <2>3
  <2>5. \A i \in 0 .. writeIdx' - 1 : i + 1 \in 1 .. Len(log') /\ i \in Int
    BY <2>1, <2>4
  <2>6. \A i, j \in 1 .. Len(log') : log'[i] = log'[j] => i = j
    BY <2>1 DEF Names
  <2>7. ASSUME NEW i \in 0 .. writeIdx' - 1, NEW j \in 0 .. writeIdx' - 1,
               log'[i + 1] = log'[j + 1]
        PROVE  i = j
    <3>1. i + 1 = j + 1 /\ i \in Int /\ j \in Int
      BY <2>5, <2>6, <2>7
    <3> QED BY <3>1
  <2> QED BY <2>7
<1>3. /\ \A k \in 1 .. Len(delivered) : \E i \in 0 .. readIdx - 1 : delivered[k] = Elem(i)
      /\ \A k \in 1 .. Len(delivered) : \A i, j \in 0 .. writeIdx - 1 :
           (k > 1 /\ delivered[k - 1] = Elem(i) /\ delivered[k] = Elem(j)) => i < j
  BY DEF Safe, Deliveries, DeliveredInOrder
<1>4. \A i \in 0 .. readIdx - 1 : i \in 0 .. writeIdx - 1 /\ i \in 0 .. writeIdx' - 1
                                  /\ i \in 0 .. readIdx' - 1
  <2>1. \A a, b \in Int : a <= b => \A i \in 0 .. a - 1 : i \in 0 .. b - 1
    OBVIOUS
  <2>2. /\ writeIdx \in Int /\ readIdx \in Int /\ writeIdx' \in Int /\ readIdx' \in Int
    BY <1>1
  <2> QED BY <1>1, <2>1, <2>2
<1>9. \A i \in 0 .. readIdx' - 1 : i \in 0 .. writeIdx' - 1
  <2>1. \A a, b, c \in Int : a <= b /\ b <= c => \A i \in 0 .. a - 1 : i \in 0 .. c - 1
    OBVIOUS
  <2>2. readIdx' \in Int /\ writeIdx \in Int /\ writeIdx' \in Int /\ readIdx' <= writeIdx
    BY <1>1, ReadStep
  <2> QED BY <1>1, <2>1, <2>2
<1>5. ASSUME NEW k \in 1 .. Len(delivered)
      PROVE  \E i \in 0 .. readIdx - 1 : delivered[k] = log'[i + 1]
  BY <1>1, <1>3, <1>4
<1>6. ASSUME NEW k \in 1 .. Len(delivered), k > 1, NEW i \in 0 .. writeIdx' - 1,
             NEW j \in 0 .. writeIdx' - 1,
             delivered[k - 1] = log'[i + 1], delivered[k] = log'[j + 1]
      PROVE  i < j
  <2>1. k - 1 \in 1 .. Len(delivered)
    BY <1>1, <1>6
  <2>2. i \in 0 .. writeIdx - 1 /\ j \in 0 .. writeIdx - 1
    BY <1>2, <1>4, <1>5, <1>6, <2>1
  <2> QED BY <1>1, <1>3, <1>6, <2>2
<1>7. CASE PopTake(t)
  <2>1. /\ readIdx' = readIdx + 1 /\ rd[t] = readIdx /\ pc[t] = "pop_cas"
        /\ delivered' = Append(delivered, IdOf(tmp[t])) /\ UNCHANGED <<writeIdx, log>>
    BY <1>7, ReadStep DEF PopTake
  <2>2. IdOf(tmp[t]) = Elem(readIdx) /\ readIdx \in 0 .. writeIdx - 1
    BY <2>1, HeadIsCurrent DEF Safe, Popping, Current
  <2>3. /\ Len(delivered') = Len(delivered) + 1
        /\ \A k \in 1 .. Len(delivered) : delivered'[k] = delivered[k]
        /\ delivered'[Len(delivered) + 1] = log'[readIdx + 1]
    BY <1>1, <2>1, <2>2, AppendProperties
  <2>6. \A k \in 1 .. Len(delivered') : k \in 1 .. Len(delivered) \/ k = Len(delivered) + 1
    <3>1. \A n \in Nat : \A k \in 1 .. n + 1 : k \in 1 .. n \/ k = n + 1
      OBVIOUS
    <3> QED BY <1>1, <2>3, <3>1
  <2>4. ASSUME NEW k \in 1 .. Len(delivered')
        PROVE  \E i \in 0 .. readIdx' - 1 : delivered'[k] = log'[i + 1]
    <3>1. CASE k \in 1 .. Len(delivered)
      BY <1>4, <1>5, <2>3, <3>1
    <3>2. CASE k = Len(delivered) + 1
      <4>1. readIdx \in 0 .. readIdx' - 1
        BY <1>1, <2>1
      <4> QED BY <2>3, <3>2, <4>1
    <3> QED BY <2>6, <3>1, <3>2
  <2>5. ASSUME NEW k \in 1 .. Len(delivered'), k > 1, NEW i \in 0 .. writeIdx' - 1,
               NEW j \in 0 .. writeIdx' - 1,
               delivered'[k - 1] = log'[i + 1], delivered'[k] = log'[j + 1]
        PROVE  i < j
    <3>1. CASE k \in 1 .. Len(delivered)
      <4>1. k - 1 \in 1 .. Len(delivered)
        BY <1>1, <2>5, <3>1
      <4> QED BY <1>6, <2>3, <2>5, <3>1, <4>1
    <3>2. CASE k = Len(delivered) + 1
      <4>1. k - 1 \in 1 .. Len(delivered) /\ k - 1 = Len(delivered)
        BY <1>1, <2>5, <3>2
      <4>2. PICK h \in 0 .. readIdx - 1 : delivered[k - 1] = log'[h + 1]
        BY <1>5, <4>1
      <4>3. h = i
        BY <1>2, <1>4, <2>3, <2>5, <4>1, <4>2
      <4>4. readIdx \in 0 .. writeIdx' - 1
        BY <2>1, <2>2
      <4>5. j = readIdx
        BY <1>2, <2>3, <2>5, <3>2, <4>4
      <4> QED BY <1>1, <4>3, <4>5
    <3> QED BY <2>6, <3>1, <3>2
  <2> QED BY <1>9, <2>4, <2>5 DEF Deliveries, DeliveredInOrder, Elem
<1>8. CASE ~PopTake(t)
  <2>1. delivered' = delivered
    BY <1>8, Frames
  <2>2. \A k \in 1 .. Len(delivered) : \E i \in 0 .. readIdx' - 1 : delivered[k] = log'[i + 1]
    BY <1>4, <1>5
  <2> QED BY <1>6, <1>9, <2>1, <2>2 DEF Deliveries, DeliveredInOrder, Elem
<1> QED BY <1>7, <1>8

-----------------------------------------------------------------------------
(* What the only producer knows *)

\* The step by which a thread has come to a label of its other calls
LEMMA OtherArrivals ==
    ASSUME LocalTypes, NEW t \in Thread, Step(t)
    PROVE  /\ pc'[t] = "peek_commit" => PeekLoadRead(t)
           /\ pc'[t] = "peek_load" => PeekLoadCommit(t)
           /\ pc'[t] = "range_write" => RangeLoadRead(t)
           /\ pc'[t] = "all_commit" => RangeLoadWrite(t) \/ AllLoadSlot(t)
           /\ pc'[t] = "all_load" => AllLoadCommit(t)
           /\ pc'[t] = "iter_next" => RangeLoadWrite(t) \/ IterNext(t)
           /\ pc'[t] = "query_read" => QueryLoadWrite(t)
           /\ pc'[t] = "queried" => QueryLoadRead(t)
           /\ pc'[t] = "edit_read" => EditCheck(t)
           /\ pc'[t] = "edit" => EditLoadRead(t)
<1> USE DEF LocalTypes, Goto
<1>1. CASE Return(t)
  BY <1>1 DEF Return
<1>2. CASE PushCall(t) \/ PushRetry(t)
  BY <1>2 DEF PushCall, PushRetry
<1>3. CASE PushLoadRead(t) \/ PushReserve(t) \/ OverwriteReserve(t) \/ PushStoreSlot(t)
  BY <1>3 DEF PushLoadRead, PushReserve, OverwriteReserve, PushStoreSlot
<1>4. CASE PushLoadWrite(t) /\ ~Return(t)
  BY <1>4 DEF PushLoadWrite
<1>5. CASE OverwriteLoadRead(t) \/ OverwriteAdvance(t) \/ OverwriteSwap(t)
  BY <1>5 DEF OverwriteLoadRead, OverwriteAdvance, OverwriteSwap
<1>6. CASE PopLoadRead(t) \/ (PopLoadCommit(t) /\ ~Return(t)) \/ PopLoadSlot(t) \/ PopRetry(t)
           \/ ClearLoadWrite(t) \/ EditCheck(t) \/ EditLoadRead(t)
  BY <1>6 DEF PopLoadRead, PopLoadCommit, PopLoadSlot, PopRetry, ClearLoadWrite, EditCheck,
              EditLoadRead
<1>7. CASE PeekLoadRead(t) \/ PeekLoadCommit(t) \/ PeekLoadSlot(t) \/ QueryLoadWrite(t)
           \/ QueryLoadRead(t) \/ RangeLoadRead(t) \/ RangeLoadWrite(t)
  BY <1>7 DEF PeekLoadRead, PeekLoadCommit, PeekLoadSlot, QueryLoadWrite,
              QueryLoadRead, RangeLoadRead, RangeLoadWrite
<1>8. CASE AllLoadCommit(t) \/ AllLoadSlot(t)
  BY <1>8 DEF AllLoadCommit, AllLoadSlot
<1>9. CASE IterNext(t)
  BY <1>9 DEF IterNext
<1> QED
  BY <1>1, <1>2, <1>3, <1>4, <1>5, <1>6, <1>7, <1>8, <1>9
     DEF Step, PushStep, PopStep, ClearStep, ObserverStep, EditStep, PushPanics,
         PushCommit, PopTake, ClearStoreRead, LoadPanic, CallReturn, EditElement

\* Nobody moves writeIdx while the only producer is in a call that is not a push.
LEMMA SoleViewStep ==
    ASSUME Disciplined, Safe, NEW t \in Thread, Step(t)
    PROVE  SoleView'
<1>1. /\ Basics /\ Window /\ Roles /\ SoleView /\ LocalTypes
      /\ writeIdx \in 0 .. MaxPush /\ readIdx \in 0 .. MaxPush /\ readIdx <= writeIdx
      /\ Capacity \in Nat \ {0}
  BY Ranges DEF Safe, Basics, TypeOK, Window
<1>2. Reserves(t) => pc[t] \in Pushing /\ pc'[t] \in Pushing
  BY <1>1, LogStep DEF Pushing, Reserved
<1> DEFINE View(u) ==
             /\ pc'[u] \in {"clear_store", "query_read", "queried",
                            "all_commit", "all_load", "iter_next"} => wr'[u] = writeIdx
             /\ pc'[u] \in {"peek_commit", "peek_load", "range_write", "all_commit", "all_load",
                            "iter_next", "edit"} => writeIdx <= rd'[u] + Capacity
             /\ pc'[u] \in {"edit_read", "edit"} => wr'[u] < Capacity
<1>3. ASSUME NEW u \in Thread, Producers = {u}, u # t
      PROVE  View(u) /\ ~Reserves(t)
  <2>1. pc'[u] = pc[u] /\ rd'[u] = rd[u] /\ wr'[u] = wr[u]
    BY <1>1, <1>3, OthersKeepLocals
  <2>2. pc[t] \notin Pushing
    BY <1>1, <1>3, Alone
  <2> QED BY <1>1, <1>2, <1>3, <2>1, <2>2 DEF SoleView
<1>4. ASSUME Producers = {t}, pc'[t] \notin Pushing PROVE View(t)
  <2>1. CASE ClearLoadWrite(t) \/ QueryLoadWrite(t)
    BY <1>1, <2>1 DEF ClearLoadWrite, QueryLoadWrite, LoadWriteIdx, Goto, LocalTypes
  <2>2. CASE PeekLoadRead(t) \/ RangeLoadRead(t)
    <3>1. pc[t] = "idle" /\ rd'[t] = readIdx /\ pc'[t] \in {"peek_commit", "range_write"}
      BY <1>1, <2>2 DEF PeekLoadRead, RangeLoadRead, LoadReadIdx, Goto, LocalTypes
    <3>2. ~Excess
      BY <1>1, <1>4, <3>1, NoExcess
    <3> QED BY <1>1, <3>1, <3>2 DEF Window
  <2>3. CASE EditLoadRead(t)
    <3>1. /\ pc[t] = "edit_read" /\ pc'[t] = "edit"
          /\ rd'[t] = readIdx /\ wr'[t] = wr[t]
      BY <1>1, <2>3 DEF EditLoadRead, LoadReadIdx, Goto, LocalTypes
    <3>2. ~Excess
      BY <1>1, <1>4, <3>1, NoExcess
    <3> QED BY <1>1, <1>4, <3>1, <3>2 DEF Window, SoleView
  <2>7. CASE EditCheck(t)
    <3>1. pc'[t] = "edit_read" /\ \E offset \in 0 .. Capacity - 1 : wr'[t] = offset
      BY <1>1, <2>7 DEF EditCheck, Goto, LocalTypes
    <3> QED BY <1>1, <3>1
  <2>4. CASE RangeLoadWrite(t)
    <3>1. pc[t] = "range_write" /\ rd'[t] = rd[t] /\ wr'[t] = writeIdx
          /\ pc'[t] \in {"all_commit", "iter_next"}
      BY <1>1, <2>4 DEF RangeLoadWrite, LoadWriteIdx, Goto, LocalTypes
    <3> QED BY <1>1, <1>4, <3>1 DEF SoleView
  <2>5. CASE QueryLoadRead(t) \/ PeekLoadCommit(t)
    <3>1. wr'[t] = wr[t]
      BY <2>5 DEF QueryLoadRead, PeekLoadCommit
    <3>2. /\ QueryLoadRead(t) => pc[t] = "query_read" /\ pc'[t] = "queried"
          /\ PeekLoadCommit(t) => pc[t] = "peek_commit" /\ rd'[t] = rd[t]
                                  /\ pc'[t] \in {"observed", "peek_load"}
      BY <1>1 DEF QueryLoadRead, PeekLoadCommit, Goto, LocalTypes
    <3> QED BY <1>1, <1>4, <2>5, <3>1, <3>2 DEF SoleView
  <2>6. CASE AllLoadCommit(t) \/ AllLoadSlot(t) \/ IterNext(t)
    <3>1. rd'[t] = rd[t] /\ wr'[t] = wr[t]
      BY <2>6 DEF AllLoadCommit, AllLoadSlot, IterNext
    <3>2. /\ pc[t] \in {"all_commit", "all_load", "iter_next"}
          /\ pc'[t] \in {"all_commit", "all_load", "iter_next", "observed"}
      BY <1>1, <2>6 DEF AllLoadCommit, AllLoadSlot, IterNext, Goto, LocalTypes
    <3> QED BY <1>1, <1>4, <3>1, <3>2 DEF SoleView
  <2> QED BY <1>1, <2>1, <2>2, <2>3, <2>4, <2>5, <2>6, <2>7, Arrivals, OtherArrivals
<1>5. ASSUME NEW u \in Thread, Producers = {u}
      PROVE  /\ View(u)
             /\ pc'[u] \notin Pushing => writeIdx' = writeIdx
  <2>1. ~Reserves(t) => writeIdx' = writeIdx
    BY Frames
  <2>2. CASE u = t
    BY <1>2, <1>4, <1>5, <2>1, <2>2 DEF Pushing, Reserved, Unreserved
  <2>3. CASE u # t
    BY <1>3, <1>5, <2>1, <2>3
  <2> QED BY <2>2, <2>3
<1> HIDE DEF View
<1>6. ASSUME NEW u \in Thread, Producers = {u}, pc'[u] \notin Pushing
      PROVE  /\ pc'[u] \in {"clear_store", "query_read", "queried",
                            "all_commit", "all_load", "iter_next"} => wr'[u] = writeIdx'
             /\ pc'[u] \in {"peek_commit", "peek_load", "range_write", "all_commit", "all_load",
                            "iter_next", "edit"} => writeIdx' <= rd'[u] + Capacity
             /\ pc'[u] \in {"edit_read", "edit"} => wr'[u] < Capacity
  BY <1>5, <1>6 DEF View
<1> QED BY <1>6 DEF SoleView, Pushing, Reserved, Unreserved

-----------------------------------------------------------------------------
(* The invariant holds *)

LEMMA SafeInit == Init => Safe
<1> SUFFICES ASSUME Init PROVE Safe
  OBVIOUS
<1>1. Basics
  BY BasicsInit
<1>2. Capacity \in Nat \ {0}
  BY RingIndexAssumption
<1>3. Roles /\ Reservations /\ Popping /\ Overwriting /\ SoleView
  BY DEF Init, Roles, Pushing, Reserved, Unreserved, Reservations, Popping, Overwriting, SoleView
<1>4. Window
  BY <1>2 DEF Init, Window
<1>5. Current = {}
  BY DEF Init, Current
<1>6. Statuses /\ Contents
  BY <1>5 DEF Init, Statuses, Contents
<1>7. Accounts
  <2>1. 0 .. writeIdx - 1 = {}
    BY DEF Init
  <2> QED BY <2>1 DEF Init, Accounts
<1>8. Deliveries
  BY DEF Init, Deliveries, DeliveredInOrder
<1> QED BY <1>1, <1>3, <1>4, <1>6, <1>7, <1>8 DEF Safe

LEMMA SafeStep ==
    ASSUME Disciplined
    PROVE  Safe /\ [Next]_vars => Safe'
<1> SUFFICES ASSUME Safe, [Next]_vars PROVE Safe'
  OBVIOUS
<1>1. CASE UNCHANGED vars
  <2>1. Basics' /\ Current' = Current /\ Excess' = Excess
    BY <1>1, BasicsStep DEF Safe, Current, Excess, vars, shared, locals
  <2>2. Roles' /\ Window' /\ Reservations' /\ Popping' /\ Overwriting' /\ SoleView'
    BY <1>1, <2>1 DEF Safe, Roles, Window, Reservations, Popping, Overwriting, SoleView,
       Elem, CommitStatus, PeekAt, vars, shared, locals, ghosts
  <2>3. Statuses' /\ Contents'
    BY <1>1, <2>1 DEF Safe, Statuses, Contents, Content, Pending,
       Elem, CommitStatus, PeekAt, vars, shared, locals, ghosts
  <2>4. Accounts' /\ Deliveries'
    BY <1>1 DEF Safe, Accounts, Deliveries, DeliveredInOrder, InLimbo, Count,
       Elem, vars, shared, locals, ghosts
  <2> QED BY <2>1, <2>2, <2>3, <2>4 DEF Safe
<1>2. CASE Next
  <2>1. PICK t \in Thread : Step(t)
    BY <1>2 DEF Next, Step
  <2>2. Basics' /\ Roles' /\ Window' /\ Reservations' /\ Statuses'
    BY <2>1, BasicsStep, RolesStep, WindowStep, ReservationsStep, StatusesStep DEF Safe
  <2>3. Contents' /\ Popping' /\ Overwriting' /\ Accounts' /\ Deliveries' /\ SoleView'
    BY <2>1, ContentsStep, PoppingStep, OverwritingStep, AccountsStep, DeliveriesStep,
       SoleViewStep
  <2> QED BY <2>2, <2>3 DEF Safe
<1> QED BY <1>1, <1>2

LEMMA SafeAlways == Disciplined => (Spec => []Safe)
<1> SUFFICES ASSUME Disciplined PROVE Spec => []Safe
  OBVIOUS
<1>1. Safe /\ [Next]_vars => Safe'
  BY SafeStep
<1> QED BY <1>1, SafeInit, PTL DEF Spec

-----------------------------------------------------------------------------
(* What follows for every behaviour *)

\* No element is lost or mangled between the store of the push that publishes it and the
\* load of whoever takes it: between the indices a committed slot holds the element
\* reserved for it, with what fetch_add_at was meant to add to it and nothing else.
THEOREM ElementsAreIntact == Disciplined => (Spec => []PublishedIsIntact)
<1> SUFFICES ASSUME Disciplined PROVE Spec => []PublishedIsIntact
  OBVIOUS
<1>1. Safe => PublishedIsIntact
  <2> SUFFICES ASSUME Safe, NEW i \in readIdx .. writeIdx - 1, CommitStatus(i) = i
               PROVE  PeekAt(i) = (Elem(i) + Unit * added[Elem(i)]) % Width
    BY DEF PublishedIsIntact
  <2>1. i \in Current
    BY Ranges DEF Safe, Current
  <2>2. readIdx <= i
    OBVIOUS
  <2> QED BY <2>1, <2>2 DEF Safe, Contents, Content
<1> QED BY <1>1, SafeAlways, PTL

\* Every element has one fate: it is popped by one consumer, or returned by the push that
\* overwrites it, or cleared, whatever race the three are in; and when the calls are over
\* those are the elements behind read_idx.
THEOREM FatesAreExclusive == Disciplined => (Spec => []ExactlyOnce)
<1> SUFFICES ASSUME Disciplined PROVE Spec => []ExactlyOnce
  OBVIOUS
<1>1. Safe => ExactlyOnce
  <2> SUFFICES ASSUME Safe PROVE ExactlyOnce
    OBVIOUS
  <2>1. ASSUME NEW i \in 0 .. writeIdx - 1
        PROVE  /\ handed[Elem(i)] + Count(Elem(i) \in cleared) <= 1
               /\ Quiescent =>
                     ((handed[Elem(i)] = 1 \/ Elem(i) \in cleared) <=> i < readIdx)
    <3>1. handed[Elem(i)] \in Nat
      BY Ranges DEF Safe, Basics, TypeOK, GhostTypes
    <3>2. handed[Elem(i)] + Count(Elem(i) \in cleared) + Count(InLimbo(i)) = Count(i < readIdx)
      BY DEF Safe, Accounts
    <3>3. Quiescent => ~InLimbo(i)
      BY DEF Safe, Overwriting, InLimbo, Quiescent
    <3> QED BY <3>1, <3>2, <3>3 DEF Count
  <2>2. handed[0] = 0
    BY DEF Safe, Accounts
  <2> QED BY <2>1, <2>2 DEF ExactlyOnce, Count
<1> QED BY <1>1, SafeAlways, PTL

\* Consumers that compete for read_idx still get, between them, the elements in the order
\* in which the producers reserved their slots, whichever order they commit in.
THEOREM PopsAreInOrder == Disciplined => (Spec => []DeliveredInOrder)
<1> SUFFICES ASSUME Disciplined PROVE Spec => []DeliveredInOrder
  OBVIOUS
<1>1. Safe => DeliveredInOrder
  BY DEF Safe, Deliveries
<1> QED BY <1>1, SafeAlways, PTL

\* What len() counts when no call is in progress is there to be popped, unless the push
\* that reserved the head panicked in its store.
THEOREM WhatIsCountedCanBePopped == Disciplined => (Spec => []HeadIsPoppable)
<1> SUFFICES ASSUME Disciplined PROVE Spec => []HeadIsPoppable
  OBVIOUS
<1>1. Safe => HeadIsPoppable
  <2> SUFFICES ASSUME Safe, Quiescent, readIdx # writeIdx
               PROVE  CommitStatus(readIdx) = readIdx \/ readIdx \in abandoned
    BY DEF HeadIsPoppable
  <2>1. readIdx \in Current
    BY Ranges DEF Safe, Window, Current
  <2>2. ~Pending(readIdx)
    BY DEF Quiescent, Pending, Reserved
  <2> QED BY <2>1, <2>2 DEF Safe, Statuses
<1> QED BY <1>1, SafeAlways, PTL

\* No step of any thread moves an index back, neither a clear that stores a write_idx it
\* loaded before nor a push or a pop whose compare_exchange comes late.
THEOREM IndicesOnlyAdvance == Disciplined => (Spec => IndicesAreMonotone)
<1> SUFFICES ASSUME Disciplined PROVE Spec => IndicesAreMonotone
  OBVIOUS
<1>1. Safe /\ [Next]_vars => [readIdx <= readIdx' /\ writeIdx <= writeIdx']_vars
  <2> SUFFICES ASSUME Safe, Next PROVE readIdx <= readIdx' /\ writeIdx <= writeIdx'
    OBVIOUS
  <2>1. PICK t \in Thread : Step(t)
    BY DEF Next, Step
  <2> QED BY <2>1, ReadStep, LogStep DEF Safe
<1> QED BY <1>1, SafeAlways, PTL DEF Spec, IndicesAreMonotone

\* A push that moves read_idx past an element does so because it has reserved a slot a
\* whole lap ahead of one that was pushed: it reports an element, and not what a slot
\* happened to hold.
THEOREM OverwritesAreOfElements == Disciplined => (Spec => OverwroteAnElement)
<1> SUFFICES ASSUME Disciplined PROVE Spec => OverwroteAnElement
  OBVIOUS
<1> DEFINE A == \A t \in Thread : ~over[t] /\ over'[t] => readIdx < wr[t]
<1>1. Safe /\ [Next]_vars => [A]_vars
  <2> SUFFICES ASSUME Safe, Next, NEW u \in Thread, ~over[u], over'[u] PROVE readIdx < wr[u]
    BY DEF A
  <2>1. PICK t \in Thread : Step(t)
    BY DEF Next, Step
  <2>2. LocalTypes
    BY DEF Safe, Basics, TypeOK
  <2>3. u = t
    BY <2>1, <2>2, OthersKeepLocals
  <2>4. OverwriteAdvance(t)
    BY <2>1, <2>2, <2>3, OverIsSet
  <2>5. pc[t] = "ow_advance"
    BY <2>4 DEF OverwriteAdvance, Safe, Roles
  <2>6. rd[t] + Capacity = wr[t]
    BY <2>5 DEF Safe, Window
  <2>7. over' # over
    BY <2>3
  <2>8. readIdx = rd[t]
    BY <2>1, <2>4, <2>7, ReadStep
  <2> QED BY <2>3, <2>6, <2>8, Ranges DEF Safe
<1> QED BY <1>1, SafeAlways, PTL DEF Spec, OverwroteAnElement

\* With a single overwriting producer no element disappears: what nobody was given and no
\* clear has removed is still in a slot when the calls are over.
THEOREM NothingDisappears ==
    Disciplined /\ (Overwrite \/ StoresReturn) => (Spec => []OverwriteIsReported)
<1> SUFFICES ASSUME Disciplined, Overwrite \/ StoresReturn PROVE Spec => []OverwriteIsReported
  OBVIOUS
<1>1. Safe => OverwriteIsReported
  <2> SUFFICES ASSUME Safe, Quiescent, NEW i \in 0 .. writeIdx - 1,
                      ~(handed[Elem(i)] > 0), Elem(i) \notin cleared
               PROVE  \E k \in Slot : IdOf(slot[k]) = Elem(i)
    BY DEF OverwriteIsReported
  <2>1. handed[Elem(i)] \in Nat
    BY Ranges DEF Safe, Basics, TypeOK, GhostTypes
  <2>2. handed[Elem(i)] + Count(Elem(i) \in cleared) + Count(InLimbo(i)) = Count(i < readIdx)
    BY DEF Safe, Accounts
  <2>3. ~InLimbo(i)
    BY DEF Safe, Overwriting, InLimbo, Quiescent
  <2>4. ~(i < readIdx)
    BY <2>1, <2>2, <2>3 DEF Count
  <2>5. i \in Current /\ SlotOf(i) \in Slot
    BY <2>4, Ranges DEF Safe, Current
  <2>6. CommitStatus(i) = i
    BY <2>5 DEF Safe, Statuses, Pending, Quiescent, Reserved
  <2> QED BY <2>5, <2>6, CommittedId DEF PeekAt
<1> QED BY <1>1, SafeAlways, PTL
=============================================================================
