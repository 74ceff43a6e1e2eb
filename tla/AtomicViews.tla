---------------------------- MODULE AtomicViews ----------------------------
(***************************************************************************)
(* What a thread may conclude from the calls of AtomicRing that change     *)
(* nothing: peek, read_all and iter, and len, is_empty and is_full.  They  *)
(* load the indices, the commit status and the slots one after the other   *)
(* while other threads push, pop and clear.  Likewise from a pop that      *)
(* returns None, and from a push that returns Err.                         *)
(***************************************************************************)
EXTENDS AtomicSafety, AtomicFull

\* No element that t is looking at has been taken, or t has seen all that was pushed.
Undisturbed(t) == rd[t] = readIdx \/ Producers = {t}

\* What peek, read_all and iter have found so far
Views ==
    \A t \in Thread :
        /\ pc[t] \notin {"all_commit", "all_load", "iter_next", "observed"} => seen[t] = << >>
        /\ pc[t] = "all_load" => Len(seen[t]) < Capacity
        /\ Undisturbed(t) =>
             /\ pc[t] = "peek_load" => CommitStatus(rd[t]) = rd[t]
             /\ pc[t] = "all_load" =>
                  CommitStatus(rd[t] + Len(seen[t])) = rd[t] + Len(seen[t])
             /\ \A k \in 1 .. Len(seen[t]) :
                  rd[t] + k <= writeIdx /\ IdOf(seen[t][k]) = Elem(rd[t] + k - 1)

\* iter does not look at the commit status, so that no push may have panicked.
Iterable == Accessors = {} \/ Overwrite \/ StoresReturn

\* What the only consumer of a rejecting buffer has loaded to answer a query, or to look
\* whether the head is committed
Asked ==
    \A t \in Thread : Consumers = {t} =>
        /\ pc[t] = "pop_commit" => rd[t] = readIdx
        /\ pc[t] = "query_read" => readIdx <= wr[t]
        /\ pc[t] = "queried" => rd[t] = readIdx /\ rd[t] <= wr[t]

\* Nobody but the only consumer moves read_idx.
Rejecting == ~Overwrite /\ Clearers \subseteq Consumers

-----------------------------------------------------------------------------
\* A committed index at which t looks is current as long as t is undisturbed.
LEMMA LookedAtIsCurrent ==
    ASSUME Safe, NEW t \in Thread, Undisturbed(t),
           pc[t] \in {"peek_commit", "peek_load", "all_commit", "all_load"},
           NEW n \in 0 .. Capacity - 1, CommitStatus(rd[t] + n) = rd[t] + n
    PROVE  rd[t] + n \in Current
<1>1. /\ Basics /\ Window /\ rd[t] \in 0 .. MaxPush /\ MaxPush \in Nat
      /\ Capacity \in Nat \ {0} /\ MaxPush + Capacity < Modulus
      /\ writeIdx \in 0 .. MaxPush /\ readIdx \in 0 .. MaxPush
      /\ \A i \in Int : SlotOf(i) \in Slot
  BY Ranges, AtomicAssumption DEF Safe
<1>2. rd[t] + n \in Index
  BY <1>1, RingIndexAssumption DEF Index
<1>3. rd[t] + n \in Int /\ rd[t] + n # Never
  BY <1>1, <1>2, AtomicAssumption
<1>4. rd[t] + n < writeIdx
  BY <1>1, <1>3 DEF Safe, Statuses, CommitStatus
<1>5. readIdx <= rd[t] + n \/ writeIdx <= (rd[t] + n) + Capacity
  <2>1. CASE rd[t] = readIdx
    BY <1>1, <2>1
  <2>2. CASE Producers = {t}
    <3>1. writeIdx <= rd[t] + Capacity
      BY <2>2 DEF Safe, SoleView
    <3> QED BY <1>1, <3>1
  <2> QED BY <2>1, <2>2 DEF Undisturbed
<1> QED BY <1>1, <1>4, <1>5 DEF Current

\* Where the loops of read_all and iter are
LEMMA CurrIdxIs ==
    ASSUME Safe, NEW t \in Thread
    PROVE  /\ seen[t] \in Seq(Value) /\ Len(seen[t]) \in Nat
           /\ Len(seen[t]) < RangeLen(t) => Len(seen[t]) < Capacity
           /\ Len(seen[t]) < Capacity => CurrIdx(t) = rd[t] + Len(seen[t])
<1>1. seen[t] \in Seq(Value) /\ Len(seen[t]) \in Nat
  BY LenProperties DEF Safe, Basics, TypeOK, LocalTypes
<1>2. rd[t] \in 0 .. MaxPush /\ Capacity \in Nat \ {0}
  BY Ranges DEF Safe
<1>3. RangeLen(t) <= Capacity /\ RangeLen(t) \in Int
  <2>1. WrapSub(wr[t], rd[t]) \in Int
    BY Ranges, RingIndexAssumption DEF Safe, WrapSub
  <2> QED BY <1>2, <2>1 DEF RangeLen
<1>4. Len(seen[t]) < Capacity => WrapAdd(rd[t], Len(seen[t])) = rd[t] + Len(seen[t])
  BY <1>1, <1>2, NoWrap
<1> QED BY <1>1, <1>2, <1>3, <1>4 DEF CurrIdx

\* The calls of a thread leave seen alone but for those that show something, and all
\* others of its locals behind.
LEMMA SeenStep ==
    ASSUME LocalTypes, NEW t \in Thread, Step(t)
    PROVE  \/ seen'[t] = << >>
           \/ PeekLoadSlot(t)
           \/ AllLoadSlot(t)
           \/ IterNext(t) /\ Show(t)
           \/ seen'[t] = seen[t] /\ rd'[t] = rd[t]
              /\ pc[t] \in {"all_commit", "all_load", "iter_next", "observed"}
              /\ pc'[t] \in {"all_commit", "all_load", "iter_next", "observed"}
           \/ seen'[t] = seen[t]
              /\ pc[t] \notin {"all_commit", "all_load", "iter_next", "observed"}
<1> USE DEF LocalTypes, Goto
<1>1. CASE Return(t)
  BY <1>1 DEF Return
<1>2. CASE PushCall(t) \/ PushLoadRead(t) \/ PushRetry(t)
  BY <1>2 DEF PushCall, PushLoadRead, PushRetry
<1>3. CASE PushReserve(t) \/ OverwriteReserve(t) \/ PushStoreSlot(t)
  BY <1>3 DEF PushReserve, OverwriteReserve, PushStoreSlot
<1>4. CASE OverwriteLoadRead(t) \/ OverwriteAdvance(t) \/ OverwriteSwap(t)
  BY <1>4 DEF OverwriteLoadRead, OverwriteAdvance, OverwriteSwap
<1>5. CASE PopLoadRead(t) \/ PopLoadSlot(t) \/ PopRetry(t)
  BY <1>5 DEF PopLoadRead, PopLoadSlot, PopRetry
<1>6. CASE ClearLoadWrite(t) \/ PeekLoadRead(t) \/ PeekLoadCommit(t) \/ QueryLoadWrite(t)
           \/ QueryLoadRead(t) \/ RangeLoadRead(t) \/ RangeLoadWrite(t)
  BY <1>6 DEF ClearLoadWrite, PeekLoadRead, PeekLoadCommit, QueryLoadWrite,
              QueryLoadRead, RangeLoadRead, RangeLoadWrite
<1>7. CASE AllLoadCommit(t)
  BY <1>7 DEF AllLoadCommit
<1>8. CASE IterNext(t)
  BY <1>8 DEF IterNext
<1>9. CASE EditCheck(t) \/ EditLoadRead(t)
  BY <1>9 DEF EditCheck, EditLoadRead
<1>10. CASE PushLoadWrite(t) /\ ~Return(t)
  BY <1>10 DEF PushLoadWrite
<1>11. CASE PopLoadCommit(t) /\ ~Return(t)
  BY <1>11 DEF PopLoadCommit
<1> QED
  BY <1>1, <1>2, <1>3, <1>4, <1>5, <1>6, <1>7, <1>8, <1>9, <1>10, <1>11
     DEF Step, PushStep, PopStep, ClearStep, ObserverStep, EditStep, PushPanics, PushCommit,
         PopTake, ClearStoreRead, LoadPanic, CallReturn, EditElement

\* One turn of the loop of read_all or iter shows the element of its index.
LEMMA ShownIsElement ==
    ASSUME Disciplined, Iterable, Safe, Views, NEW t \in Thread, Undisturbed(t),
           \/ pc[t] = "all_load"
           \/ pc[t] = "iter_next" /\ Len(seen[t]) < RangeLen(t)
    PROVE  /\ rd[t] + Len(seen[t]) + 1 <= writeIdx
           /\ IdOf(PeekAt(CurrIdx(t))) = Elem(rd[t] + Len(seen[t]))
<1>1. /\ Basics /\ Window /\ Roles
      /\ rd[t] \in 0 .. MaxPush /\ wr[t] \in 0 .. MaxPush /\ MaxPush \in Nat
      /\ Capacity \in Nat \ {0}
      /\ writeIdx \in 0 .. MaxPush /\ readIdx \in 0 .. MaxPush /\ readIdx <= writeIdx
      /\ Len(seen[t]) \in Nat
  BY Ranges, CurrIdxIs DEF Safe, Window
<1> DEFINE n == Len(seen[t])
<1>2. n < Capacity /\ CurrIdx(t) = rd[t] + n
  BY CurrIdxIs DEF Views
<1>3. /\ rd[t] + n \in Current
      /\ CommitStatus(rd[t] + n) = rd[t] + n
  <2>1. CASE pc[t] = "all_load"
    <3>1. CommitStatus(rd[t] + n) = rd[t] + n
      BY <2>1 DEF Views
    <3>2. n \in 0 .. Capacity - 1
      BY <1>1, <1>2
    <3> QED BY <2>1, <3>1, <3>2, LookedAtIsCurrent
  <2>2. CASE pc[t] = "iter_next" /\ n < RangeLen(t)
    <3>1. Producers = {t} /\ Accessors # {}
      BY <1>1, <2>2 DEF Roles, Disciplined
    <3>2. wr[t] = writeIdx /\ writeIdx <= rd[t] + Capacity
      BY <2>2, <3>1 DEF Safe, SoleView
    <3>3. rd[t] <= wr[t]
      BY <1>1, <3>2 DEF Window
    <3>4. n < wr[t] - rd[t]
      <4>1. WrapSub(wr[t], rd[t]) = wr[t] - rd[t]
        BY <1>1, <3>3, NoWrap
      <4> QED BY <1>1, <1>2, <2>2, <4>1 DEF RangeLen
    <3>5. rd[t] + n \in Current
      <4>1. rd[t] + n < writeIdx /\ writeIdx <= (rd[t] + n) + Capacity
        BY <1>1, <3>2, <3>4
      <4> QED BY <1>1, <4>1 DEF Current
    <3>6. ~Pending(rd[t] + n)
      <4> SUFFICES ASSUME NEW u \in Thread, pc[u] \in Reserved PROVE FALSE
        BY DEF Pending
      <4>1. u = t
        BY <1>1, <3>1, Alone DEF Pushing
      <4> QED BY <2>2, <4>1 DEF Reserved
    <3>7. abandoned = {}
      BY <3>1 DEF Iterable, Safe, Statuses
    <3> QED BY <3>5, <3>6, <3>7 DEF Safe, Statuses
  <2> QED BY <2>1, <2>2
<1>4. rd[t] + n + 1 <= writeIdx
  BY <1>1, <1>3 DEF Current
<1> QED BY <1>2, <1>3, <1>4, CommittedId

LEMMA ViewsStep ==
    ASSUME Disciplined, Iterable, Safe, Views, NEW t \in Thread, Step(t)
    PROVE  Views'
<1>1. /\ Basics /\ Window /\ Roles /\ LocalTypes
      /\ writeIdx \in 0 .. MaxPush /\ readIdx \in 0 .. MaxPush
      /\ readIdx' \in 0 .. MaxPush /\ readIdx <= readIdx'
      /\ writeIdx' \in 0 .. MaxPush /\ writeIdx <= writeIdx'
      /\ MaxPush \in Nat /\ Capacity \in Nat \ {0}
      /\ \A u \in Thread : rd[u] \in 0 .. MaxPush /\ rd[u] <= readIdx
      /\ \A u \in Thread : Len(seen[u]) \in Nat /\ seen[u] \in Seq(Value)
      /\ \A i \in 0 .. writeIdx - 1 : log'[i + 1] = Elem(i)
  BY Ranges, ReadStep, LogStep, CurrIdxIs DEF Safe, Basics, TypeOK, Window, Elem
<1>2. ASSUME NEW i \in Int, NEW k \in Int, 1 <= k, 0 <= i, i + k <= writeIdx
      PROVE  i + k <= writeIdx' /\ log'[(i + k - 1) + 1] = Elem(i + k - 1)
  <2>1. i + k - 1 \in 0 .. writeIdx - 1
    BY <1>1, <1>2
  <2>2. \A a, b, c \in Int : a <= b /\ b <= c => a <= c
    OBVIOUS
  <2>3. i + k <= writeIdx'
    <3>1. i + k \in Int /\ writeIdx \in Int /\ writeIdx' \in Int
      BY <1>1
    <3> QED BY <1>1, <1>2, <2>2, <3>1
  <2> QED BY <1>1, <2>1, <2>3
<1> DEFINE Looking == {"all_commit", "all_load", "iter_next", "observed"}
           Calm(u) == rd'[u] = readIdx' \/ Producers = {u}
           Front(u) == \A k \in 1 .. Len(seen'[u]) :
                         /\ rd'[u] + k <= writeIdx'
                         /\ IdOf(seen'[u][k]) = log'[(rd'[u] + k - 1) + 1]
           View(u) ==
             /\ pc'[u] \notin Looking => seen'[u] = << >>
             /\ pc'[u] = "all_load" => Len(seen'[u]) < Capacity
             /\ Calm(u) =>
                  /\ pc'[u] = "peek_load" => commit'[SlotOf(rd'[u])] = rd'[u]
                  /\ pc'[u] = "all_load" =>
                       commit'[SlotOf(rd'[u] + Len(seen'[u]))] = rd'[u] + Len(seen'[u])
                  /\ Front(u)
<1>3. ASSUME NEW u \in Thread, u # t PROVE View(u)
  <2>1. pc'[u] = pc[u] /\ rd'[u] = rd[u] /\ seen'[u] = seen[u]
    BY <1>1, <1>3, OthersKeepLocals
  <2>2. Calm(u) => Undisturbed(u)
    BY <1>1, <2>1 DEF Undisturbed
  <2>3. ASSUME Undisturbed(u), NEW n \in 0 .. Capacity - 1, pc[u] \in {"peek_load", "all_load"},
               CommitStatus(rd[u] + n) = rd[u] + n
        PROVE  commit'[SlotOf(rd[u] + n)] = rd[u] + n
    BY <2>3, LookedAtIsCurrent, CommitsStay
  <2>4. ASSUME Undisturbed(u), pc[u] = "peek_load" PROVE commit'[SlotOf(rd[u])] = rd[u]
    <3>1. 0 \in 0 .. Capacity - 1 /\ rd[u] + 0 = rd[u]
      BY <1>1
    <3>2. CommitStatus(rd[u] + 0) = rd[u] + 0
      BY <2>4, <3>1 DEF Views
    <3> QED BY <2>3, <2>4, <3>1, <3>2
  <2>5. ASSUME Undisturbed(u), pc[u] = "all_load"
        PROVE  commit'[SlotOf(rd[u] + Len(seen[u]))] = rd[u] + Len(seen[u])
    <3>1. Len(seen[u]) \in 0 .. Capacity - 1
      BY <1>1, <2>5 DEF Views
    <3> QED BY <2>3, <2>5, <3>1 DEF Views
  <2>6. ASSUME Undisturbed(u) PROVE Front(u)
    <3> SUFFICES ASSUME NEW k \in 1 .. Len(seen[u])
                 PROVE  /\ rd[u] + k <= writeIdx'
                        /\ IdOf(seen[u][k]) = log'[(rd[u] + k - 1) + 1]
      BY <2>1
    <3>1. rd[u] + k <= writeIdx /\ IdOf(seen[u][k]) = Elem(rd[u] + k - 1)
      BY <2>6 DEF Views
    <3>2. rd[u] \in Int /\ 0 <= rd[u] /\ k \in Int /\ 1 <= k
      BY <1>1
    <3> QED BY <1>2, <3>1, <3>2
  <2> HIDE DEF Front
  <2> QED BY <2>1, <2>2, <2>4, <2>5, <2>6 DEF Views
<1>4. View(t)
  <2>1. /\ pc[t] \notin Looking => seen[t] = << >>
        /\ Undisturbed(t) => \A k \in 1 .. Len(seen[t]) :
             rd[t] + k <= writeIdx /\ IdOf(seen[t][k]) = Elem(rd[t] + k - 1)
    BY DEF Views
  <2>2. ASSUME seen'[t] = << >> PROVE Front(t)
    BY <2>2
  <2>3. ASSUME seen'[t] = seen[t], rd'[t] = rd[t] PROVE Calm(t) => Front(t)
    <3> SUFFICES ASSUME Calm(t), NEW k \in 1 .. Len(seen[t])
                 PROVE  /\ rd[t] + k <= writeIdx'
                        /\ IdOf(seen[t][k]) = log'[(rd[t] + k - 1) + 1]
      BY <2>3
    <3>1. Undisturbed(t)
      BY <1>1, <2>3 DEF Undisturbed
    <3>2. rd[t] \in Int /\ 0 <= rd[t] /\ k \in Int /\ 1 <= k
      BY <1>1
    <3> QED BY <1>2, <2>1, <3>1, <3>2
  <2>4. CASE PeekLoadSlot(t)
    <3>1. /\ pc[t] = "peek_load" /\ pc'[t] = "observed" /\ rd'[t] = rd[t] /\ readIdx' = readIdx
          /\ seen'[t] = <<PeekAt(rd[t])>>
      BY <1>1, <2>4 DEF PeekLoadSlot, Goto, LocalTypes, shared
    <3>2. ASSUME Undisturbed(t)
          PROVE  rd[t] + 1 <= writeIdx /\ IdOf(PeekAt(rd[t])) = Elem(rd[t])
      <4>1. 0 \in 0 .. Capacity - 1 /\ rd[t] + 0 = rd[t]
        BY <1>1
      <4>2. CommitStatus(rd[t] + 0) = rd[t] + 0
        BY <3>1, <3>2, <4>1 DEF Views
      <4>3. rd[t] \in Current
        BY <3>1, <3>2, <4>1, <4>2, LookedAtIsCurrent
      <4>4. rd[t] + 1 <= writeIdx
        BY <1>1, <4>3 DEF Current
      <4> QED BY <4>1, <4>2, <4>3, <4>4, CommittedId
    <3>3. ASSUME Calm(t) PROVE Front(t)
      <4> SUFFICES ASSUME NEW k \in 1 .. Len(seen'[t])
                   PROVE  /\ rd[t] + k <= writeIdx'
                          /\ IdOf(seen'[t][k]) = log'[(rd[t] + k - 1) + 1]
        BY <3>1
      <4>1. k = 1 /\ seen'[t][k] = PeekAt(rd[t])
        BY <3>1
      <4>2. Undisturbed(t)
        BY <3>1, <3>3 DEF Undisturbed
      <4>3. rd[t] \in Int /\ 0 <= rd[t] /\ rd[t] + 1 - 1 = rd[t]
        BY <1>1
      <4> QED BY <1>2, <3>2, <4>1, <4>2, <4>3
    <3> HIDE DEF Front
    <3> QED BY <3>1, <3>3
  <2>5. ASSUME Show(t), rd'[t] = rd[t], readIdx' = readIdx,
               \/ pc[t] = "all_load"
               \/ pc[t] = "iter_next" /\ Len(seen[t]) < RangeLen(t)
        PROVE  Calm(t) => Front(t)
    <3> DEFINE n == Len(seen[t])
    <3>1. /\ n \in Nat /\ Len(seen'[t]) = n + 1
          /\ \A k \in 1 .. n : seen'[t][k] = seen[t][k]
          /\ seen'[t][n + 1] = PeekAt(CurrIdx(t))
      <4>1. seen'[t] = Append(seen[t], PeekAt(CurrIdx(t)))
        BY <1>1, <2>5 DEF Show, LocalTypes
      <4>2. PeekAt(CurrIdx(t)) \in Value
        <5>1. CurrIdx(t) = rd[t] + n
          BY <2>5, CurrIdxIs DEF Views
        <5>2. SlotOf(rd[t] + n) \in Slot
          BY <1>1, Ranges
        <5> QED BY <5>1, <5>2 DEF PeekAt, Safe, Basics, TypeOK, SharedTypes
      <4> QED BY <1>1, <4>1, <4>2, AppendProperties
    <3> SUFFICES ASSUME Calm(t), NEW k \in 1 .. Len(seen'[t])
                 PROVE  /\ rd[t] + k <= writeIdx'
                        /\ IdOf(seen'[t][k]) = log'[(rd[t] + k - 1) + 1]
      BY <2>5
    <3>2. Undisturbed(t)
      BY <2>5 DEF Undisturbed
    <3>3. rd[t] \in Int /\ 0 <= rd[t] /\ k \in Int /\ 1 <= k
      BY <1>1, <3>1
    <3>4. CASE k \in 1 .. n
      BY <1>2, <2>1, <3>1, <3>2, <3>3, <3>4
    <3>5. CASE k = n + 1
      <4>1. /\ rd[t] + n + 1 <= writeIdx
            /\ IdOf(PeekAt(CurrIdx(t))) = Elem(rd[t] + n)
        BY <2>5, <3>2, ShownIsElement
      <4>2. rd[t] + k = rd[t] + n + 1 /\ rd[t] + k - 1 = rd[t] + n
        BY <3>1, <3>3, <3>5
      <4> QED BY <1>2, <3>1, <3>3, <3>5, <4>1, <4>2
    <3> QED BY <3>1, <3>4, <3>5
  <2>6. CASE AllLoadSlot(t)
    <3>1. /\ pc[t] = "all_load" /\ pc'[t] = "all_commit" /\ rd'[t] = rd[t] /\ readIdx' = readIdx
          /\ Show(t)
      BY <1>1, <2>6 DEF AllLoadSlot, Goto, LocalTypes, shared
    <3> HIDE DEF Front
    <3> QED BY <2>5, <3>1
  <2>7. CASE IterNext(t) /\ Show(t)
    <3>1. pc[t] = "iter_next" /\ rd'[t] = rd[t] /\ readIdx' = readIdx
      BY <2>7 DEF IterNext, shared
    <3>2. \/ pc'[t] = "iter_next" /\ Len(seen[t]) < RangeLen(t)
          \/ pc'[t] = "observed" /\ seen' = seen
      BY <1>1, <2>7, <3>1 DEF IterNext, Goto, LocalTypes
    <3> HIDE DEF Front
    <3> QED BY <2>3, <2>5, <2>7, <3>1, <3>2
  <2>8. ASSUME pc'[t] = "peek_load" PROVE commit'[SlotOf(rd'[t])] = rd'[t]
    <3>1. PeekLoadCommit(t)
      BY <1>1, <2>8, OtherArrivals
    <3> QED BY <1>1, <2>8, <3>1 DEF PeekLoadCommit, NotCommitted, CommitStatus, Goto, LocalTypes,
                                   shared
  <2>9. ASSUME pc'[t] = "all_load"
        PROVE  /\ Len(seen'[t]) < Capacity
               /\ commit'[SlotOf(rd'[t] + Len(seen'[t]))] = rd'[t] + Len(seen'[t])
    <3>1. AllLoadCommit(t)
      BY <1>1, <2>9, OtherArrivals
    <3>2. /\ Len(seen[t]) < RangeLen(t) /\ CommitStatus(CurrIdx(t)) = CurrIdx(t)
          /\ rd' = rd /\ seen' = seen /\ commit' = commit
      BY <1>1, <2>9, <3>1 DEF AllLoadCommit, Goto, LocalTypes, shared
    <3> QED BY <3>2, CurrIdxIs DEF CommitStatus
  <2>10. ASSUME seen'[t] = << >> \/ (seen'[t] = seen[t] /\ pc[t] \notin Looking) PROVE View(t)
    <3>1. seen'[t] = << >>
      BY <2>1, <2>10
    <3> HIDE DEF Front
    <3> QED BY <2>2, <2>8, <2>9, <3>1
  <2>11. ASSUME seen'[t] = seen[t], rd'[t] = rd[t], pc[t] \in Looking, pc'[t] \in Looking
         PROVE  View(t)
    <3> HIDE DEF Front
    <3> QED BY <2>3, <2>9, <2>11
  <2> HIDE DEF View
  <2> QED BY <1>1, <2>4, <2>6, <2>7, <2>10, <2>11, SeenStep
<1> HIDE DEF View
<1>5. \A u \in Thread : View(u)
  BY <1>3, <1>4
<1> USE DEF View
<1> QED BY <1>5 DEF Views, Undisturbed, CommitStatus, Elem

LEMMA AskedStep ==
    ASSUME Disciplined, Rejecting, Safe, Asked, NEW t \in Thread, Step(t)
    PROVE  Asked'
<1>1. /\ Basics /\ Window /\ Roles /\ LocalTypes
      /\ \A u \in Thread : wr[u] <= writeIdx
  BY DEF Safe, Basics, TypeOK, Window
<1>2. ASSUME NEW u \in Thread, Consumers = {u}
      PROVE  /\ pc'[u] = "pop_commit" => rd'[u] = readIdx'
             /\ pc'[u] = "query_read" => readIdx' <= wr'[u]
             /\ pc'[u] = "queried" => rd'[u] = readIdx' /\ rd'[u] <= wr'[u]
  <2>1. u # t => readIdx' = readIdx
    <3> SUFFICES ASSUME u # t PROVE ~Takes(t)
      BY Frames
    <3>1. ~PopTake(t)
      BY <1>1, <1>2 DEF PopTake, Roles
    <3>2. ~OverwriteAdvance(t)
      BY <1>1 DEF OverwriteAdvance, Roles, Rejecting
    <3>3. ~ClearStoreRead(t)
      BY <1>1, <1>2 DEF ClearStoreRead, Roles, Rejecting
    <3> QED BY <3>1, <3>2, <3>3 DEF Takes
  <2>2. CASE u # t
    BY <1>1, <1>2, <2>1, <2>2, OthersKeepLocals DEF Asked
  <2>3. CASE u = t
    <3>1. ASSUME pc'[t] = "query_read" PROVE readIdx' <= wr'[t]
      <4>1. QueryLoadWrite(t)
        BY <1>1, <3>1, OtherArrivals
      <4>2. wr'[t] = writeIdx /\ readIdx' = readIdx
        BY <1>1, <4>1 DEF QueryLoadWrite, LoadWriteIdx, LocalTypes, shared
      <4> QED BY <1>1, <4>2 DEF Window
    <3>2. ASSUME pc'[t] = "queried" PROVE rd'[t] = readIdx' /\ rd'[t] <= wr'[t]
      <4>1. QueryLoadRead(t)
        BY <1>1, <3>2, OtherArrivals
      <4>2. rd'[t] = readIdx /\ readIdx' = readIdx /\ wr'[t] = wr[t] /\ pc[t] = "query_read"
        BY <1>1, <4>1 DEF QueryLoadRead, LoadReadIdx, LocalTypes, shared
      <4> QED BY <1>2, <2>3, <4>2 DEF Asked
    <3>3. ASSUME pc'[t] = "pop_commit" PROVE rd'[t] = readIdx'
      <4>1. PopLoadRead(t)
        BY <1>1, <3>3, Arrivals
      <4> QED BY <1>1, <4>1 DEF PopLoadRead, LoadReadIdx, LocalTypes, shared
    <3> QED BY <2>3, <3>1, <3>2, <3>3
  <2> QED BY <2>2, <2>3
<1> QED BY <1>2 DEF Asked

LEMMA ViewsAlways == Disciplined /\ Iterable => (Spec => []Views)
<1> SUFFICES ASSUME Disciplined, Iterable PROVE Spec => []Views
  OBVIOUS
<1>1. Init => Views
  BY DEF Init, Views
<1>2. Safe /\ Views /\ [Next]_vars => Views'
  <2> SUFFICES ASSUME Safe, Views, [Next]_vars PROVE Views'
    OBVIOUS
  <2>1. CASE UNCHANGED vars
    BY <2>1 DEF Views, Undisturbed, CommitStatus, Elem, vars, shared, locals, ghosts
  <2>2. CASE Next
    <3>1. PICK t \in Thread : Step(t)
      BY <2>2 DEF Next, Step
    <3> QED BY <3>1, ViewsStep
  <2> QED BY <2>1, <2>2
<1> QED BY <1>1, <1>2, SafeAlways, PTL DEF Spec

LEMMA AskedAlways == Disciplined /\ Rejecting => (Spec => []Asked)
<1> SUFFICES ASSUME Disciplined, Rejecting PROVE Spec => []Asked
  OBVIOUS
<1>1. Init => Asked
  BY DEF Init, Asked
<1>2. Safe /\ Asked /\ [Next]_vars => Asked'
  <2> SUFFICES ASSUME Safe, Asked, [Next]_vars PROVE Asked'
    OBVIOUS
  <2>1. CASE UNCHANGED vars
    BY <2>1 DEF Asked, vars, shared, locals
  <2>2. CASE Next
    <3>1. PICK t \in Thread : Step(t)
      BY <2>2 DEF Next, Step
    <3> QED BY <3>1, AskedStep
  <2> QED BY <2>1, <2>2
<1> QED BY <1>1, <1>2, SafeAlways, PTL DEF Spec

\* As long as nothing was taken from under it, what peek and read_all have read is the
\* front of the queue, although the check of a slot's commit status and the load of the
\* slot are two steps; to the only producer all it reads is what it pushed, by iter too,
\* whatever the consumers do meanwhile.
THEOREM WhatIsReadIsTheFront == Disciplined /\ Iterable => (Spec => []SnapshotIsPrefix)
<1> SUFFICES ASSUME Disciplined, Iterable PROVE Spec => []SnapshotIsPrefix
  OBVIOUS
<1>1. Views => SnapshotIsPrefix
  <2> SUFFICES ASSUME Views, NEW t \in Observers \cup Accessors,
                      (t \in Observers /\ rd[t] = readIdx) \/ Producers = {t},
                      NEW k \in 1 .. Len(seen[t])
               PROVE  rd[t] + k <= writeIdx /\ IdOf(seen[t][k]) = Elem(rd[t] + k - 1)
    BY DEF SnapshotIsPrefix
  <2>1. t \in Thread /\ Undisturbed(t)
    BY DEF Thread, Undisturbed
  <2> QED BY <2>1 DEF Views
<1> QED BY <1>1, ViewsAlways, PTL

\* len, is_empty and is_full, which load the two indices one after the other, never
\* promise the only producer room that is not there; nor do they, in a rejecting buffer
\* that nobody else clears, promise the only consumer an element that is not.
THEOREM AnswersAreSafe ==
    Disciplined /\ (Overwrite \/ Rejecting) => (Spec => []QueriesAreSafe)
<1> SUFFICES ASSUME Disciplined, Overwrite \/ Rejecting PROVE Spec => []QueriesAreSafe
  OBVIOUS
<1>1. Safe /\ (Rejecting => Asked) => QueriesAreSafe
  <2> SUFFICES ASSUME Safe, Rejecting => Asked, NEW t \in Queriers, pc[t] = "queried"
               PROVE  /\ Producers = {t} =>
                           /\ RangeLen(t) >= writeIdx - readIdx
                           /\ ~IsFull(t) => writeIdx - readIdx < Capacity
                      /\ Consumers = {t} /\ ~Overwrite =>
                           /\ RangeLen(t) <= writeIdx - readIdx
                           /\ ~IsEmpty(t) => writeIdx - readIdx > 0
    BY DEF QueriesAreSafe
  <2>1. /\ t \in Thread
        /\ writeIdx \in 0 .. MaxPush /\ readIdx \in 0 .. MaxPush /\ readIdx <= writeIdx
        /\ rd[t] \in 0 .. MaxPush /\ wr[t] \in 0 .. MaxPush
        /\ rd[t] <= readIdx /\ wr[t] <= writeIdx
        /\ MaxPush \in Nat /\ Capacity \in Nat \ {0}
    BY Ranges DEF Safe, Window, Thread
  <2>2. ASSUME rd[t] <= wr[t]
        PROVE  /\ WrapSub(wr[t], rd[t]) = wr[t] - rd[t]
               /\ LapApart(wr[t], rd[t]) <=> rd[t] + Capacity <= wr[t]
    BY <2>1, <2>2, NoWrap
  <2>3. ASSUME Producers = {t}
        PROVE  /\ RangeLen(t) >= writeIdx - readIdx
               /\ ~IsFull(t) => writeIdx - readIdx < Capacity
    <3>1. wr[t] = writeIdx /\ rd[t] <= wr[t]
      BY <2>1, <2>3 DEF Safe, SoleView
    <3>2. ~Excess
      BY <2>1, <2>3, NoExcess DEF Safe
    <3>3. writeIdx <= readIdx + Capacity
      BY <3>2 DEF Safe, Window
    <3>4. RangeLen(t) >= writeIdx - readIdx
      <4>1. RangeLen(t) = IF wr[t] - rd[t] < Capacity THEN wr[t] - rd[t] ELSE Capacity
        BY <2>2, <3>1 DEF RangeLen
      <4> QED BY <2>1, <3>1, <3>3, <4>1
    <3>5. ~IsFull(t) => writeIdx - readIdx < Capacity
      BY <2>1, <2>2, <3>1 DEF IsFull
    <3> QED BY <3>4, <3>5
  <2>4. ASSUME Consumers = {t}, ~Overwrite
        PROVE  /\ RangeLen(t) <= writeIdx - readIdx
               /\ ~IsEmpty(t) => writeIdx - readIdx > 0
    <3>1. rd[t] = readIdx /\ rd[t] <= wr[t]
      BY <2>1, <2>4 DEF Asked
    <3>2. RangeLen(t) = IF wr[t] - rd[t] < Capacity THEN wr[t] - rd[t] ELSE Capacity
      BY <2>2, <3>1 DEF RangeLen
    <3>3. RangeLen(t) <= writeIdx - readIdx
      BY <2>1, <3>1, <3>2
    <3>4. ~IsEmpty(t) => writeIdx - readIdx > 0
      BY <2>1, <3>1 DEF IsEmpty
    <3> QED BY <3>3, <3>4
  <2> QED BY <2>3, <2>4
<1>2. CASE Rejecting
  BY <1>1, <1>2, SafeAlways, AskedAlways, PTL
<1>3. CASE ~Rejecting
  BY <1>1, <1>3, SafeAlways, PTL
<1> QED BY <1>2, <1>3

\* The only consumer of a rejecting buffer finds every element whose push has returned,
\* unless one whose push has not lies before it: the commit status it checks is that of
\* the head although it loaded read_idx a step before, and a slot between the indices is
\* committed to its index or the push that reserved it is not over.
THEOREM NoPushIsMissed == Disciplined /\ (Overwrite \/ Rejecting) => (Spec => NoneIsHonest)
<1> SUFFICES ASSUME Disciplined, Overwrite \/ Rejecting PROVE Spec => NoneIsHonest
  OBVIOUS
<1> DEFINE Honest ==
      \A t \in Thread :
          Consumers = {t} /\ ~Overwrite /\ pc[t] = "pop_commit" /\ pc'[t] = "idle" =>
              \/ readIdx = writeIdx
              \/ readIdx \in abandoned
              \/ \E u \in Producers :
                    pc[u] \in {"push_store", "push_commit"} /\ wr[u] = readIdx
<1>1. Safe /\ (Rejecting => Asked) /\ [Next]_vars => [Honest]_vars
  <2> SUFFICES ASSUME Safe, Rejecting => Asked, Next,
                      NEW u \in Thread, Consumers = {u}, ~Overwrite,
                      pc[u] = "pop_commit", pc'[u] = "idle",
                      readIdx # writeIdx, readIdx \notin abandoned
               PROVE  \E p \in Producers :
                          pc[p] \in {"push_store", "push_commit"} /\ wr[p] = readIdx
    BY DEF Honest
  <2>1. PICK t \in Thread : Step(t)
    BY DEF Next, Step
  <2>2. LocalTypes /\ Roles /\ Window
    BY DEF Safe, Basics, TypeOK
  <2>3. u = t
    BY <2>1, <2>2, OthersKeepLocals
  <2>4. PopLoadCommit(u)
    BY <2>1, <2>3, Departures
  <2>5. NotCommitted(u)
    <3> SUFFICES ASSUME ~NotCommitted(u) PROVE FALSE
      OBVIOUS
    <3>1. Goto(u, "pop_load")
      BY <2>4 DEF PopLoadCommit
    <3> QED BY <2>2, <3>1 DEF Goto, LocalTypes
  <2>6. rd[u] = readIdx
    BY DEF Asked
  <2>7. readIdx \in Current
    BY <2>2, Ranges DEF Safe, Window, Current
  <2>8. Pending(readIdx)
    BY <2>5, <2>6, <2>7 DEF NotCommitted, Safe, Statuses
  <2>9. PICK p \in Thread : pc[p] \in Reserved /\ wr[p] = readIdx
    BY <2>8 DEF Pending
  <2>10. p \in Producers /\ pc[p] \in {"push_store", "push_commit"}
    BY <2>2, <2>9 DEF Roles, Pushing, Reserved
  <2> QED BY <2>9, <2>10
<1>2. CASE Rejecting
  BY <1>1, <1>2, SafeAlways, AskedAlways, PTL DEF Spec, NoneIsHonest
<1>3. CASE ~Rejecting
  BY <1>1, <1>3, SafeAlways, PTL DEF Spec, NoneIsHonest
<1> QED BY <1>2, <1>3

-----------------------------------------------------------------------------
(* Err of a push *)

\* What the only producer has loaded of a buffer that it may yet find full
Refused ==
    \A t \in Thread : Producers = {t} =>
        (pc[t] = "push_write" /\ rd[t] + Capacity <= writeIdx => wasFull[t])

LEMMA RefusedStep ==
    ASSUME Disciplined, Safe, Refused, FullNext
    PROVE  Refused'
<1>1. PICK t \in Thread : Step(t)
  BY DEF FullNext, Next, Step
<1>2. /\ Basics /\ LocalTypes
      /\ readIdx' \in Int /\ writeIdx' \in Int /\ Capacity \in Nat
      /\ \A u \in Thread : rd'[u] \in Int
  <2>1. Basics'
    BY BasicsStep DEF Safe, FullNext
  <2> QED BY <2>1, RingIndexAssumption
          DEF Safe, Basics, TypeOK, SharedTypes, LocalTypes, Index
<1> SUFFICES ASSUME NEW u \in Thread, Producers = {u}, pc'[u] = "push_write",
                    rd'[u] + Capacity <= writeIdx'
             PROVE  wasFull'[u]
  BY DEF Refused
<1>3. /\ wasFull[u] => wasFull'[u]
      /\ writeIdx' - readIdx' >= Capacity => wasFull'[u]
  BY DEF FullNext
<1>4. CASE u = t
  <2>1. PushLoadRead(u)
    BY <1>1, <1>2, <1>4, Arrivals
  <2>2. rd'[u] = readIdx'
    BY <1>2, <2>1 DEF PushLoadRead, LoadReadIdx, LocalTypes, shared
  <2>3. \A r, w, c \in Int : r + c <= w => w - r >= c
    OBVIOUS
  <2>4. writeIdx' - readIdx' >= Capacity
    <3>1. readIdx' \in Int /\ writeIdx' \in Int /\ Capacity \in Int
      BY <1>2
    <3>2. readIdx' + Capacity <= writeIdx'
      BY <2>2
    <3> QED BY <2>3, <3>1, <3>2
  <2> QED BY <1>3, <2>4
<1>5. CASE u # t
  <2>1. pc'[u] = pc[u] /\ rd'[u] = rd[u]
    BY <1>1, <1>2, <1>5, OthersKeepLocals
  <2>2. ~Reserves(t)
    <3>1. ~PushReserve(t)
      BY <1>5 DEF PushReserve, Safe, Roles, Pushing, Unreserved
    <3>2. ~OverwriteReserve(t)
      BY <1>5 DEF OverwriteReserve, Safe, Roles, Pushing, Unreserved
    <3> QED BY <3>1, <3>2 DEF Reserves
  <2>3. writeIdx' = writeIdx
    BY <1>1, <2>2, Frames
  <2> QED BY <1>3, <2>1, <2>3 DEF Refused
<1> QED BY <1>4, <1>5

\* The only producer, which loads read_idx first and write_idx then, is told Err only if
\* there was no free slot at some moment of its call, whatever consumers free meanwhile.
\* With a second producer the index loaded first may be more than a lap behind.
THEOREM ErrIsForWantOfRoom ==
    Disciplined /\ (\A t, u \in Producers : t = u) => (FullSpec => ErrMeansFull)
<1> SUFFICES ASSUME Disciplined, \A t, u \in Producers : t = u
             PROVE  FullSpec => ErrMeansFull
  OBVIOUS
<1> DEFINE Honest ==
      \A t \in Producers : pc[t] = "push_write" /\ pc'[t] = "idle" => wasFull[t]
<1>1. FullInit => Init /\ Refused
  BY DEF FullInit, Init, Refused
<1>2. [FullNext]_<<vars, wasFull>> => [Next]_vars
  BY DEF FullNext
<1>3. Safe /\ Refused /\ [FullNext]_<<vars, wasFull>> => Refused'
  <2>1. CASE UNCHANGED <<vars, wasFull>>
    BY <2>1 DEF Refused, vars, shared, locals
  <2>2. CASE FullNext
    BY <2>2, RefusedStep
  <2> QED BY <2>1, <2>2
<1>4. Safe /\ Refused /\ [FullNext]_<<vars, wasFull>> => [Honest]_<<vars, wasFull>>
  <2> SUFFICES ASSUME Safe, Refused, FullNext, NEW u \in Producers,
                      pc[u] = "push_write", pc'[u] = "idle"
               PROVE  wasFull[u]
    BY DEF Honest
  <2>1. u \in Thread /\ Producers = {u}
    BY DEF Thread
  <2>2. PICK t \in Thread : Step(t)
    BY DEF FullNext, Next, Step
  <2>3. LocalTypes /\ Basics /\ Window
    BY DEF Safe, Basics, TypeOK
  <2>4. u = t
    BY <2>1, <2>2, <2>3, OthersKeepLocals
  <2>5. PushLoadWrite(u)
    BY <2>2, <2>4, Departures
  <2>6. LapApart(writeIdx, rd[u])
    <3> SUFFICES ASSUME ~LapApart(writeIdx, rd[u]) PROVE FALSE
      OBVIOUS
    <3>1. Goto(u, "push_reserve")
      BY <2>5 DEF PushLoadWrite
    <3> QED BY <2>1, <2>3, <3>1 DEF Goto, LocalTypes
  <2>7. rd[u] + Capacity <= writeIdx
    <3>1. /\ rd[u] \in 0 .. MaxPush /\ writeIdx \in 0 .. MaxPush
          /\ MaxPush \in Nat /\ rd[u] <= writeIdx
      BY <2>1, <2>3, Ranges DEF Window
    <3> QED BY <2>6, <3>1, NoWrap
  <2> QED BY <2>1, <2>7 DEF Refused
<1>5. Safe /\ [Next]_vars => Safe'
  BY SafeStep
<1> QED BY <1>1, <1>2, <1>3, <1>4, <1>5, SafeInit, PTL DEF FullSpec, ErrMeansFull
=============================================================================
