----------------------------- MODULE AtomicRing -----------------------------
(***************************************************************************)
(* The ring buffer of atomics (src/atomic.rs), shared by any number of     *)
(* threads through &self.  Every atomic access is one step and threads     *)
(* interleave between them.  A thread's position in a call is pc[t], its   *)
(* local variables rd, wr, val and tmp; they are reset when it returns.    *)
(*                                                                         *)
(* Memory order.  The accesses to the indices and to the commit status     *)
(* order each other, with two exceptions, unless the store or swap of the  *)
(* slot releases and the load of it in pop acquires (Unordered).  The swap *)
(* of an overwriting push and the compare_exchange on read_idx before it,  *)
(* whose failure is Relaxed, may take effect in either order: this the     *)
(* model has.  So may the store of read_idx by clear and the later stores  *)
(* to slots by the same thread: this it has not, and ClearIsOrdered leaves *)
(* out the instances in which it could happen.                             *)
(*                                                                         *)
(* Every push is given a value of its own, the number of the call, below   *)
(* Unit.  fetch_add_at adds multiples of Unit, so IdOf(v) tells the push a *)
(* value comes from.  The ghost variables say what became of it: log is    *)
(* the order in which the slots were reserved (log[i + 1] belongs to index *)
(* i), delivered what pop returned, in the order in which read_idx moved,  *)
(* handed how often a value was given to a caller, by pop or as the        *)
(* element an overwriting push returns, cleared the values a clear         *)
(* skipped, abandoned the indices whose push panicked, added what was      *)
(* added to each value.                                                    *)
(***************************************************************************)
EXTENDS RingIndex, AtomicElement, Sequences, FiniteSets

CONSTANTS Producers,   \* the threads that call push
          Consumers,   \* the threads that call pop
          Clearers,    \* the threads that call clear
          Observers,   \* the threads that call peek or read_all
          Queriers,    \* the threads that call len, is_empty or is_full
          Accessors,   \* the threads that call iter, fetch_add_at or fetch_sub_at
          Overwrite,   \* the OVERWRITE parameter of the type
          PushOrders,  \* the orderings push is called with
          LoadOrders,  \* the orderings pop, peek and read_all are called with
          Fresh,       \* what a slot may hold before the first push to it
          MaxPush,     \* bound: the number of push calls
          MaxAdd,      \* bound: the number of calls of fetch_add_at, fetch_sub_at
          Never        \* usize::MAX, the commit status before the first push

Thread == Producers \cup Consumers \cup Clearers \cup Observers \cup Queriers \cup Accessors
PushId == 1 .. MaxPush
Unit   == MaxPush + 1

\* Indices count pushes and must not wrap within the bound, or a thread could
\* sleep through a whole lap of the index (2^64 operations).
ASSUME AtomicAssumption ==
    /\ Overwrite \in BOOLEAN
    /\ PushOrders \subseteq Order /\ LoadOrders \subseteq Order
    /\ MaxPush \in Nat /\ MaxPush + Capacity < Modulus
    /\ MaxAdd \in Nat
    /\ Width >= Unit /\ Width % Unit = 0
    /\ Fresh \subseteq Value
    /\ Never \notin Index

VARIABLES
    writeIdx, readIdx,   \* core.write_idx, core.read_idx
    slot,                \* the atomic elements
    commit,              \* commit_status
    pc,                  \* the next atomic access of a thread's call, or idle
    rd, wr,              \* its `read` and `write`, of whatever call it is in
    val,                 \* the value it pushes
    tmp,                 \* the element it has read: `value`, `old_value`
    over,                \* `overwritten`
    seen,                \* `values` of read_all, or what iter has shown
    calls, adds,         \* ghost: how many calls were made
    log, delivered, handed, cleared, abandoned, added

shared == <<writeIdx, readIdx, slot, commit>>
locals == <<pc, rd, wr, val, tmp, over, seen>>
ghosts == <<calls, adds, log, delivered, handed, cleared, abandoned, added>>
vars   == <<shared, locals, ghosts>>

-----------------------------------------------------------------------------
(* The steps of a call *)

\* Thread t goes on with its call at `label`.
Goto(t, label) == pc' = [pc EXCEPT ![t] = label]

\* The call of t returns, and its locals are gone.
Return(t) ==
    /\ pc' = [pc EXCEPT ![t] = "idle"]
    /\ rd' = [rd EXCEPT ![t] = 0]
    /\ wr' = [wr EXCEPT ![t] = 0]
    /\ val' = [val EXCEPT ![t] = 0]
    /\ tmp' = [tmp EXCEPT ![t] = 0]
    /\ over' = [over EXCEPT ![t] = FALSE]
    /\ seen' = [seen EXCEPT ![t] = << >>]

LoadReadIdx(t)  == rd' = [rd EXCEPT ![t] = readIdx]
LoadWriteIdx(t) == wr' = [wr EXCEPT ![t] = writeIdx]

AdvanceAlways(t) == readIdx' = WrapAdd(rd[t], 1)   \* mutation: store for CAS

\* A successful read_idx.compare_exchange(read, read.wrapping_add(1))
AdvanceReadIdx(t) ==
    /\ readIdx = rd[t]
    /\ readIdx' = WrapAdd(rd[t], 1)

FullOffByOne(w, r) == WrapSub(w, r) > Capacity     \* mutation: > for >=

\* write.wrapping_sub(read) >= capacity()
LapApart(w, r) == WrapSub(w, r) >= Capacity

CommitSlot(t) == SlotOf(wr[t])                     \* mutation: index for write

\* What a push stores in commit_status[index]
CommitMark(t) == wr[t]

\* get_commit_status and the core's peek_at, for an index that is masked first
CommitStatus(i) == commit[SlotOf(i)]
PeekAt(i)       == slot[SlotOf(i)]

\* The push that a value comes from, 0 if it comes from none
IdOf(v) == v % Unit

\* v is given to the caller of a pop or a push.
Hand(v) == handed' = [handed EXCEPT ![IdOf(v)] = @ + 1]

-----------------------------------------------------------------------------
(* push *)

PushCall(t) ==
    /\ t \in Producers /\ pc[t] = "idle"
    /\ calls < MaxPush
    /\ calls' = calls + 1
    /\ val' = [val EXCEPT ![t] = calls']
    /\ Goto(t, IF Overwrite THEN "ow_reserve" ELSE "push_read")
    /\ UNCHANGED <<shared, rd, wr, tmp, over, seen,
                   adds, log, delivered, handed, cleared, abandoned, added>>

(* OVERWRITE = false *)

PushLoadRead(t) ==
    /\ pc[t] = "push_read"
    /\ LoadReadIdx(t)
    /\ Goto(t, "push_write")
    /\ UNCHANGED <<shared, wr, val, tmp, over, seen, ghosts>>

\* The second load, and Err(value) when the two indices are a lap apart.
PushLoadWrite(t) ==
    /\ pc[t] = "push_write"
    /\ \/ /\ LapApart(writeIdx, rd[t])
          /\ Return(t)
       \/ /\ ~LapApart(writeIdx, rd[t])
          /\ LoadWriteIdx(t)
          /\ Goto(t, "push_reserve")
          /\ UNCHANGED <<rd, val, tmp, over, seen>>
    /\ UNCHANGED <<shared, ghosts>>

PushReserveNoCas(t) ==                             \* mutation: store for CAS
    /\ pc[t] = "push_reserve"
    /\ writeIdx' = WrapAdd(wr[t], 1)
    /\ log' = Append(log, val[t])
    /\ Goto(t, "push_store")
    /\ UNCHANGED <<readIdx, slot, commit, rd, wr, val, tmp, over, seen,
                   calls, adds, delivered, handed, cleared, abandoned, added>>

\* write_idx.compare_exchange_weak succeeds: the slot of wr[t] is reserved.
PushReserve(t) ==
    /\ pc[t] = "push_reserve"
    /\ writeIdx = wr[t]
    /\ writeIdx' = WrapAdd(wr[t], 1)
    /\ log' = Append(log, val[t])
    /\ Goto(t, "push_store")
    /\ UNCHANGED <<readIdx, slot, commit, rd, wr, val, tmp, over, seen,
                   calls, adds, delivered, handed, cleared, abandoned, added>>

\* It fails, which the weak form may do for no reason: backoff and start again.
PushRetry(t) ==
    /\ pc[t] = "push_reserve"
    /\ Goto(t, "push_read")
    /\ rd' = [rd EXCEPT ![t] = 0]
    /\ wr' = [wr EXCEPT ![t] = 0]
    /\ UNCHANGED <<shared, val, tmp, over, seen, ghosts>>

\* slot.store(value, order)
PushStoreSlot(t) ==
    /\ pc[t] = "push_store"
    /\ \E o \in PushOrders : ~StorePanics(o)
    /\ slot' = [slot EXCEPT ![SlotOf(wr[t])] = val[t]]
    /\ Goto(t, "push_commit")
    /\ UNCHANGED <<writeIdx, readIdx, commit, rd, wr, val, tmp, over, seen, ghosts>>

\* The store panics because of its ordering, and the slot is never committed.
PushPanics(t) ==
    /\ pc[t] = "push_store"
    /\ \E o \in PushOrders : StorePanics(o)
    /\ abandoned' = abandoned \cup {wr[t]}
    /\ Return(t)
    /\ UNCHANGED <<shared, calls, adds, log, delivered, handed, cleared, added>>

\* commit_status[index].store(write).  The push returns Ok(()), or Some(old_value)
\* if it overwrote an element, or None.
PushCommit(t) ==
    /\ pc[t] = "push_commit"
    /\ commit' = [commit EXCEPT ![SlotOf(wr[t])] = CommitMark(t)]
    /\ IF over[t] THEN Hand(tmp[t]) ELSE UNCHANGED handed
    /\ Return(t)
    /\ UNCHANGED <<writeIdx, readIdx, slot,
                   calls, adds, log, delivered, cleared, abandoned, added>>

(* OVERWRITE = true *)

\* write_idx.fetch_add(1): the slot is reserved whether or not there is room.
OverwriteReserve(t) ==
    /\ pc[t] = "ow_reserve"
    /\ LoadWriteIdx(t)
    /\ writeIdx' = WrapAdd(writeIdx, 1)
    /\ log' = Append(log, val[t])
    /\ Goto(t, "ow_read")
    /\ UNCHANGED <<readIdx, slot, commit, rd, val, tmp, over, seen,
                   calls, adds, delivered, handed, cleared, abandoned, added>>

OverwriteLoadRead(t) ==
    /\ pc[t] = "ow_read"
    /\ LoadReadIdx(t)
    /\ Goto(t, IF LapApart(wr[t], readIdx) THEN "ow_advance" ELSE "ow_swap")
    /\ UNCHANGED <<shared, wr, val, tmp, over, seen, ghosts>>

\* Nothing orders the swap or store of a slot after what its thread has done to read_idx:
\* it does not release, or the pop that meets it does not acquire.
Unordered ==
    \E p \in PushOrders, l \in LoadOrders :
        ~LoadPanics(l) /\ ~(Releases(p) /\ Acquires(l))

\* ClearStoreRead takes effect before whatever its thread does next.  Of a producer
\* that is so only if its next slot.store is ordered after read_idx.store: or else a pop
\* may load the new element, and win read_idx as if there had been no clear.
ASSUME ClearIsOrdered == Clearers \cap Producers = {} \/ ~Unordered

LoserOverwrites(t) ==     \* mutation: overwritten, whoever won the compare_exchange
    /\ pc[t] \in {"ow_advance", "ow_late"}
    /\ AdvanceReadIdx(t) \/ (readIdx # rd[t] /\ UNCHANGED readIdx)
    /\ over' = [over EXCEPT ![t] = TRUE]
    /\ Goto(t, IF pc[t] = "ow_late" THEN "push_commit" ELSE "ow_swap")
    /\ UNCHANGED <<writeIdx, slot, commit, rd, wr, val, tmp, seen, ghosts>>

\* The buffer was full: try to move read_idx past the oldest element.  At "ow_late"
\* the swap has overtaken this access.
OverwriteAdvance(t) ==
    /\ pc[t] \in {"ow_advance", "ow_late"}
    /\ \/ AdvanceReadIdx(t) /\ over' = [over EXCEPT ![t] = TRUE]
       \/ readIdx # rd[t] /\ UNCHANGED <<readIdx, over>>
    /\ Goto(t, IF pc[t] = "ow_late" THEN "push_commit" ELSE "ow_swap")
    /\ UNCHANGED <<writeIdx, slot, commit, rd, wr, val, tmp, seen, ghosts>>

\* slot.swap(value, order)
OverwriteSwap(t) ==
    /\ pc[t] \in (IF Unordered THEN {"ow_swap", "ow_advance"} ELSE {"ow_swap"})
    /\ tmp' = [tmp EXCEPT ![t] = PeekAt(wr[t])]
    /\ slot' = [slot EXCEPT ![SlotOf(wr[t])] = val[t]]
    /\ Goto(t, IF pc[t] = "ow_advance" THEN "ow_late" ELSE "push_commit")
    /\ UNCHANGED <<writeIdx, readIdx, commit, rd, wr, val, over, seen, ghosts>>

-----------------------------------------------------------------------------
(* pop *)

\* The call, or the next turn of its loop, loads read_idx.
PopLoadRead(t) ==
    /\ \/ t \in Consumers /\ pc[t] = "idle"
       \/ pc[t] = "pop_read"
    /\ LoadReadIdx(t)
    /\ Goto(t, "pop_commit")
    /\ UNCHANGED <<shared, wr, val, tmp, over, seen, ghosts>>

AnyCommitted(t) == CommitStatus(rd[t]) = Never   \* mutation: some lap's commit
MaskedCommit(t) == CommitStatus(rd[t]) # SlotOf(rd[t])   \* mutation: index for read

\* The slot of rd[t] does not hold the element of that index (yet).
NotCommitted(t) == CommitStatus(rd[t]) # rd[t]

\* None when the head is not committed
PopLoadCommit(t) ==
    /\ pc[t] = "pop_commit"
    /\ \/ NotCommitted(t) /\ Return(t)
       \/ ~NotCommitted(t) /\ Goto(t, "pop_load") /\ UNCHANGED <<rd, wr, val, tmp, over, seen>>
    /\ UNCHANGED <<shared, ghosts>>

\* slot.load(order)
PopLoadSlot(t) ==
    /\ pc[t] = "pop_load"
    /\ \E o \in LoadOrders : ~LoadPanics(o)
    /\ tmp' = [tmp EXCEPT ![t] = PeekAt(rd[t])]
    /\ Goto(t, "pop_cas")
    /\ UNCHANGED <<shared, rd, wr, val, over, seen, ghosts>>

\* read_idx is advanced: Some(value).
PopTake(t) ==
    /\ pc[t] = "pop_cas"
    /\ AdvanceReadIdx(t)
    /\ delivered' = Append(delivered, IdOf(tmp[t]))
    /\ Hand(tmp[t])
    /\ Return(t)
    /\ UNCHANGED <<writeIdx, slot, commit, calls, adds, log, cleared, abandoned, added>>

\* Another thread moved it: backoff and start again.
PopRetry(t) ==
    /\ pc[t] = "pop_cas"
    /\ readIdx # rd[t]
    /\ Goto(t, "pop_read")
    /\ rd' = [rd EXCEPT ![t] = 0]
    /\ tmp' = [tmp EXCEPT ![t] = 0]
    /\ UNCHANGED <<shared, wr, val, over, seen, ghosts>>

-----------------------------------------------------------------------------
(* clear *)

ClearLoadWrite(t) ==
    /\ t \in Clearers /\ pc[t] = "idle"
    /\ LoadWriteIdx(t)
    /\ Goto(t, "clear_store")
    /\ UNCHANGED <<shared, rd, val, tmp, over, seen, ghosts>>

\* read_idx.store(write): what lies between is cleared.
ClearStoreRead(t) ==
    /\ pc[t] = "clear_store"
    /\ readIdx' = wr[t]
    /\ cleared' = cleared \cup {log[i + 1] : i \in readIdx .. wr[t] - 1}
    /\ Return(t)
    /\ UNCHANGED <<writeIdx, slot, commit,
                   calls, adds, log, delivered, handed, abandoned, added>>

-----------------------------------------------------------------------------
(* peek, read_all and iter.  They end at label "observed", with what they return in seen. *)

PeekLoadRead(t) ==
    /\ t \in Observers /\ pc[t] = "idle"
    /\ LoadReadIdx(t)
    /\ Goto(t, "peek_commit")
    /\ UNCHANGED <<shared, wr, val, tmp, over, seen, ghosts>>

PeekLoadCommit(t) ==
    /\ pc[t] = "peek_commit"
    /\ Goto(t, IF NotCommitted(t) THEN "observed" ELSE "peek_load")
    /\ UNCHANGED <<shared, rd, wr, val, tmp, over, seen, ghosts>>

PeekLoadSlot(t) ==
    /\ pc[t] = "peek_load"
    /\ \E o \in LoadOrders : ~LoadPanics(o)
    /\ seen' = [seen EXCEPT ![t] = <<PeekAt(rd[t])>>]
    /\ Goto(t, "observed")
    /\ UNCHANGED <<shared, rd, wr, val, tmp, over, ghosts>>

\* read_all and iter begin in the same way.
RangeLoadRead(t) ==
    /\ t \in Observers \cup Accessors /\ pc[t] = "idle"
    /\ LoadReadIdx(t)
    /\ Goto(t, "range_write")
    /\ UNCHANGED <<shared, wr, val, tmp, over, seen, ghosts>>

RangeLoadWrite(t) ==
    /\ pc[t] = "range_write"
    /\ LoadWriteIdx(t)
    /\ \/ t \in Observers /\ Goto(t, "all_commit")
       \/ t \in Accessors /\ Goto(t, "iter_next")
    /\ UNCHANGED <<shared, rd, val, tmp, over, seen, ghosts>>

RangeReversed(t) ==                                \* mutation: operands swapped
    LET n == WrapSub(rd[t], wr[t]) IN IF n < Capacity THEN n ELSE Capacity

\* write.wrapping_sub(read).min(capacity())
RangeLen(t) ==
    LET n == WrapSub(wr[t], rd[t]) IN IF n < Capacity THEN n ELSE Capacity

\* The index that a loop over the range has come to
CurrIdx(t) == WrapAdd(rd[t], Len(seen[t]))

AllLoadCommit(t) ==
    /\ pc[t] = "all_commit"
    /\ IF Len(seen[t]) < RangeLen(t) /\ CommitStatus(CurrIdx(t)) = CurrIdx(t)
       THEN Goto(t, "all_load") ELSE Goto(t, "observed")
    /\ UNCHANGED <<shared, rd, wr, val, tmp, over, seen, ghosts>>

\* One turn of the loop is done: the element of CurrIdx is in the result.
Show(t) == seen' = [seen EXCEPT ![t] = Append(@, PeekAt(CurrIdx(t)))]

AllLoadSlot(t) ==
    /\ pc[t] = "all_load"
    /\ \E o \in LoadOrders : ~LoadPanics(o)
    /\ Show(t)
    /\ Goto(t, "all_commit")
    /\ UNCHANGED <<shared, rd, wr, val, tmp, over, ghosts>>

\* AtomicIter::next, which does not look at the commit status, and the caller's load
IterNext(t) ==
    /\ pc[t] = "iter_next"
    /\ IF Len(seen[t]) < RangeLen(t)
       THEN Show(t) /\ UNCHANGED pc
       ELSE Goto(t, "observed") /\ UNCHANGED seen
    /\ UNCHANGED <<shared, rd, wr, val, tmp, over, ghosts>>

\* The load of the slot in pop, peek or read_all panics because of its ordering.
LoadPanic(t) ==
    /\ pc[t] \in {"pop_load", "peek_load", "all_load"}
    /\ \E o \in LoadOrders : LoadPanics(o)
    /\ Return(t)
    /\ UNCHANGED <<shared, ghosts>>

-----------------------------------------------------------------------------
(* len, is_empty and is_full answer from wr and rd, once at label "queried". *)

QueryLoadWrite(t) ==
    /\ t \in Queriers /\ pc[t] = "idle"
    /\ LoadWriteIdx(t)
    /\ Goto(t, "query_read")
    /\ UNCHANGED <<shared, rd, val, tmp, over, seen, ghosts>>

QueryLoadRead(t) ==
    /\ pc[t] = "query_read"
    /\ LoadReadIdx(t)
    /\ Goto(t, "queried")
    /\ UNCHANGED <<shared, wr, val, tmp, over, seen, ghosts>>

IsEmpty(t) == wr[t] = rd[t]
IsFull(t)  == LapApart(wr[t], rd[t])

CallReturn(t) ==
    /\ pc[t] \in {"observed", "queried"}
    /\ Return(t)
    /\ UNCHANGED <<shared, ghosts>>

-----------------------------------------------------------------------------
(* fetch_add_at and fetch_sub_at *)

OffsetFromStart(i, n) == n               \* mutation: the offset is not from read_idx

\* The index that get_unchecked(offset) masks: read.wrapping_add(offset)
OffsetFrom(i, n) == WrapAdd(i, n)

\* The caller makes sure that the offset, kept in wr, is below len().
EditCheck(t) ==
    /\ t \in Accessors /\ pc[t] = "idle"
    /\ adds < MaxAdd
    /\ adds' = adds + 1
    /\ \E offset \in 0 .. Capacity - 1 :
         /\ offset < WrapSub(writeIdx, readIdx)
         /\ wr' = [wr EXCEPT ![t] = offset]
    /\ Goto(t, "edit_read")
    /\ UNCHANGED <<shared, rd, val, tmp, over, seen,
                   calls, log, delivered, handed, cleared, abandoned, added>>

\* get_unchecked, of a buffer that pops may have shortened meanwhile
EditLoadRead(t) ==
    /\ pc[t] = "edit_read"
    /\ LoadReadIdx(t)
    /\ Goto(t, "edit")
    /\ UNCHANGED <<shared, wr, val, tmp, over, seen, ghosts>>

\* n is added to the element of index i, or to none if the index is not reserved.
Credit(i, n) ==
    added' = IF i < writeIdx THEN [added EXCEPT ![log[i + 1]] = @ + n] ELSE added

\* The element is changed; `added` says to which push's element it was meant to happen.
EditElement(t) ==
    /\ pc[t] = "edit"
    /\ LET k == SlotOf(OffsetFrom(rd[t], wr[t]))
       IN  \/ /\ slot' = [slot EXCEPT ![k] = FetchAdd(@, Unit)]
              /\ Credit(rd[t] + wr[t], 1)
           \/ /\ slot' = [slot EXCEPT ![k] = FetchSub(@, Unit)]
              /\ Credit(rd[t] + wr[t], -1)
    /\ Return(t)
    /\ UNCHANGED <<writeIdx, readIdx, commit,
                   calls, adds, log, delivered, handed, cleared, abandoned>>

-----------------------------------------------------------------------------
\* new(capacity) and new_uninit(capacity): usize::MAX in every commit status, and in
\* the slots T::default(), or whatever was there.
Init ==
    /\ writeIdx = 0 /\ readIdx = 0
    /\ \E v \in Fresh : slot = [k \in Slot |-> v]
    /\ commit = [k \in Slot |-> Never]
    /\ pc = [t \in Thread |-> "idle"]
    /\ rd = [t \in Thread |-> 0]
    /\ wr = [t \in Thread |-> 0]
    /\ val = [t \in Thread |-> 0]
    /\ tmp = [t \in Thread |-> 0]
    /\ over = [t \in Thread |-> FALSE]
    /\ seen = [t \in Thread |-> << >>]
    /\ calls = 0 /\ adds = 0 /\ log = << >> /\ delivered = << >>
    /\ handed = [v \in {0} \cup PushId |-> 0]
    /\ cleared = {} /\ abandoned = {}
    /\ added = [v \in PushId |-> 0]

PushStep(t) ==
    \/ PushLoadRead(t)
    \/ PushLoadWrite(t)
    \/ PushReserve(t)
    \/ PushRetry(t)
    \/ PushStoreSlot(t)
    \/ PushPanics(t)
    \/ PushCommit(t)
    \/ OverwriteReserve(t)
    \/ OverwriteLoadRead(t)
    \/ OverwriteAdvance(t)
    \/ OverwriteSwap(t)

PopStep(t) ==
    \/ PopLoadRead(t)
    \/ PopLoadCommit(t)
    \/ PopLoadSlot(t)
    \/ PopTake(t)
    \/ PopRetry(t)

ClearStep(t) == ClearLoadWrite(t) \/ ClearStoreRead(t)

ObserverStep(t) ==
    \/ PeekLoadRead(t)
    \/ PeekLoadCommit(t)
    \/ PeekLoadSlot(t)
    \/ RangeLoadRead(t)
    \/ RangeLoadWrite(t)
    \/ AllLoadCommit(t)
    \/ AllLoadSlot(t)
    \/ IterNext(t)
    \/ LoadPanic(t)
    \/ QueryLoadWrite(t)
    \/ QueryLoadRead(t)
    \/ CallReturn(t)

EditStep(t) == EditCheck(t) \/ EditLoadRead(t) \/ EditElement(t)

Next == \E t \in Thread :
    \/ PushCall(t)
    \/ PushStep(t)
    \/ PopStep(t)
    \/ ClearStep(t)
    \/ ObserverStep(t)
    \/ EditStep(t)

Spec == Init /\ [][Next]_vars

(***************************************************************************)
(* Fairness.  A thread inside a call goes on, consumers keep calling pop,  *)
(* and a reservation whose compare_exchange could succeed again and again  *)
(* does succeed at last: the weak form does not fail spuriously for ever.  *)
(* A consumer that also asks queries keeps popping in between.             *)
(***************************************************************************)
Fairness ==
    /\ \A t \in Producers : WF_vars(PushStep(t)) /\ SF_vars(PushReserve(t))
    /\ \A t \in Consumers :
         SF_vars(PopStep(t)) /\ WF_vars(pc[t] # "idle" /\ ObserverStep(t))

FairSpec == Spec /\ Fairness

-----------------------------------------------------------------------------
(* Properties *)

Label == {"idle", "push_read", "push_write", "push_reserve", "push_store",
          "push_commit", "ow_reserve", "ow_read", "ow_advance", "ow_late", "ow_swap",
          "pop_read", "pop_commit", "pop_load", "pop_cas", "clear_store",
          "peek_commit", "peek_load", "range_write", "all_commit", "all_load",
          "iter_next", "observed", "query_read", "queried", "edit_read", "edit"}

SharedTypes ==
    /\ writeIdx \in Index /\ readIdx \in Index
    /\ slot \in [Slot -> Value]
    /\ commit \in [Slot -> Index \cup {Never}]

LocalTypes ==
    /\ pc \in [Thread -> Label]
    /\ rd \in [Thread -> Index] /\ wr \in [Thread -> Index]
    /\ val \in [Thread -> Value] /\ tmp \in [Thread -> Value]
    /\ over \in [Thread -> BOOLEAN]
    /\ seen \in [Thread -> Seq(Value)]

GhostTypes ==
    /\ calls \in 0 .. MaxPush /\ adds \in 0 .. MaxAdd
    /\ log \in Seq(PushId) /\ Len(log) = writeIdx
    /\ delivered \in Seq(PushId)
    /\ handed \in [{0} \cup PushId -> Nat]
    /\ cleared \subseteq PushId
    /\ abandoned \subseteq Index
    /\ added \in [PushId -> Int]

\* Every variable has its type.
TypeOK == SharedTypes /\ LocalTypes /\ GhostTypes

\* No call is in progress.
Quiescent == \A t \in Thread : pc[t] = "idle"

\* The push that reserved index i
Elem(i) == log[i + 1]

\* A committed slot between the two indices holds the element reserved for it, with
\* what was added to it by offset: no producer writes over a live element, none
\* commits before it has written, and fetch_add_at hits the element it is meant for.
PublishedIsIntact ==
    \A i \in readIdx .. writeIdx - 1 :
        CommitStatus(i) = i =>
            PeekAt(i) = (Elem(i) + Unit * added[Elem(i)]) % Width

\* No element is handed out twice, be it to two pops, to a pop and to the push that
\* overwrites it, or after a clear; nobody is given a value that was not pushed; and
\* once no call is in progress, every element behind read_idx has been handed out or
\* cleared and no other has.
ExactlyOnce ==
    /\ handed[0] = 0
    /\ \A i \in 0 .. writeIdx - 1 :
        /\ handed[Elem(i)] + (IF Elem(i) \in cleared THEN 1 ELSE 0) <= 1
        /\ Quiescent =>
              ((handed[Elem(i)] = 1 \/ Elem(i) \in cleared) <=> i < readIdx)

\* Pops give out elements that were pushed, in the order of their reservation,
\* whichever consumers they go to.
DeliveredInOrder ==
    \A k \in 1 .. Len(delivered) :
        /\ \E i \in 0 .. writeIdx - 1 : delivered[k] = Elem(i)
        /\ \A i, j \in 0 .. writeIdx - 1 :
             (k > 1 /\ delivered[k - 1] = Elem(i) /\ delivered[k] = Elem(j)) => i < j

\* What peek and read_all have read so far is the front of the queue, as long as no
\* element has been taken from it since they loaded read_idx.  What the only producer
\* sees, by iter too, which skips the check, is what was there then, taken or not.
\* Neither reads beyond the slots that were reserved.
SnapshotIsPrefix ==
    \A t \in Observers \cup Accessors :
        (t \in Observers /\ rd[t] = readIdx) \/ Producers = {t} =>
            \A k \in 1 .. Len(seen[t]) :
                /\ rd[t] + k <= writeIdx
                /\ IdOf(seen[t][k]) = Elem(rd[t] + k - 1)

\* The only producer is never told of less than there is, nor that there is room when
\* the next push would find none; the only consumer of a rejecting buffer is never
\* told of more, nor that there is something when there is nothing.
QueriesAreSafe ==
    \A t \in Queriers : pc[t] = "queried" =>
        LET used == writeIdx - readIdx
        IN  /\ Producers = {t} => RangeLen(t) >= used /\ (~IsFull(t) => used < Capacity)
            /\ Consumers = {t} /\ ~Overwrite =>
                  RangeLen(t) <= used /\ (~IsEmpty(t) => used > 0)

\* The indices never go back.
IndicesAreMonotone == [][readIdx <= readIdx' /\ writeIdx <= writeIdx']_vars

\* An overwriting push moves read_idx past an element, one pushed before its own: it
\* tells its caller that it overwrote one only if it did.
OverwroteAnElement == [][\A t \in Thread : ~over[t] /\ over'[t] => readIdx < wr[t]]_vars

\* The only consumer of a rejecting buffer misses no push that has returned: its pop
\* answers None only if the buffer is empty, or the push of the head is in progress or
\* panicked (the commit check of pop, made on an index loaded before).
NoneIsHonest ==
    [][\A t \in Thread :
          Consumers = {t} /\ ~Overwrite /\ pc[t] = "pop_commit" /\ pc'[t] = "idle" =>
              \/ readIdx = writeIdx
              \/ readIdx \in abandoned
              \/ \E u \in Producers :
                    pc[u] \in {"push_store", "push_commit"} /\ wr[u] = readIdx]_vars

\* Every element whose slot was reserved is handed out or cleared in the end: the
\* buffer never gets stuck behind a slot that will not be committed.
Drained ==
    \A i \in 0 .. MaxPush - 1 :
        (writeIdx > i) ~> (writeIdx > i /\ (handed[Elem(i)] > 0 \/ Elem(i) \in cleared))

\* An overwriting push returns the element it overwrote: once no call is in progress,
\* an element that nobody was given, by a pop or a push, and no clear has removed is
\* still in the buffer.
OverwriteIsReported ==
    Quiescent => \A i \in 0 .. writeIdx - 1 :
        \/ handed[Elem(i)] > 0
        \/ Elem(i) \in cleared
        \/ \E k \in Slot : IdOf(slot[k]) = Elem(i)

\* What len() counts can be popped: once no call is in progress, either the indices
\* are equal or a pop finds the head committed, unless the push of the head panicked.
HeadIsPoppable ==
    Quiescent /\ readIdx # writeIdx =>
        CommitStatus(readIdx) = readIdx \/ readIdx \in abandoned

\* The atomic buffer is a queue in which entries are reserved, published and taken,
\* or given up to a push beyond the capacity.
Entry(i) == [val |-> Elem(i), ready |-> CommitStatus(i) = i]
Entries  == [k \in 1 .. writeIdx - readIdx |-> Entry(readIdx + k - 1)]
Queue == INSTANCE AtomicQueue WITH queue <- Entries
ImplementsAtomicQueue == Queue!Spec
=============================================================================
