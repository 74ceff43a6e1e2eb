----------------------------- MODULE GenericRing -----------------------------
(***************************************************************************)
(* The generic ring buffer (src/generic.rs over src/core.rs).  Whatever    *)
(* changes it takes &mut self, so a call is one step, although its code    *)
(* works on atomic indices.  An iterator borrows the buffer: as long as it *)
(* lives nothing can change but, through iter_mut, the elements it has     *)
(* lent out.                                                               *)
(***************************************************************************)
EXTENDS RingIndex, Sequences, FiniteSets

CONSTANTS Value, NoValue,   \* the element type T; a slot never written
          MaxBatch          \* bound: the longest slice

ASSUME GenericAssumption ==
    /\ MaxBatch \in Nat
    /\ MaxBatch < Modulus
    /\ NoValue \notin Value

VARIABLES overwrite,  \* OVERWRITE, a parameter of the buffer's type
          slot, writeIdx, readIdx,
          given,      \* the elements the last call gave to the caller
          count,      \* the number it returned, 0 if it returns none
          left,       \* what an iterator has left: `first` and `second`, by their
                      \* slots; << >> while there is no iterator
          front, back \* ghost: the slots it has yielded, by next and by next_back

answer == <<given, count>>
lent   == <<left, front, back>>
vars   == <<overwrite, slot, writeIdx, readIdx, answer, lent>>

Batch == UNION {[1 .. n -> Value] : n \in 0 .. MaxBatch}
Least(m, n) == IF m <= n THEN m ELSE n

-----------------------------------------------------------------------------
(* Reading the buffer *)

\* core.len(), where min(capacity) never bites, is_empty() and is_full()
Length  == Least(WrapSub(writeIdx, readIdx), Capacity)
IsEmpty == readIdx = writeIdx
IsFull  == WrapSub(writeIdx, readIdx) >= Capacity

\* read_at, peek_at; write_at, and replace_at, which returns what ReadAt gives
ReadAt(i)     == slot[SlotOf(i)]
WriteAt(i, v) == [slot EXCEPT ![SlotOf(i)] = v]

\* copy_to_slice(start, dest, n)
CopyOut(start, n) == [k \in 1 .. n |-> slot[CopySlot(start, k - 1)]]

\* copy_from_slice(start, values, len)
CopyIn(start, values) ==
    [k \in Slot |-> IF \E j \in 1 .. Len(values) : CopySlot(start, j - 1) = k
                    THEN values[CHOOSE j \in 1 .. Len(values) : CopySlot(start, j - 1) = k]
                    ELSE slot[k]]

\* from_raw_parts(buffer_ptr.add(first), n), by the slots it consists of
RawSlice(first, n) == [k \in 1 .. n |-> first + k - 1]

WrapsNever(r, w) == FALSE                \* mutation: the wrap is overlooked

\* Neither read_idx < write_idx nor full: the data goes round the end.
Wraps(r, w) == ~(r < w \/ Length = Capacity)

\* as_slices, as_mut_slices: the elements as two slices of the storage
AsSlices ==
    LET r == SlotOf(readIdx)
        w == SlotOf(writeIdx)
    IN  IF Length = 0 THEN << << >>, << >> >>
        ELSE IF Length = Capacity
        THEN <<RawSlice(r, Capacity - r), RawSlice(0, r)>>
        ELSE IF Wraps(r, w)
        THEN <<RawSlice(r, Capacity - r), RawSlice(0, Length - (Capacity - r))>>
        ELSE <<RawSlice(r, Length), << >> >>

\* The slots of the elements as the two slices, and so the iterators, show them
IterSlots == AsSlices[1] \o AsSlices[2]

-----------------------------------------------------------------------------
(* The calls *)

\* push, OVERWRITE = true.  On a full buffer read_idx moves on and the element in
\* the slot is replaced and returned.
PushOverwrite(v) ==
    /\ overwrite
    /\ readIdx' = IF IsFull THEN WrapAdd(readIdx, 1) ELSE readIdx
    /\ given' = IF IsFull THEN <<ReadAt(writeIdx)>> ELSE << >>
    /\ slot' = WriteAt(writeIdx, v)
    /\ writeIdx' = WrapAdd(writeIdx, 1)
    /\ count' = 0

\* push, OVERWRITE = false: a full buffer gives Err(Full(value)), after fetch_add
\* and fetch_sub have cancelled out.
PushReject(v) ==
    /\ ~overwrite
    /\ IF IsFull
       THEN given' = <<v>> /\ UNCHANGED <<slot, writeIdx>>
       ELSE /\ given' = << >>
            /\ slot' = WriteAt(writeIdx, v)
            /\ writeIdx' = WrapAdd(writeIdx, 1)
    /\ count' = 0
    /\ UNCHANGED readIdx

OverflowOffByOne(n) == n - 1             \* mutation: one element too few

\* How far a partial overwrite moves read_idx
Overflow(n) == n

\* push_slice, OVERWRITE = true.  The destructors it runs do nothing: T is Copy.
PushSliceOverwrite(values) ==
    LET len     == Len(values)
        used    == WrapSub(writeIdx, readIdx)
        whole   == len >= Capacity                \* nothing old remains
        offset  == IF whole THEN len - Capacity ELSE 0
        over    == IF whole THEN Least(used, Capacity)
                   ELSE IF used + len > Capacity THEN used + len - Capacity ELSE 0
        start   == WrapAdd(writeIdx, offset)
    IN  /\ overwrite /\ len > 0
        /\ writeIdx' = WrapAdd(writeIdx, len)
        /\ readIdx' = IF whole THEN start
                      ELSE IF over > 0 THEN WrapAdd(readIdx, Overflow(over)) ELSE readIdx
        /\ slot' = CopyIn(start, SubSeq(values, offset + 1, len))
        /\ given' = << >> /\ count' = len

NotReverted(n) == 0                      \* mutation: no fetch_sub

\* What is taken back from write_idx when n values did not fit
Reverted(n) == n

\* push_slice, OVERWRITE = false: write_idx is advanced by all, then taken back by
\* what did not fit.
PushSliceReject(values) ==
    LET used == WrapSub(writeIdx, readIdx)
        n    == Least(IF used >= Capacity THEN 0 ELSE Capacity - used, Len(values))
    IN  /\ ~overwrite /\ Len(values) > 0
        /\ writeIdx' = WrapSub(WrapAdd(writeIdx, Len(values)), Reverted(Len(values) - n))
        /\ slot' = CopyIn(writeIdx, SubSeq(values, 1, n))
        /\ given' = << >> /\ count' = n
        /\ UNCHANGED readIdx

\* push_slice(&[]), pop_slice(&mut [])
EmptySlice ==
    /\ given' = << >> /\ count' = 0
    /\ UNCHANGED <<slot, writeIdx, readIdx>>

Pop ==
    /\ IF IsEmpty
       THEN given' = << >> /\ UNCHANGED readIdx
       ELSE given' = <<ReadAt(readIdx)>> /\ readIdx' = WrapAdd(readIdx, 1)
    /\ count' = 0
    /\ UNCHANGED <<slot, writeIdx>>

Peek ==
    /\ given' = IF IsEmpty THEN << >> ELSE <<ReadAt(readIdx)>>
    /\ count' = 0
    /\ UNCHANGED <<slot, writeIdx, readIdx>>

\* len; capacity, is_empty and is_full say no more than it does.
QueryLength ==
    /\ given' = << >> /\ count' = Length
    /\ UNCHANGED <<slot, writeIdx, readIdx>>

PopSlice(n) ==
    LET m == Least(Length, n)
    IN  /\ n > 0
        /\ given' = CopyOut(readIdx, m) /\ count' = m
        /\ readIdx' = WrapAdd(readIdx, m)
        /\ UNCHANGED <<slot, writeIdx>>

\* clear: pop until empty, which leaves read_idx at write_idx
Clear ==
    /\ readIdx' = writeIdx
    /\ given' = << >> /\ count' = 0
    /\ UNCHANGED <<slot, writeIdx>>

\* The owner goes on with a clone: same indices, and clones of the elements from
\* read_idx to write_idx in slots that are otherwise uninitialised.
CloneSelf ==
    /\ slot' = [k \in Slot |->
                  IF \E n \in 0 .. WrapSub(writeIdx, readIdx) - 1 :
                        SlotOf(WrapAdd(readIdx, n)) = k
                  THEN slot[k] ELSE NoValue]
    /\ UNCHANGED <<writeIdx, readIdx, given, count>>

\* The caller assigns v to an element of as_mut_slices.
AssignInPlace(p, v) ==
    /\ p \in 1 .. Len(IterSlots)
    /\ slot' = [slot EXCEPT ![IterSlots[p]] = v]
    /\ given' = << >> /\ count' = 0
    /\ UNCHANGED <<writeIdx, readIdx>>

-----------------------------------------------------------------------------
(* iter and iter_mut: the two slices are used up from both ends. *)

IterBegin ==
    /\ left = << >>
    /\ left' = AsSlices
    /\ given' = << >> /\ count' = 0
    /\ UNCHANGED <<slot, writeIdx, readIdx, front, back>>

\* first.next().or_else(second.next())
IterNext ==
    /\ left # << >> /\ left # << << >>, << >> >>
    /\ LET k == IF left[1] # << >> THEN 1 ELSE 2
       IN  /\ front' = Append(front, Head(left[k]))
           /\ left' = [left EXCEPT ![k] = Tail(@)]
    /\ UNCHANGED <<slot, writeIdx, readIdx, answer, back>>

FirstSliceFirst == IF left[1] # << >> THEN 1 ELSE 2    \* mutation: as in next

\* The slice that next_back takes from: second.next_back().or_else(first.next_back())
BackSlice == IF left[2] # << >> THEN 2 ELSE 1

IterNextBack ==
    /\ left # << >> /\ left # << << >>, << >> >>
    /\ LET s == left[BackSlice]
       IN  /\ back' = Append(back, s[Len(s)])
           /\ left' = [left EXCEPT ![BackSlice] = SubSeq(s, 1, Len(s) - 1)]
    /\ UNCHANGED <<slot, writeIdx, readIdx, answer, front>>

\* The caller assigns v through a reference that iter_mut has yielded.
IterAssign(v) ==
    /\ \E n \in 1 .. Len(front \o back) : slot' = [slot EXCEPT ![(front \o back)[n]] = v]
    /\ UNCHANGED <<writeIdx, readIdx, answer, lent>>

\* The iterator and what it has lent out are dropped.
IterEnd ==
    /\ left # << >>
    /\ left' = << >> /\ front' = << >> /\ back' = << >>
    /\ UNCHANGED <<slot, writeIdx, readIdx, answer>>

-----------------------------------------------------------------------------
Init ==
    /\ overwrite \in BOOLEAN
    /\ slot = [k \in Slot |-> NoValue]
    /\ writeIdx = 0 /\ readIdx = 0
    /\ given = << >> /\ count = 0
    /\ left = << >> /\ front = << >> /\ back = << >>

Call ==
    \/ \E v \in Value : PushOverwrite(v) \/ PushReject(v)
    \/ \E values \in Batch : PushSliceOverwrite(values) \/ PushSliceReject(values)
    \/ EmptySlice
    \/ Pop
    \/ Peek
    \/ QueryLength
    \/ \E n \in 1 .. MaxBatch : PopSlice(n)
    \/ Clear
    \/ CloneSelf
    \/ \E p \in 1 .. Capacity, v \in Value : AssignInPlace(p, v)

Iteration ==
    \/ IterBegin
    \/ IterNext
    \/ IterNextBack
    \/ \E v \in Value : IterAssign(v)
    \/ IterEnd

Next ==
    /\ \/ left = << >> /\ Call /\ UNCHANGED lent
       \/ Iteration
    /\ UNCHANGED overwrite

Spec == Init /\ [][Next]_vars

-----------------------------------------------------------------------------
(* Properties *)

\* The elements in the buffer, oldest first
Contents ==
    [k \in 1 .. WrapSub(writeIdx, readIdx) |-> ReadAt(WrapAdd(readIdx, k - 1))]

\* Every variable has its type, and the buffer never holds more than it can: so
\* len() counts every element although it cuts off at the capacity.
TypeOK ==
    /\ overwrite \in BOOLEAN
    /\ slot \in [Slot -> Value \cup {NoValue}]
    /\ writeIdx \in Index /\ readIdx \in Index
    /\ WrapSub(writeIdx, readIdx) <= Capacity
    /\ given \in Seq(Value) /\ count \in 0 .. MaxBatch + Capacity
    /\ left = << >> \/ left \in Seq(Slot) \X Seq(Slot)
    /\ front \in Seq(Slot) /\ back \in Seq(Slot)

\* as_slices and as_mut_slices show exactly the elements, in order, for every position
\* of the data in the storage; the slices stay inside the storage, do not overlap and
\* show no uninitialised slot.
SlicesShowContents ==
    /\ \A p \in 1 .. Len(IterSlots) :
         /\ IterSlots[p] \in Slot
         /\ \A q \in 1 .. p - 1 : IterSlots[q] # IterSlots[p]
    /\ [p \in 1 .. Len(IterSlots) |-> slot[IterSlots[p]]] = Contents
    /\ \A k \in 1 .. Len(Contents) : Contents[k] # NoValue

\* In whatever turns next and next_back are called, next goes through the elements
\* from the oldest, next_back from the newest, and together they yield each at most
\* once and none is lost: iter_mut never lends the same slot twice.
IteratorsMeet ==
    left # << >> =>
        LET n == Len(IterSlots)
        IN  /\ front \o left[1] \o left[2] = SubSeq(IterSlots, 1, n - Len(back))
            /\ \A k \in 1 .. Len(back) : back[k] = IterSlots[n - k + 1]

\* The buffer is a bounded queue that overwrites or rejects, call by call and with
\* what each call returns.
Queue == INSTANCE BoundedQueue WITH queue <- Contents
ImplementsQueue == Queue!Spec
=============================================================================
