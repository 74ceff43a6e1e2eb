-------------------------------- MODULE Spsc --------------------------------
(***************************************************************************)
(* The single-producer single-consumer buffer (src/spsc.rs over        *)
(* src/core.rs): one thread owns the Producer, one the Consumer, and   *)
(* they share the slots and the two atomic indices.                        *)
(*                                                                         *)
(* The indices are modelled under release/acquire, not sequential          *)
(* consistency.  Each index has one writer, so its modification order is   *)
(* the order in which that thread stores it.  writeStores holds the stores *)
(* to write_idx that a load by the consumer may still return: the newest   *)
(* it has observed and all later ones (read-read coherence); readStores    *)
(* likewise for the producer's loads of read_idx.  A store records whether *)
(* it was a Release; an Acquire load of a Release store makes everything   *)
(* the storing thread did before it happen before what follows the load.   *)
(* knownWritten is the index up to which the slot writes happen before the *)
(* consumer's next step, knownRead the index up to which the slot reads    *)
(* happen before the producer's next step.  A plain access of a slot that  *)
(* is not so ordered after the other thread's last access is a data race,  *)
(* whatever order the steps happen to be interleaved in.                   *)
(***************************************************************************)
EXTENDS RingIndex, Sequences, FiniteSets

CONSTANTS Value,      \* the element type T
          NoValue,    \* a slot that was never written
          MaxBatch    \* bound: the longest slice passed to push_slice/pop_slice

ASSUME SpscAssumption ==
    /\ MaxBatch \in Nat \ {0}
    /\ NoValue \notin Value

VARIABLES
    slot,          \* the buffer: slot[k] is the element written there last
    writeIdx,      \* newest store to write_idx: what the producer reads back
    readIdx,       \* newest store to read_idx: what the consumer reads back
    writeStores,   \* stores to write_idx the consumer may still load
    readStores,    \* stores to read_idx the producer may still load
    knownWritten,  \* slot writes before this index happen before the consumer
    knownRead,     \* slot reads before this index happen before the producer
    ppc,           \* producer: idle, load (of read_idx), copy, dropped
    cachedRead,    \* Producer.cached_read
    batch,         \* the values of the push in progress
    written,       \* how many of them are in their slots
    cpc,           \* consumer: idle, load (of write_idx), copy, peek, dropped
    cachedWrite,   \* Consumer.cached_write
    want,          \* how many elements the pop in progress asks for
    got,           \* the values it has read out so far
    loop,          \* the loop of pops around it: none, clear, drop
    joined         \* the consumer's thread has joined the producer's

sharedVars   == <<slot, writeIdx, readIdx, writeStores, readStores>>
producerVars == <<ppc, cachedRead, batch, written, knownRead>>
consumerVars == <<cpc, cachedWrite, want, got, loop, knownWritten, joined>>
vars == <<sharedVars, producerVars, consumerVars>>

Store == [val : Index, release : BOOLEAN]
Batches == UNION {[1 .. n -> Value] : n \in 1 .. MaxBatch}
Least(m, n) == IF m <= n THEN m ELSE n

-----------------------------------------------------------------------------
(* Loads and stores of the indices *)

Relaxed(i) == [val |-> i, release |-> FALSE]   \* mutation: a Relaxed store

\* x.store(i, Release)
Release(i) == [val |-> i, release |-> TRUE]

RelaxedLoad(known, st) == known                \* mutation: a Relaxed load

\* What is known to have happened, once x.load(Acquire) has returned st
AcquireLoad(known, st) == IF st.release THEN st.val ELSE known

CacheKept(cached, st) == cached                \* mutation: the load is not cached

\* What the handle goes on with, and caches, after a load that returned st
Refreshed(cached, st) == st.val

\* The producer's load of read_idx returns st; older stores are then hidden.
LoadReadIdx(st) ==
    /\ readStores' = {s \in readStores :
                        WrapSub(writeIdx, s.val) <= WrapSub(writeIdx, st.val)}
    /\ knownRead' = AcquireLoad(knownRead, st)

\* The consumer's load of write_idx returns st.
LoadWriteIdx(st) ==
    /\ writeStores' = {s \in writeStores :
                         WrapSub(st.val, readIdx) <= WrapSub(s.val, readIdx)}
    /\ knownWritten' = AcquireLoad(knownWritten, st)

-----------------------------------------------------------------------------
(* Producer *)

SpaceOffByOne(read) ==                         \* mutation: > for >=
    IF WrapSub(writeIdx, read) > Capacity
    THEN 0 ELSE Capacity + 1 - WrapSub(writeIdx, read)

\* capacity().saturating_sub(write.wrapping_sub(read)); push compares with 0.
Space(read) ==
    IF WrapSub(writeIdx, read) >= Capacity
    THEN 0 ELSE Capacity - WrapSub(writeIdx, read)

\* to_push = available.min(values.len())
Fitting(values, read) == SubSeq(values, 1, Least(Space(read), Len(values)))

\* push (one value) or push_slice: the cached read index shows room.
PushCached(values) ==
    /\ ppc = "idle"
    /\ Space(cachedRead) > 0
    /\ ppc' = "copy"
    /\ batch' = Fitting(values, cachedRead)
    /\ UNCHANGED <<sharedVars, cachedRead, written, knownRead, consumerVars>>

\* push or push_slice: it does not, so read_idx must be loaded.
PushUncached(values) ==
    /\ ppc = "idle"
    /\ Space(cachedRead) = 0
    /\ ppc' = "load"
    /\ batch' = values
    /\ UNCHANGED <<sharedVars, cachedRead, written, knownRead, consumerVars>>

\* The load, and Err(Full) / Ok(0) when it too shows no room.
PushLoad(st) ==
    /\ ppc = "load"
    /\ LoadReadIdx(st)
    /\ cachedRead' = Refreshed(cachedRead, st)
    /\ \/ /\ Space(cachedRead') > 0
          /\ ppc' = "copy"
          /\ batch' = Fitting(batch, cachedRead')
       \/ /\ Space(cachedRead') = 0
          /\ ppc' = "idle"
          /\ batch' = << >>
    /\ UNCHANGED <<slot, writeIdx, readIdx, writeStores, written, consumerVars>>

\* write_at / copy_from_slice: one element into its slot
PushCopy ==
    /\ ppc = "copy"
    /\ written < Len(batch)
    /\ slot' = [slot EXCEPT ![CopySlot(writeIdx, written)] = batch[written + 1]]
    /\ written' = written + 1
    /\ UNCHANGED <<writeIdx, readIdx, writeStores, readStores, knownRead,
                   ppc, cachedRead, batch, consumerVars>>

PushStoreEarly ==                              \* mutation: store before the copy
    /\ ppc = "copy"
    /\ writeIdx' = WrapAdd(writeIdx, Len(batch))
    /\ writeStores' = writeStores \cup {Release(writeIdx')}
    /\ ppc' = "idle"
    /\ batch' = << >>
    /\ written' = 0
    /\ UNCHANGED <<slot, readIdx, readStores, cachedRead, knownRead, consumerVars>>

\* write_idx.store(write.wrapping_add(n), Release), and the call returns.
PushStore ==
    /\ ppc = "copy"
    /\ written = Len(batch)
    /\ writeIdx' = WrapAdd(writeIdx, Len(batch))
    /\ writeStores' = writeStores \cup {Release(writeIdx')}
    /\ ppc' = "idle"
    /\ batch' = << >>
    /\ written' = 0
    /\ UNCHANGED <<slot, readIdx, readStores, cachedRead, knownRead, consumerVars>>

\* slots, len, is_empty, is_full, free_slots: a load that does not touch the
\* cached index.  The answers are functions of writeIdx and the value loaded.
ProducerQuery(st) ==
    /\ ppc = "idle"
    /\ LoadReadIdx(st)
    /\ UNCHANGED <<slot, writeIdx, readIdx, writeStores, ppc, cachedRead, batch,
                   written, consumerVars>>

\* The Producer goes out of scope; it has no Drop of its own.
ProducerDrop ==
    /\ ppc = "idle"
    /\ ppc' = "dropped"
    /\ UNCHANGED <<sharedVars, cachedRead, batch, written, knownRead, consumerVars>>

-----------------------------------------------------------------------------
(* Consumer *)

\* write.wrapping_sub(read); pop tests read == write.
Available(write) == WrapSub(write, readIdx)

\* pop, Drain::next (n = 1) or pop_slice (n = dest.len()), on its own or as the
\* next turn of clear's or Consumer::drop's `while self.pop().is_ok()`: the
\* cached write index shows elements.
PopCached(n) ==
    /\ cpc = "idle"
    /\ loop # "none" => n = 1
    /\ Available(cachedWrite) > 0
    /\ cpc' = "copy"
    /\ want' = Least(Available(cachedWrite), n)
    /\ UNCHANGED <<sharedVars, producerVars, cachedWrite, got, loop,
                   knownWritten, joined>>

\* The same, and it does not: write_idx must be loaded.
PopUncached(n) ==
    /\ cpc = "idle"
    /\ loop # "none" => n = 1
    /\ Available(cachedWrite) = 0
    /\ cpc' = "load"
    /\ want' = n
    /\ UNCHANGED <<sharedVars, producerVars, cachedWrite, got, loop,
                   knownWritten, joined>>

PopFailsInLoop ==                              \* mutation: the loop goes on
    /\ cpc' = "idle"
    /\ want' = 0
    /\ loop' = loop

\* Err(Empty) / Ok(0), which also ends the loop of clear or of Consumer::drop
PopFails ==
    /\ cpc' = IF loop = "drop" THEN "dropped" ELSE "idle"
    /\ want' = 0
    /\ loop' = "none"

\* The load, and the failure when it too shows no element.
PopLoad(st) ==
    /\ cpc = "load"
    /\ LoadWriteIdx(st)
    /\ cachedWrite' = Refreshed(cachedWrite, st)
    /\ \/ /\ Available(cachedWrite') > 0
          /\ cpc' = "copy"
          /\ want' = Least(Available(cachedWrite'), want)
          /\ UNCHANGED loop
       \/ /\ Available(cachedWrite') = 0
          /\ PopFails
    /\ UNCHANGED <<slot, writeIdx, readIdx, readStores, got, joined, producerVars>>

\* read_at / copy_to_slice: one element moved or copied out of its slot
PopCopy ==
    /\ cpc = "copy"
    /\ Len(got) < want
    /\ got' = Append(got, slot[CopySlot(readIdx, Len(got))])
    /\ UNCHANGED <<sharedVars, producerVars, cpc, cachedWrite, want, loop,
                   knownWritten, joined>>

\* read_idx.store(read.wrapping_add(n), Release), and the call returns; in the
\* loops the value read is dropped and the next turn begins.
PopStore ==
    /\ cpc = "copy"
    /\ Len(got) = want
    /\ readIdx' = WrapAdd(readIdx, want)
    /\ readStores' = readStores \cup {Release(readIdx')}
    /\ cpc' = "idle"
    /\ want' = 0
    /\ got' = << >>
    /\ UNCHANGED <<slot, writeIdx, writeStores, cachedWrite, loop, knownWritten,
                   joined, producerVars>>

\* clear() enters its loop.
ClearBegin ==
    /\ cpc = "idle" /\ loop = "none"
    /\ loop' = "clear"
    /\ UNCHANGED <<sharedVars, producerVars, cpc, cachedWrite, want, got,
                   knownWritten, joined>>

\* The Consumer goes out of scope and Consumer::drop enters its loop.
DropBegin ==
    /\ cpc = "idle" /\ loop = "none"
    /\ loop' = "drop"
    /\ UNCHANGED <<sharedVars, producerVars, cpc, cachedWrite, want, got,
                   knownWritten, joined>>

\* slots, len, is_empty, Drain::size_hint: a load that leaves the cache alone
ConsumerQuery(st) ==
    /\ cpc = "idle" /\ loop = "none"
    /\ LoadWriteIdx(st)
    /\ UNCHANGED <<slot, writeIdx, readIdx, readStores, cpc, cachedWrite, want,
                   got, loop, joined, producerVars>>

\* peek() finds an element: the reference it returns borrows the Consumer, which
\* can do nothing else, and reads the slot, until it is given up.
PeekBegin(st) ==
    /\ cpc = "idle" /\ loop = "none"
    /\ LoadWriteIdx(st)
    /\ Available(st.val) > 0
    /\ cpc' = "peek"
    /\ UNCHANGED <<slot, writeIdx, readIdx, readStores, cachedWrite, want, got,
                   loop, joined, producerVars>>

PeekEnd ==
    /\ cpc = "peek"
    /\ cpc' = "idle"
    /\ UNCHANGED <<sharedVars, producerVars, cachedWrite, want, got, loop,
                   knownWritten, joined>>

-----------------------------------------------------------------------------
(***************************************************************************)
(* The consumer's thread joins the producer's after the latter dropped its *)
(* handle (JoinHandle::join, as the tests and examples do): all the        *)
(* producer did happens before what follows, and no older store of         *)
(* write_idx can be loaded any more.                                       *)
(***************************************************************************)
Join ==
    /\ ppc = "dropped" /\ ~joined
    /\ cpc = "idle" /\ loop = "none"
    /\ joined' = TRUE
    /\ writeStores' = {st \in writeStores : st.val = writeIdx}
    /\ knownWritten' = writeIdx
    /\ UNCHANGED <<slot, writeIdx, readIdx, readStores, cpc, cachedWrite, want,
                   got, loop, producerVars>>

\* new(capacity): both handles exist and nothing was stored yet.
Init ==
    /\ slot = [k \in Slot |-> NoValue]
    /\ writeIdx = 0 /\ readIdx = 0
    /\ writeStores = {Release(0)} /\ readStores = {Release(0)}
    /\ knownWritten = 0 /\ knownRead = 0
    /\ ppc = "idle" /\ cachedRead = 0 /\ batch = << >> /\ written = 0
    /\ cpc = "idle" /\ cachedWrite = 0 /\ want = 0 /\ got = << >>
    /\ loop = "none" /\ joined = FALSE

PushBegin == \E values \in Batches : PushCached(values) \/ PushUncached(values)
PopBegin  == \E n \in 1 .. MaxBatch : PopCached(n) \/ PopUncached(n)

ProducerNext ==
    \/ PushBegin
    \/ \E st \in readStores : PushLoad(st)
    \/ PushCopy
    \/ PushStore
    \/ \E st \in readStores : ProducerQuery(st)
    \/ ProducerDrop

ConsumerNext ==
    \/ PopBegin
    \/ \E st \in writeStores : PopLoad(st)
    \/ PopCopy
    \/ PopStore
    \/ ClearBegin
    \/ DropBegin
    \/ \E st \in writeStores : ConsumerQuery(st)
    \/ \E st \in writeStores : PeekBegin(st)
    \/ PeekEnd

Next == ProducerNext \/ ConsumerNext \/ Join

Spec == Init /\ [][Next]_vars

(***************************************************************************)
(* Fairness.  A thread that is inside a call goes on executing it.  The    *)
(* owner of each handle keeps calling: the examples and tests pop, or push *)
(* again after Full, in a loop until they have what they wait for; strong  *)
(* fairness, because between two such calls it may query or peek.  And a   *)
(* location that is loaded again and again eventually shows its newest     *)
(* store, as the memory model asks of an implementation.                   *)
(***************************************************************************)
ProducerFairness ==
    /\ SF_vars(PushBegin)
    /\ SF_vars(\E st \in readStores : st.val = readIdx /\ PushLoad(st))
    /\ WF_vars(PushCopy)
    /\ WF_vars(PushStore)

ConsumerFairness ==
    /\ SF_vars(PopBegin)
    /\ SF_vars(\E st \in writeStores : st.val = writeIdx /\ PopLoad(st))
    /\ WF_vars(PopCopy)
    /\ WF_vars(PopStore)
    /\ WF_vars(PeekEnd)

FairSpec == Spec /\ ProducerFairness /\ ConsumerFairness

-----------------------------------------------------------------------------
(* Properties *)

\* Every variable has its type.
TypeOK ==
    /\ slot \in [Slot -> Value \cup {NoValue}]
    /\ writeIdx \in Index /\ readIdx \in Index
    /\ writeStores \subseteq Store /\ readStores \subseteq Store
    /\ knownWritten \in Index /\ knownRead \in Index
    /\ ppc \in {"idle", "load", "copy", "dropped"}
    /\ cachedRead \in Index
    /\ batch \in Seq(Value)
    /\ written \in Nat
    /\ cpc \in {"idle", "load", "copy", "peek", "dropped"}
    /\ cachedWrite \in Index
    /\ want \in Nat
    /\ got \in Seq(Value)
    /\ loop \in {"none", "clear", "drop"}
    /\ joined \in BOOLEAN

\* The slots the producer's call may write, and those the consumer's may read.
WritingSlots ==
    IF ppc = "copy" THEN {CopySlot(writeIdx, k) : k \in 0 .. Len(batch) - 1} ELSE {}
ReadingSlots ==
    IF cpc = "copy" THEN {CopySlot(readIdx, k) : k \in 0 .. want - 1}
    ELSE IF cpc = "peek" THEN {SlotOf(readIdx)} ELSE {}

\* The two threads never use a slot at the same time.
NoSharedSlot == WritingSlots \cap ReadingSlots = {}

\* Every slot the producer is about to overwrite was last read in a step that
\* happens before: the element one lap earlier is below knownRead.
WritesAreOrdered ==
    ppc = "copy" => WrapSub(writeIdx, knownRead) + Len(batch) <= Capacity

\* Every slot the consumer is about to read was written in a step that happens
\* before: the element is below knownWritten.
ReadsAreOrdered ==
    LET reading == IF cpc = "copy" THEN want ELSE IF cpc = "peek" THEN 1 ELSE 0
    IN  reading > 0 => WrapSub(knownWritten, readIdx) \in reading .. Capacity

\* There is no data race on a slot, although the accesses are not atomic and both
\* threads decide on indices that may be stale, cached in their handle or loaded
\* late (write_at/read_at in push/pop, the copies of push_slice/pop_slice, peek).
NoDataRace == NoSharedSlot /\ WritesAreOrdered /\ ReadsAreOrdered

\* What the query methods may answer is on the safe side, whichever store their
\* load returns: the producer never sees fewer elements than there are, nor more
\* than Capacity (free_slots would underflow), and the consumer never sees more
\* elements than there are.
QueriesAreSafe ==
    /\ \A st \in readStores :
         WrapSub(writeIdx, st.val) \in WrapSub(writeIdx, readIdx) .. Capacity
    /\ \A st \in writeStores :
         WrapSub(st.val, readIdx) <= WrapSub(writeIdx, readIdx)

\* push and push_slice give up only on a full buffer, and pop and pop_slice only
\* on an empty one: of the stores to the other index the thread may have observed
\* by then, the oldest leaves no room, or no element.  So a handle that has seen
\* room (an element), be it by a query, does not fail next.
FailsHonestly ==
    /\ (ppc = "load" /\ ppc' = "idle") => \E st \in readStores' : Space(st.val) = 0
    /\ (cpc = "load" /\ cpc' \in {"idle", "dropped"}) =>
         \E st \in writeStores' : st.val = readIdx
FailureIsHonest == [][FailsHonestly]_vars

\* The elements in the buffer, oldest first
Contents ==
    [k \in 1 .. WrapSub(writeIdx, readIdx) |-> slot[SlotOf(WrapAdd(readIdx, k - 1))]]

\* The buffer implements a bounded FIFO queue that takes and gives whole batches:
\* what one thread pushed is what the other pops, in order, once, and the elements
\* of push_slice appear together.
Queue == INSTANCE Fifo WITH
    queue   <- Contents,
    pushing <- IF ppc = "copy" THEN batch ELSE << >>,
    taking  <- got
ImplementsFifo == Queue!Spec

\* A Consumer dropped by a thread that has joined the producer's leaves no element
\* behind undropped, even when its cached index was stale (Consumer::drop).
DropAfterJoinIsClean == (joined /\ cpc = "dropped") => Contents = << >>

\* As the README has it, elements are dropped when the buffer is cleaned up: none
\* is left once both handles, and with them the shared buffer, are gone.
NothingLeaks == (ppc = "dropped" /\ cpc = "dropped") => Contents = << >>

\* An element in the buffer is eventually taken out of it, unless the Consumer goes.
Delivery ==
    \A i \in Index :
        (readIdx = i /\ writeIdx # i) ~> (readIdx # i \/ cpc = "dropped")

\* A producer that keeps pushing gets its element in, however often it was told
\* Full and however stale the index it was told so from, unless the Consumer goes.
RetriedPushSucceeds == (ppc = "load") ~> (ppc = "copy" \/ ppc = "dropped" \/ cpc = "dropped")

\* clear() and Consumer::drop loop as long as the producer keeps pushing, but they
\* end once it has stopped.
LoopEnds == (ppc = "dropped" /\ loop # "none") ~> (loop = "none")
=============================================================================
