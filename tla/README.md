# smallring: TLA+ specifications, model checking and proofs

Formal models of the ring buffers of `smallring`: what they keep, what each operation does step
by step, what they promise, and which of these promises have been model-checked with TLC or proved
with TLAPS. Paths are relative to the repository (`src/spsc.rs` and so on).

## 1. The system

| Component | State | Operations | Users and interaction |
|---|---|---|---|
| Ring core, `src/core.rs` | storage of a power-of-two capacity, mask, two atomic `usize` indices | element access at a masked index, two-part batch copies, `len`/`is_empty`/`is_full`, clone, rounding of the capacity | embedded in each of the three buffers; decides nothing about full and empty itself |
| SPSC buffer, `src/spsc.rs` | the core in an `Arc`; `Producer.cached_read`, `Consumer.cached_write` | `push`, `push_slice`, `pop`, `pop_slice`, `peek`, `clear`, `drain`, queries, drop of either handle | two threads, one per handle, that meet in the slots and the two indices only |
| Atomic buffer, `src/atomic.rs` | the core with atomic elements, and a commit status for every slot | `push` (overwriting or rejecting), `pop`, `peek`, `clear`, `read_all`, `iter`, `fetch_add_at`, `fetch_sub_at`, queries | any number of threads through `&self` |
| Generic buffer, `src/generic.rs` | the core | `push`, `push_slice` (overwriting or rejecting), `pop`, `pop_slice`, `peek`, `clear`, slices and iterators, clone | one owner at a time: whatever changes it takes `&mut self` |
| `FixedVec`, `src/vec.rs` | an array of `MaybeUninit`, inline or on the heap | allocation, access without a check, no destructor | storage of the core and of the commit statuses |
| Element traits, `src/atomic/traits.rs` | none | `load`, `store`, `swap`, `fetch_add`, `fetch_sub` with the caller's ordering, by macro for each atomic type | the elements of the atomic buffer |
| Shim, `src/shim.rs`; crate root | none | choice of the standard, portable or loom atomics | compile time |
| Tests, loom tests, benchmarks | | | document the intended use |

What is hard about it:

* **SPSC.** Slot accesses are plain, not atomic; only the Release stores and Acquire loads of the
  indices order them. Both sides decide on indices that are stale twice over: cached in the handle,
  and loaded late. Indices wrap, batches wrap at the end of the storage. Handles may be dropped in
  any order and in the middle of the other's work. *Correct* means: no data race on a slot, a FIFO
  queue in which batches are atomic, honest Full and Empty, delivery, and clean-up.
* **Atomic.** A push reserves a slot before it fills it, an overwriting push even before it knows
  that there is room; a pop reads the slot before it owns the element. The commit status tells laps
  apart. The elements are accessed with an ordering the caller chooses, which may be too weak, or one
  that panics when the slot is already reserved. *Correct* means: each element goes to one caller, in
  the order of reservation, nothing half-written is seen, no slot remains reserved for ever, and what a
  query, an iterator or an addition by offset finds is what the caller may rely on.
* **Generic.** Sequential, but with many boundary cases: slices longer than the buffer, partial
  overwrites, wrapped data, masked indices that are equal when the buffer is empty and when it is
  full, iterators used up from both ends. *Correct* means that it is a bounded queue in all of them.
* **Storage.** Cells keep the bits of elements that have moved out, and the destructor or the clone of
  an element may panic halfway. *Correct* means: every element has one owner, and only initialised
  cells within the allocation are accessed.

`PROJECT.json` lists these hazards line by line with the properties that cover them.

## 2. The modules

```
Specification   EXTENDS       checked in                 proved in                      abstract queue
-------------   -----------   ------------------------   ----------------------------   --------------
RingIndex                     with those that use it     RingIndexProofs
Spsc            RingIndex     MCSpsc                     SpscProofs                     Fifo
AtomicElement                 with AtomicRing
AtomicRing      RingIndex,    MCAtomicRing               AtomicProofs <- AtomicSafety   AtomicQueue
                AtomicElement                            <- AtomicViews, AtomicRefinement
AtomicFull      AtomicRing    MCAtomicFull               AtomicViews
GenericRing     RingIndex     MCGenericRing              GenericProofs                  BoundedQueue
Storage                       MCStorage                  StorageProofs                  OwnedQueue
```

`RingIndexProofs` serves the proofs of all four buffers; `StorageProofs` takes it by INSTANCE, with the
rounded capacity, a variable there, for `Capacity`.

**RingIndex**: `wrapping_add`, `wrapping_sub`, masking, and which slot element `k` of a batch is
copied to. `Modulus` stands for 2^64. Only what the code relies on is assumed of it: `Capacity`
divides it, and two laps fit in it.

**Spsc**: the two threads over the memory model. Each index has one writer, so its modification
order is the order of that thread's stores. `writeStores` holds those a load by the consumer may
still return: the newest it has observed and later ones. `readStores` is the same for the producer.
A store remembers whether it was a Release; an Acquire load of a Release store raises
`knownWritten` (or `knownRead`), up to which the other thread's slot accesses happen before. A data
race is thus a property of a state, *an access without that knowledge*, and shows up even when the
steps happen to be interleaved harmlessly.
A call is split at each shared access: `PushCached`/`PushUncached` (decision by the cached index),
`PushLoad` (load, cache, second decision), `PushCopy` (one element), `PushStore` (publication); the
same for pop. `push` is `push_slice` of one value, `pop` and `Drain::next` are `pop_slice` of one;
the two pairs of functions differ in the code but not in what they load, decide and store. `clear`
and `Consumer::drop` are loops around pop (`loop`). `PeekBegin`/`PeekEnd` bracket the borrow that
peek returns. `Join` is the join of the producer's thread; the standard library is not part of the
repository.

**Fifo**: a bounded queue with two users that may both be inside a call. A batch is offered, then
appears in one step; elements are taken one by one, then leave in one step.

**AtomicElement**: the element traits. Which ordering reaches the element, which orderings `load` and
`store` panic on, which release and acquire, and wrapping addition. `Width` is the number of values of
the primitive type.

**AtomicRing**: threads with a program counter, one atomic access per step. Ghost variables name each
push, log the order of reservations, and count to whom a value was handed. `compare_exchange_weak` may
fail spuriously (`PushRetry`). A thread may be a producer, a consumer, a clearer, an observer (peek,
read_all), a querier (len, is_empty, is_full) and an accessor (iter, fetch_add_at, fetch_sub_at) in any
combination, by the six constants. `PushOrders` and `LoadOrders` are the orderings given to push and to
pop, peek and read_all; `Fresh` is what slots hold before the first push, the default or, after
`new_uninit`, anything.
*Memory order.* The indices and the commit statuses are loaded with Acquire and stored with Release but
for the accesses in which a thread reserves a slot, and pop, peek and read_all meet an element only after
they have acquired the commit of its slot (iter does not, and is checked in the hands of the only producer).
The model interleaves these accesses, and takes a load of an older value for one that happened earlier. Two
reorderings are left that matter, both of an access to `read_idx` with a later access of the same thread to a
slot, and both gone if the latter releases and the load of the slot in pop acquires; `Unordered` says that there
are orderings for which this is not so.
(1) `OverwriteSwap`, and the `compare_exchange` before it (`OverwriteAdvance`), which is Relaxed when it fails, may
take effect in either order. The model has both (label `ow_late`).
(2) The store of `read_idx` by `clear` (`ClearStoreRead`), and the `slot.store` of a push that the same thread
makes afterwards (`PushStoreSlot`), may as well. This the model has not: as nothing but a pop by the other side ends
the delay, the store would have to wait through any number of later calls of its thread. `ClearIsOrdered`, an
assumption on the constants, excludes the instances in which it could happen: if a producer clears, its slot
stores must be ordered. What the code may do otherwise is described at the end of section 3.
*Values.* A push is given a value of its own below `Unit`; additions are multiples of `Unit`, so that it
can still be told which push a value comes from.
**AtomicFull** adds a ghost that knows whether the buffer was full during a call. **AtomicQueue** is what
the buffer promises: entries are reserved at the back, published in any order, taken or evicted at the front.

**GenericRing**: one step per call. `AsSlices` computes the slots of the two slices; writing through
`as_mut_slices` is an action over them. `iter` and `iter_mut` borrow the buffer: while `left` is not
`<< >>` only the iterator moves, `IterNext` and `IterNextBack` in any turn, and `IterAssign` writes
through what it has lent out. `CloneSelf` goes on with a clone, so that everything after it is checked of
the clone. The kind of the buffer is chosen in `Init`. **BoundedQueue** is its abstract counterpart, with
what each call returns.

**Storage**: the generic buffer and its clone once more, for elements that are not `Copy`. An element is a
name that is *free*, *held* by the owner, in a live cell of a buffer, or leaked. Moves copy the bits and
leave the cell as it is; destructors run in `DropHeld` and `Clear`, and may panic in the latter; `T::clone`
may panic in `ClonePanics`. The capacity is rounded from a request, and `Allocated` cells exist for it.
`IsPowerOfTwo` says that every divisor but 1 is even, since the provers know nothing of `^`; `MCStorage`
has TLC check that this is the same (`PowersOfTwo`). **OwnedQueue** is what the owner of the elements sees of
it: two queues, that of the clone being there or not, without cells, indices or rounding. A `clear` whose
destructor panics gives back some of the oldest elements, a `clone` that panics leaks what it has made.

Definitions with a comment `mutation:` stand before the definition they distort. Nothing in the
specifications uses them: each is the way a plausible mistake in that place would look, and
replacing the definition by it makes TLC find a violation of the properties named in
`PROJECT.json`. They show that the properties depend on the code.

## 3. Model checking

| Run | Question | Instance |
|---|---|---|
| `spsc` | safety and refinement of Fifo; delivery, retried push, end of the loops | 2 slots, 4 index values, 2 values, slices up to 3 |
| `atomic_mpmc` | rejecting, two producers, two consumers, refinement of AtomicQueue | 2 slots, 6 pushes; orderings with and without panic |
| `atomic_overwrite` | overwriting, one producer that also clears, two consumers of which one observes, uninitialised slots, refinement | 2 slots, 5 pushes; the swap releases, the load acquires |
| `atomic_owner` | overwriting; the producer also clears, iterates, asks and adds by offset, beside a consumer that observes | 2 slots, 4 pushes, 2 additions, 20 values |
| `atomic_live` | every reserved element gets out, and pop misses none; rejecting, two producers, a consumer that also asks | 2 slots, 4 pushes |
| `generic` | both kinds: refinement of BoundedQueue, slices, iterators | 4 slots, 8 index values, slices up to 5 |
| `storage` | ownership and initialisation, rounding, stack or heap; refinement of OwnedQueue | requests 0, 2, 3; arrays of 0, 2, 3 cells; 8 index values; 4 elements |

*Bounds.* In Spsc and GenericRing nothing but the constants is bounded: `Modulus` is small, the
indices wrap, and the threads call for ever. `MaxBatch` above `Capacity` includes slices that cannot
fit and batches that wrap. In AtomicRing `MaxPush` bounds the number of pushes, two to three laps of
the buffer: the first lap meets `usize::MAX` and default elements, the second meets the
previous lap's status and element, the third repeats that. The model assumes
(`AtomicAssumption`) that the index does not wrap within the bound. `MaxAdd` bounds the additions: two, so
that one can be undone, or hit the slot of the other on the next lap. In Storage the number of elements bounds
what exists at once: four are a full buffer of two cells and its clone, or one held while a buffer of two
overwrites. `MCStorage` compares states without the bits in cells that own nothing (`VIEW`): no action
reads them while the invariants hold. Elements are interchangeable, hence its symmetry. Thread symmetry is used where
producers, and consumers, are interchangeable and only safety is checked. Deadlock is checked in the
models where consumers go on for ever; in Spsc both handles may be dropped, which ends the system, as the
buffers may in Storage, and in `atomic_lost`, where nobody consumes, the pushes run out.

*What the properties say.* Each is stated in words above its definition. The ones to know:
`NoDataRace` (slots are never accessed without a happens-before edge), `ImplementsFifo`,
`QueriesAreSafe` (the producer's view is never below and never above the capacity, the consumer's
never above the truth), `FailureIsHonest`, `DropAfterJoinIsClean`, `Delivery`; `ExactlyOnce`,
`PublishedIsIntact`, `DeliveredInOrder`, `HeadIsPoppable`, `SnapshotIsPrefix`, `OverwriteIsReported`, `Drained`,
`QueriesAreSafe` again, which says what the only producer or consumer may conclude from a query, and
`NoneIsHonest`, which says what the only consumer may conclude from a pop that returns `None`;
`ImplementsAtomicQueue`; `SlicesShowContents`, `IteratorsMeet`, `ImplementsQueue`; `OneOwner`, `AccessIsSound`, `ImplementsOwnedQueue`.

*Fairness.* A thread that is inside a call continues (weak fairness of its steps). In Spsc the
owners of the handles keep calling: this is how the tests, loom tests and examples use them, retrying
on Full and Empty. Strong fairness there allows them to query in between. A location that is loaded again
and again eventually shows its newest store, which the memory model asks of implementations (the
fair action is the load that returns it). In AtomicRing nobody has to push; consumers keep popping,
also if they ask queries in between, which is why theirs is strong fairness,
and a `compare_exchange_weak` that could succeed again and again does not fail spuriously for ever.
Nothing is assumed about dropping, clearing, observing or joining.

### Where the code and its documentation differ

These runs end in a counterexample, on purpose: the property is what a comment or document says.

| Run | What happens |
|---|---|
| `spsc_leak` | Elements pushed while or after the Consumer is dropped are never dropped. `DropAfterJoinIsClean` is what does hold. |
| `atomic_false_full` | With two producers a rejecting push may answer Err although the buffer was full at no moment of the call. |
| `atomic_lost` | Of two overwriting producers one finds room and sleeps before its swap. The other laps it, moves `read_idx` past that slot and fills it. The first then swaps the new element out and returns `None`, since it never tried to move `read_idx`. The same comes of two pushes that compete for one advance of `read_idx`: the loser swaps an element out too. |
| `atomic_overtaken` | A consumer that clears stores the `write_idx` it loaded before; `read_idx` may move beyond an overwriting push, which then reports an element it has not overwritten (`OverwroteAnElement`). |
| `atomic_reordered` | With Relaxed, as in the loom test, the swap of an overwriting push may overtake the failed `compare_exchange`: the new element is popped twice, the old one is lost. With orderings that release and acquire `ExactlyOnce` holds (`atomic_overwrite`). |

The race of `atomic_lost` has a second effect, seen by checking `HeadIsPoppable` in that instance:
`write_idx` stays more than a lap ahead of `read_idx`, the head slot carries a later commit status, and
pop returns `None` from a buffer that reports itself full although no call is in progress.
`src/tests/atomic.rs:557` expects 64 elements after eight threads have pushed, and looks at `len()` only.

Noted without a run:

* Two overwriting producers need no clear for what `atomic_overtaken` shows, and more. One reserves index 0
  (`src/atomic.rs:69`) and sleeps before it loads `read_idx`; the other pushes until it has overwritten that
  slot and moved `read_idx` to 1. The first then loads 1, which is ahead of its own index: the wrapping difference
  (line 72) looks like a full buffer, and it moves `read_idx` past an element that was not overwritten. In that
  instance `ExactlyOnce`, `DeliveredInOrder`, `PublishedIsIntact` and `OverwroteAnElement` are violated, beside
  what `atomic_lost` checks; `TypeOK` and `IndicesAreMonotone` hold.
* With two consumers, or when pushes overwrite, `pop` may return `None` from a buffer that was empty at no
  moment of the call: the commit status it looks at (`src/atomic.rs:307`) may be that of a later lap. Its
  documentation does not say what `None` means; `NoneIsHonest` is what the only consumer may rely on.
* `push_slice` of the SPSC buffer with a stale cached index pushes only what the cache shows
  (`src/spsc.rs:344`), although the producer may know of more room and line 303 says "as many elements as
  possible".
* `read_all` beside several producers, or an overwriting one, may return a newer element before an older
  one (`src/atomic.rs:431`); `SnapshotIsPrefix` is what does hold.
* `clear` of the atomic buffer by another thread than the producer may also move `read_idx` back
  (`src/atomic.rs:392`). By the only producer it is safe if its pushes release and the pops acquire
  (`atomic_overwrite`, `IndicesOnlyAdvance`). It is not with Relaxed, as nothing orders the Release store of `read_idx`
  before the Relaxed `slot.store` of the next push (`src/atomic.rs:141`). In a rejecting buffer of one slot: the
  producer pushes *a*; a pop loads `read_idx` 0 and the commit status 0; the producer clears and pushes *b*; the pop,
  whose load of the slot may return *b*, wins its `compare_exchange` on `read_idx`, which comes before clear's store in
  the modification order; it returns *b*, and so does the next pop. No run shows it, as the model leaves this
  reordering out.
* A push whose ordering `store` refuses panics after it has reserved the slot (`src/atomic.rs:141`), and pops
  stop there for good. `HeadIsPoppable` and the queue entries that are never published say so.
* Another thread than the only producer or consumer may be told by `is_full` that an empty atomic buffer
  is full, as `len` loads the indices one after the other (`src/atomic.rs:230`).
* `fetch_add_at` asks for `offset < len()`, which counts reserved slots; beside a pop the addition may
  come after the load, and is lost (`src/atomic.rs:360`). If a pop comes between the caller's check and the load of
  `read_idx`, the offset may lead to a slot that is not reserved; the only producer's next push overwrites it
  (`EditCheck`, `EditLoadRead` in `atomic_owner`).
* `with_capacity` of more than 2^63 elements panics in a debug build and makes a buffer of capacity 0 in a
  release build (`src/core.rs:488`); no allocation could serve it.
* An overwriting `push_slice` of the generic buffer starts its `drop_in_place` loop
  at the first slot it writes rather than at the oldest element (`src/generic.rs:759`), without effect as
  `T: Copy` excludes destructors.
* `README.md:341` says the atomic buffer "Always overwrites", while `OVERWRITE = false` rejects;
  `README.md:497` calls the generic buffer thread-safe for concurrent writers, while its writers take
  `&mut self`.
* `README.md:510` says that `Producer` and `Consumer` are not `Sync`. They are for `T: Send`: their fields are an
  `Arc` of a type whose core is declared `Sync` (`src/core.rs:466`) and a `usize`. What moves elements or indices
  takes `&mut self`, so that each handle still has one user at a time, as `Spsc` assumes.

## 4. Proofs

Every theorem holds for all values of the constants that satisfy the named assumptions of the modules;
TLC evaluates these on each run. Each inductive invariant was checked with TLC, on the instances of
section 3, before it was proved.

| Module | Theorems | Assumed, beside the constants' assumptions |
|---|---|---|
| `RingIndexProofs` | `CopySlotIsSlotOf`, `WindowIsInjective` | |
| `SpscProofs` | `TypeCorrect`, `NoRace`, `SafeQueries`, `HonestFailure`, `CleanDrop`, `Refinement` | |
| `AtomicProofs` | `TypeCorrect` | |
| `AtomicSafety` | `ElementsAreIntact`, `FatesAreExclusive`, `PopsAreInOrder`, `WhatIsCountedCanBePopped`, `IndicesOnlyAdvance`, `OverwritesAreOfElements` | `Disciplined` |
| | `NothingDisappears` | and the buffer overwrites, or no store panics |
| `AtomicViews` | `WhatIsReadIsTheFront` | `Disciplined`, `Iterable` |
| | `AnswersAreSafe`, `NoPushIsMissed` | `Disciplined`, and the buffer overwrites or `Rejecting` |
| | `ErrIsForWantOfRoom` | `Disciplined`, at most one producer |
| `AtomicRefinement` | `Refinement` | `Disciplined` |
| `GenericProofs` | `TypeCorrect`, `SlicesAreContents`, `IteratorsAreExact`, `Refinement` | |
| `StorageProofs` | `PowersDivide`, `TypeCorrect`, `EveryElementHasOneOwner`, `AccessesAreSound`, `Refinement` | |

### Indices

`RingIndexProofs`: `Capacity` is positive, divides `Modulus`, and is at most half of it. Distances between
wrapped indices behave like differences as long as they stay within the bounds (`AdvanceFront`,
`AdvanceBack`, `AdvanceTwice`, `AdvanceByDistance`); advancing an index by `n` advances its slot by `n`
modulo the capacity, also across the wrap (`SlotOfAdvance`, where divisibility is needed); hence
`CopySlotIsSlotOf` and `WindowIsInjective`.

### SPSC

The properties are not inductive. What makes them so is the order in which the indices
a thread may hold are chained: `readIdx`, the stores the producer may load, `knownRead`, `cachedRead`,
seen from `writeIdx` and all within one lap (`ProducerKnows`); and `cachedWrite`, `knownWritten`, the
stores the consumer may load, `writeIdx`, seen from `readIdx` (`ConsumerKnows`). `PushInProgress` and
`PopInProgress` say what a call in progress has put into, or found in, its slots, and that its range
stays within the cached index; `Filled`, that every queued slot holds a value. `Inv` is their
conjunction with `TypeOK`; `NextInv` proves it inductive, one lemma per action. From it:

* `TypeCorrect`, `NoRace`, `SafeQueries`: invariants.
* `HonestFailure`: an action property.
* `CleanDrop`: with a second invariant on top, that after the join nothing is pushed any more.
* `Refinement`: `Spec => ImplementsFifo`. Every step is matched with `Offer`, `Enqueue`, `Take`, `Remove`
  or stuttering; the core is that the slots written by a push in progress are apart from those queued.

### Atomic

Any sets of threads, any capacity and bound; all orderings that `ClearIsOrdered` admits. `TypeCorrect` holds however
the buffer is shared. The other theorems need some discipline of the threads; counterexamples show what happens without.

* `Disciplined`: only a thread that is the only producer clears, iterates or adds by offset (`atomic_overtaken`
  for clear; an addition by another may hit an element of the next lap); a buffer that overwrites has one producer (`atomic_lost`); in a buffer that
  overwrites or is cleared, pushes release and pops acquire (`atomic_reordered`, and the end of section 3 for clear). A
  rejecting buffer that nobody clears may have any number of producers and any orderings; either kind has any number
  of consumers, observers and queriers. All passing runs are disciplined.
* `Iterable`: iter does not look at the commit status, and would show a slot whose push has panicked.
* `Rejecting`: pushes are rejected and nobody clears but consumers. A clear by a producer would take away the
  elements that the only consumer has been told of, as an overwriting push does, where `QueriesAreSafe`
  promises the consumer nothing.

`Safe` is the inductive invariant. Its parts, and what they are needed for:

| Part | Says | Needed, since |
|---|---|---|
| `Window` | the indices are a lap apart at most, or one more while an overwriting push has reserved and not yet advanced; what a thread has loaded is not ahead | every comparison of a thread is with an index it loaded earlier |
| `Reservations` | a reserved slot that is not committed belongs to one thread, which still has to fill it | otherwise two pushes would store into one slot |
| `Statuses`, `Contents` | a slot that nothing newer was written to carries the status of its lap or is pending, or abandoned by a push that panicked; if committed, its element can be told, and has what was added to it until it is taken | `Current` also includes slots behind `readIdx`: a slow pop or an overwriting swap reads these |
| `Popping` | a pop whose `compare_exchange` may succeed has read the head, which is committed | that the value was read before the element was won |
| `Overwriting`, `Accounts` | the element under a push that has won `read_idx` is neither popped nor cleared, it is *in limbo* until the push returns it; each other element behind `readIdx` has one fate | `ExactlyOnce` speaks of quiescent moments too, and is not inductive |
| `Deliveries` | what was popped lies behind `readIdx`, in order | |
| `SoleView` | what the only producer has loaded of `write_idx` is the truth | clear, iter and additions rely on it |

`SafeStep` proves it inductive in this order, part by part, from lemmas on what one step does to each
variable (`ReadStep`, `LogStep` and so on); most parts are disturbed by few of the actions. `AtomicViews` adds what a thread that reads has seen so far
(`Views`), and what the only consumer has been told (`Asked`): that nobody moves `read_idx` under it, so that an
index it has loaded is still the head when it finds the commit status missing, and the head is then reserved by
a push in progress, or abandoned (`NoPushIsMissed`). `ErrIsForWantOfRoom` is about `AtomicFull`: the only producer has
loaded `read_idx` first, and nobody else moves `write_idx`, so that if the two look a lap apart later they were so
when `read_idx` was loaded (`Refused`). The order of the two loads is what the comment at `src/atomic.rs:116`
is about; `atomic_false_full` shows that it does not help when there is a second producer.
`AtomicRefinement` maps `Entries`, the indices between `readIdx` and `writeIdx` with their elements and
statuses, to the queue: a reservation is `Reserve`, a commit `Publish`, a pop that wins `Take`, an overwriting
push that wins `Evict`, a store by clear `Clear`; all other steps leave `Entries` alone (`OthersStutter`).

### Generic

`Inv`: the indices are a lap apart at most and every slot between them holds an element (`Buffer`); while an
iterator exists, what it has left and what it has lent out are as many slots as there are elements
(`Borrowing`), in the right order (`IteratorsMeet`). The proof sees the elements as a `Window` of the
storage: lemmas say what extending, dropping from, writing to and copying into a window do
(`WindowExtend`, `WindowDrop`, `WindowWrite`, `WindowCopyIn`). Then one lemma per call (`PushOverwriteIs`,
`PopSliceIs`, `PushPartIs`, ...) states at once that it keeps `Buffer` and which call of `BoundedQueue` it
is, with the value it returns; `IterNextIs` and `IterNextBackIs` do the same for the iterators.
`SlicesAre` computes the two slices for the empty, full, straight and wrapped case.

### Storage

`Inv` has four parts. `Shape`: types, and the capacity is what `RingIndex` assumes of one. `Windows`: a buffer
that exists has cells for its capacity, is not overfull, and no element is in two cells between its indices.
`Copying`: a clone that is being made starts where the original does, and has not passed its end. `Owners`:
the free, the held, the leaked, the original's and the clone's elements are all of them, and disjoint.
`OneOwner` is nearly inductive; `Windows` adds that a push writes to a cell that owns nothing. What one step
has to show is put into `OneBufferChanges` and `NoBufferChanges`; each action shows how the owned elements
move, by `OwnsOneMore` and `OwnsFewer`.

That indices which wrap keep their cell takes that the rounded capacity divides 2^64. `PowersDivide` proves
it of powers of two by the least counterexample (`WFMin`, as induction theorems cannot be used): half of
a power of two is one, and divides half of the greater. `RoundIs` shows that rounding has a result, at least
what was requested and a divisor of `Modulus`; `Init` starts from there.

`Refinement` adds the order of the elements: `Spec => ImplementsOwnedQueue`. `ContentsIs` reads the sequence of a
buffer off its indices; dropping `n` of the oldest is `SubSeq` of it (`ContentsDrop`), writing behind the newest is
`Append` (`ContentsAppend`, which needs that the other cells keep what they have, hence `Windows`). A call changes one
queue and leaves the other (`OneQueueChanges`, `QueueDrops`, `QueueGrows`), and one lemma per action maps it to the
step of the same name, the push of a full buffer that rejects to stuttering. That a clone which ends is
complete follows from `Copying`: the two windows start at one index, and end at one.

### What is only model-checked

* Liveness (`Delivery`, `RetriedPushSucceeds`, `LoopEnds`, `Drained`): out of the prover's reach.
* `MaskIsRemainder`: it is about `&`, of which the provers know nothing.
* `PowersOfTwo`, for the same reason about `^`.
* `ExactlyOnce` and the others in instances that are not `Disciplined`: nothing is claimed, as the
  counterexamples show.

## 5. What is not modelled

* Weak memory of the atomic buffer beyond the first reordering described in section 2; the second, that of a clear
  with the next push of the same thread, is excluded by `ClearIsOrdered`. Indices that wrap while a thread is in
  the middle of a call.
* Which types implement the element traits, the feature shim, formatting, benchmarks: no decision that
  the properties depend on. `FixedVec::clone`, which nothing in the crate calls.
* Panics in the destructors of elements of the SPSC buffer, and of a clone that is dropped by unwinding.
* Requests above half of the index range.

## 6. Plan

In this order; all are done.

1. `RingIndex`, `Spsc`, `Fifo`, with their proofs.
2. `AtomicRing`: all threads, both modes, clear and observers; `AtomicFull`.
3. `GenericRing`, `BoundedQueue`.
4. `AtomicRing`: queries, `iter`, `fetch_add_at`, the element traits and the orderings.
5. `AtomicQueue` and the refinement.
6. The iterators from both ends; `Storage`: rounding, allocation, ownership, panics.
7. Proofs of `AtomicRing`: `Safe`, what threads may conclude, the refinement.
8. Proofs of `GenericRing`: calls, slices, iterators, the refinement.
9. Proofs of `Storage`: powers of two, ownership, initialisation.
10. `OwnedQueue` and the refinement of `Storage`; what the only consumer may conclude from `None`, and the only
    producer from `Err`.

What `Disciplined` excludes has been looked at with TLC: of two overwriting producers nothing is left to prove but
`TypeCorrect`, which holds of any threads, and that the indices only advance if nobody clears (section 3).
