------------------------------ MODULE Storage ------------------------------
(***************************************************************************)
(* Where the elements of a generic ring buffer live and who owns them:     *)
(* FixedVec (src/vec.rs), element access, new and clone of the core        *)
(* (src/core.rs), and the calls of src/generic.rs that move elements, for  *)
(* a type T whose destructor and whose clone may both panic.               *)
(*                                                                         *)
(* The storage holds MaybeUninit<T> and runs no destructors; nor does the  *)
(* buffer.  A cell keeps the bits of an element that was moved out of it,  *)
(* and only the indices say which cells own what they hold.  The owner of  *)
(* the buffer holds what it has made, popped or got back, and drops it or  *)
(* pushes it again.  An element is named by its identity; the name is used *)
(* again once the element is dropped.                                      *)
(***************************************************************************)
EXTENDS Integers

CONSTANTS Requests,     \* capacities asked for
          Thresholds,   \* values of N
          Modulus,      \* number of values of an index
          Element,      \* names of elements; bound: how many exist at once
          Uninit        \* the content of a cell never written

\* Only 1 among its divisors is odd.
IsPowerOfTwo(c) == c > 0 /\ \A d \in 1 .. c : c % d = 0 => d = 1 \/ d % 2 = 0

\* Above half of the range, the next power of two overflows.
ASSUME StorageAssumption ==
    /\ Modulus \in Nat /\ Modulus > 1 /\ IsPowerOfTwo(Modulus)
    /\ \A n \in Requests : n \in Nat /\ 2 * n <= Modulus
    /\ Thresholds \subseteq Nat
    /\ Uninit \notin Element

VARIABLES overwrite,   \* OVERWRITE, a parameter of the buffer's type
          capacity,    \* core.capacity; core.mask is one less
          cells,       \* the storage of a buffer and of a clone of it
          readIdx, writeIdx,
          cloning,     \* a clone is being made; its writeIdx is the loop's `i`
          free, held,  \* elements that do not exist, and those the owner holds
          leaked       \* ghost: elements nobody will ever drop

vars == <<overwrite, capacity, cells, readIdx, writeIdx, cloning, free, held, leaked>>

Buffer == {"original", "clone"}
Gone   == << >>      \* the storage of a buffer that does not exist

IncNoWrap(i, n) == i + n    \* mutation: the index does not wrap
Inc(i, n)  == (i + n) % Modulus
Dist(i, j) == (i - j) % Modulus

-----------------------------------------------------------------------------
(* Allocation *)

RoundNot(n) == IF n = 0 THEN 1 ELSE n    \* mutation: the capacity that was asked for

\* round_to_power_of_two
Round(n) == IF n = 0 THEN 1 ELSE CHOOSE c \in n .. 2 * n - 1 : IsPowerOfTwo(c)

OneCellMore(c, n) == IF c <= n + 1 THEN n ELSE c   \* mutation: <= for <

\* The number of cells of FixedVec::with_capacity(c): an array of N, or a box
Allocated(c, n) == IF c <= n THEN n ELSE c

\* Storage, once its length is set: cells numbered from 0, none initialised
Fresh(size) == [k \in 0 .. size - 1 |-> Uninit]

-----------------------------------------------------------------------------
(* Access to the cells *)

\* index & mask
Masked(i) == i % capacity

\* read_at, which leaves the bits where they are, and peek_at
At(b, i) == cells[b][Masked(i)]

\* write_at, replace_at
Put(b, i, e) == [cells EXCEPT ![b][Masked(i)] = e]

Exists(b) == cells[b] # Gone
Used(b)   == Dist(writeIdx[b], readIdx[b])

\* The indices whose cells own an element, and these elements
Live(b)    == IF Exists(b) THEN {Inc(readIdx[b], n) : n \in 0 .. Used(b) - 1} ELSE {}
OwnedBy(b) == {At(b, i) : i \in Live(b)}

-----------------------------------------------------------------------------
(* The owner *)

Make == \E e \in free :
    /\ held' = held \cup {e} /\ free' = free \ {e}
    /\ UNCHANGED <<overwrite, capacity, cells, readIdx, writeIdx, cloning, leaked>>

DropHeld == \E e \in held :
    /\ held' = held \ {e} /\ free' = free \cup {e}
    /\ UNCHANGED <<overwrite, capacity, cells, readIdx, writeIdx, cloning, leaked>>

\* Only a buffer that exists is called, and none while it is being cloned.
Ready(b) == Exists(b) /\ ~cloning

\* push.  On a full buffer the element comes back, or the oldest whose place it takes.
Push(b, e) ==
    /\ Ready(b) /\ e \in held
    /\ LET full == Used(b) >= capacity
       IN  IF full /\ ~overwrite
           THEN UNCHANGED <<cells, readIdx, writeIdx, held>>
           ELSE /\ cells' = Put(b, writeIdx[b], e)
                /\ writeIdx' = [writeIdx EXCEPT ![b] = Inc(@, 1)]
                /\ readIdx' = IF full THEN [readIdx EXCEPT ![b] = Inc(@, 1)] ELSE readIdx
                /\ held' = (held \ {e}) \cup
                           (IF full THEN {At(b, writeIdx[b])} ELSE {})
    /\ UNCHANGED <<overwrite, capacity, cloning, free, leaked>>

Pop(b) ==
    /\ Ready(b) /\ Used(b) > 0
    /\ held' = held \cup {At(b, readIdx[b])}
    /\ readIdx' = [readIdx EXCEPT ![b] = Inc(@, 1)]
    /\ UNCHANGED <<overwrite, capacity, cells, writeIdx, cloning, free, leaked>>

LastNotPopped(b, n) == IF n < Used(b) THEN n - 1 ELSE n
                                         \* mutation: read_idx moves after the drop

\* How far read_idx has moved when the n-th destructor runs: pop has returned.
Popped(b, n) == n

\* clear: the elements are popped and dropped one by one, all of them or, if a
\* destructor panics, up to that one.
Clear(b) ==
    /\ Ready(b)
    /\ \E n \in 1 .. Used(b) :
         /\ free' = free \cup {At(b, Inc(readIdx[b], k)) : k \in 0 .. n - 1}
         /\ readIdx' = [readIdx EXCEPT ![b] = Inc(@, Popped(b, n))]
    /\ UNCHANGED <<overwrite, capacity, cells, writeIdx, cloning, held, leaked>>

\* The buffer goes out of scope.  Neither RingBuf nor FixedVec has a Drop: what is
\* still in it is not dropped.
DropBuffer(b) ==
    /\ Ready(b)
    /\ cells' = [cells EXCEPT ![b] = Gone]
    /\ leaked' = leaked \cup OwnedBy(b)
    /\ UNCHANGED <<overwrite, capacity, readIdx, writeIdx, cloning, free, held>>

-----------------------------------------------------------------------------
(* clone *)

\* A storage of the same size, and the loop from read to write
CloneBegin ==
    /\ Ready("original") /\ ~Exists("clone")
    /\ cloning' = TRUE
    /\ cells' = [cells EXCEPT !["clone"] = [k \in DOMAIN cells["original"] |-> Uninit]]
    /\ readIdx' = [readIdx EXCEPT !["clone"] = readIdx["original"]]
    /\ writeIdx' = [writeIdx EXCEPT !["clone"] = readIdx["original"]]
    /\ UNCHANGED <<overwrite, capacity, free, held, leaked>>

BitwiseCopy(i) == {At("original", i)}    \* mutation: the bits are copied

\* val.clone(): an element that did not exist
Cloned(i) == free

\* mutation: the loop stops one element early
AlmostCopied == Inc(writeIdx["clone"], 1) = writeIdx["original"]

\* The end of the loop
Copied == writeIdx["clone"] = writeIdx["original"]

\* One turn of the loop
CloneElement ==
    /\ cloning /\ ~Copied
    /\ \E e \in Cloned(writeIdx["clone"]) :
         /\ cells' = Put("clone", writeIdx["clone"], e)
         /\ free' = free \ {e}
    /\ writeIdx' = [writeIdx EXCEPT !["clone"] = Inc(@, 1)]
    /\ UNCHANGED <<overwrite, capacity, readIdx, cloning, held, leaked>>

\* Or T's clone panics: the new storage is freed, the clones made so far stay undropped.
ClonePanics ==
    /\ cloning /\ ~Copied
    /\ cloning' = FALSE
    /\ cells' = [cells EXCEPT !["clone"] = Gone]
    /\ leaked' = leaked \cup OwnedBy("clone")
    /\ UNCHANGED <<overwrite, capacity, readIdx, writeIdx, free, held>>

CloneEnd ==
    /\ cloning /\ Copied
    /\ cloning' = FALSE
    /\ UNCHANGED <<overwrite, capacity, cells, readIdx, writeIdx, free, held, leaked>>

-----------------------------------------------------------------------------
Init ==
    /\ overwrite \in BOOLEAN
    /\ \E n \in Requests, threshold \in Thresholds :
         /\ capacity = Round(n)
         /\ cells = [original |-> Fresh(Allocated(Round(n), threshold)), clone |-> Gone]
    /\ readIdx = [b \in Buffer |-> 0] /\ writeIdx = [b \in Buffer |-> 0]
    /\ cloning = FALSE
    /\ free = Element /\ held = {} /\ leaked = {}

Next ==
    \/ Make
    \/ DropHeld
    \/ \E b \in Buffer :
         \/ \E e \in Element : Push(b, e)
         \/ Pop(b)
         \/ Clear(b)
         \/ DropBuffer(b)
    \/ CloneBegin
    \/ CloneElement
    \/ ClonePanics
    \/ CloneEnd

Spec == Init /\ [][Next]_vars

-----------------------------------------------------------------------------
(* Properties *)

\* Every variable has its type.
TypeOK ==
    /\ overwrite \in BOOLEAN
    /\ capacity \in Nat \ {0}
    /\ \A b \in Buffer : \A k \in DOMAIN cells[b] : cells[b][k] \in Element \cup {Uninit}
    /\ readIdx \in [Buffer -> 0 .. Modulus - 1]
    /\ writeIdx \in [Buffer -> 0 .. Modulus - 1]
    /\ cloning \in BOOLEAN
    /\ free \subseteq Element /\ held \subseteq Element /\ leaked \subseteq Element

\* No element is owned twice, and none is lost but by dropping a buffer or a clone that
\* failed: so pop, an overwriting push, clear and clone, whether or not a destructor or
\* a clone panics in the middle, never have an element dropped twice, used after it was
\* dropped, or forgotten.
OneOwner ==
    /\ \A b \in Buffer : \A i, j \in Live(b) : At(b, i) = At(b, j) => i = j
    /\ OwnedBy("original") \cap OwnedBy("clone") = {}
    /\ free \cap held = {} /\ free \cap leaked = {} /\ held \cap leaked = {}
    /\ (free \cup held \cup leaked) \cap (OwnedBy("original") \cup OwnedBy("clone")) = {}
    /\ free \cup held \cup leaked \cup OwnedBy("original") \cup OwnedBy("clone") = Element

\* Whatever the capacity asked for and the threshold, on the stack or on the heap, every
\* index is masked to a cell that was allocated, and the unchecked accesses between the
\* indices find initialised elements.
AccessIsSound ==
    \A b \in Buffer : Exists(b) =>
        /\ \A i \in 0 .. Modulus - 1 : Masked(i) \in DOMAIN cells[b]
        /\ \A i \in Live(b) : At(b, i) \in Element

\* The elements of a buffer, oldest first
Contents(b) ==
    IF Exists(b) THEN [k \in 1 .. Used(b) |-> At(b, Inc(readIdx[b], k - 1))] ELSE << >>

Existing == {b \in Buffer : Exists(b)}
Queues   == [b \in Buffer |-> Contents(b)]

\* The buffer and its clone are queues of elements: wherever the indices stand and
\* wherever they wrap, each call, and each that panics in the middle, takes the oldest
\* elements and adds the newest, and a clone that is finished is as long as the original.
Owned == INSTANCE OwnedQueue WITH exists <- Existing, queue <- Queues
ImplementsOwnedQueue == Owned!Spec
=============================================================================
