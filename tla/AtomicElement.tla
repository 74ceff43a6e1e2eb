--------------------------- MODULE AtomicElement ---------------------------
(***************************************************************************)
(* The elements of the atomic ring buffer (src/atomic/traits.rs): the      *)
(* traits AtomicElement and AtomicNumeric, implemented by macros for the   *)
(* atomic types of the standard library, of portable-atomic and of loom.   *)
(* Every operation takes the caller's ordering and hands it on.  Which     *)
(* orderings an operation accepts and what they order is the library's.    *)
(***************************************************************************)
EXTENDS Integers

CONSTANT Width   \* number of values of the primitive type

ASSUME WidthAssumption == Width \in Nat \ {0}

\* Self::Primitive: an unsigned integer, or a signed one by its bits
Value == 0 .. Width - 1

Order == {"Relaxed", "Release", "Acquire", "AcqRel", "SeqCst"}

\* The ordering that reaches the element: itself, whichever macro implements the type.
CoreOrder(o) == IF o \in Order THEN o ELSE "SeqCst"

\* load panics with an ordering that releases only, store with one that acquires.
LoadPanics(o)  == CoreOrder(o) \in {"Release", "AcqRel"}
StorePanics(o) == CoreOrder(o) \in {"Acquire", "AcqRel"}

\* Nothing before a releasing store or swap is performed after it.
Releases(o) == CoreOrder(o) \in {"Release", "AcqRel", "SeqCst"}

\* Nothing after an acquiring load is performed before it.
Acquires(o) == CoreOrder(o) \in {"Acquire", "AcqRel", "SeqCst"}

\* What fetch_add and fetch_sub leave in the element; both wrap.
FetchAdd(v, n) == (v + n) % Width
FetchSub(v, n) == (v - n) % Width
=============================================================================
