----------------------------- MODULE OwnedQueue -----------------------------
(***************************************************************************)
(* What a generic ring buffer and a clone of it promise the owner of the   *)
(* elements: two queues from which elements come in the order in which     *)
(* they were pushed, without storage, indices or rounding.  Elements are   *)
(* named, not valued: each is in one queue, held, leaked or does not exist.*)
(***************************************************************************)
EXTENDS Integers, Sequences

CONSTANT Element

VARIABLES overwrite, capacity,
          exists,    \* the buffers there are
          queue,     \* their elements, oldest first; none if the buffer is not there
          cloning,   \* the clone is being made
          free, held, leaked

ownedVars == <<overwrite, capacity, exists, queue, cloning, free, held, leaked>>

Name == {"original", "clone"}
Rest(q, n)   == SubSeq(q, n + 1, Len(q))
Oldest(q, n) == {q[k] : k \in 1 .. n}

Init ==
    /\ overwrite \in BOOLEAN /\ capacity \in Nat \ {0}
    /\ exists = {"original"} /\ queue = [b \in Name |-> << >>]
    /\ cloning = FALSE
    /\ free = Element /\ held = {} /\ leaked = {}

Make == \E e \in free :
    /\ held' = held \cup {e} /\ free' = free \ {e}
    /\ UNCHANGED <<exists, queue, cloning, leaked>>

DropHeld == \E e \in held :
    /\ held' = held \ {e} /\ free' = free \cup {e}
    /\ UNCHANGED <<exists, queue, cloning, leaked>>

Ready(b) == b \in exists /\ ~cloning

\* The element comes to the end; a full queue gives up its oldest for it, or takes none,
\* which is a step that changes nothing.
Push(b, e) ==
    /\ Ready(b) /\ e \in held
    /\ \/ /\ Len(queue[b]) < capacity
          /\ queue' = [queue EXCEPT ![b] = Append(@, e)]
          /\ held' = held \ {e}
       \/ /\ Len(queue[b]) = capacity /\ overwrite
          /\ queue' = [queue EXCEPT ![b] = Append(Rest(@, 1), e)]
          /\ held' = (held \ {e}) \cup Oldest(queue[b], 1)
    /\ UNCHANGED <<exists, cloning, free, leaked>>

Pop(b) ==
    /\ Ready(b) /\ Len(queue[b]) > 0
    /\ queue' = [queue EXCEPT ![b] = Rest(@, 1)]
    /\ held' = held \cup Oldest(queue[b], 1)
    /\ UNCHANGED <<exists, cloning, free, leaked>>

\* All elements are dropped, or only some of the oldest if a destructor panics.
Clear(b) ==
    /\ Ready(b)
    /\ \E n \in 1 .. Len(queue[b]) :
         /\ queue' = [queue EXCEPT ![b] = Rest(@, n)]
         /\ free' = free \cup Oldest(queue[b], n)
    /\ UNCHANGED <<exists, cloning, held, leaked>>

\* A buffer is no more, and nobody has its elements.
Abandon(b) ==
    /\ exists' = exists \ {b}
    /\ queue' = [queue EXCEPT ![b] = << >>]
    /\ leaked' = leaked \cup Oldest(queue[b], Len(queue[b]))
    /\ UNCHANGED <<free, held>>

DropBuffer(b) == Ready(b) /\ Abandon(b) /\ UNCHANGED cloning

CloneBegin ==
    /\ Ready("original") /\ "clone" \notin exists
    /\ cloning' = TRUE /\ exists' = exists \cup {"clone"}
    /\ UNCHANGED <<queue, free, held, leaked>>

Short == Len(queue["clone"]) < Len(queue["original"])

CloneElement ==
    /\ cloning /\ Short
    /\ \E e \in free :
         /\ queue' = [queue EXCEPT !["clone"] = Append(@, e)]
         /\ free' = free \ {e}
    /\ UNCHANGED <<exists, cloning, held, leaked>>

ClonePanics == cloning /\ Short /\ Abandon("clone") /\ cloning' = FALSE

\* The clone has one element for each of the original's.
CloneEnd ==
    /\ cloning /\ Len(queue["clone"]) = Len(queue["original"])
    /\ cloning' = FALSE
    /\ UNCHANGED <<exists, queue, free, held, leaked>>

Step ==
    \/ Make
    \/ DropHeld
    \/ \E b \in Name :
         \/ \E e \in Element : Push(b, e)
         \/ Pop(b)
         \/ Clear(b)
         \/ DropBuffer(b)
    \/ CloneBegin
    \/ CloneElement
    \/ ClonePanics
    \/ CloneEnd

Next == Step /\ UNCHANGED <<overwrite, capacity>>

Spec == Init /\ [][Next]_ownedVars
=============================================================================
