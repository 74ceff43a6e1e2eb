---------------------------- MODULE AtomicQueue ----------------------------
(***************************************************************************)
(* What the atomic ring buffer promises the threads that share it: a FIFO  *)
(* queue in which an entry is first reserved and published later, in any   *)
(* order, and taken from the front only once it is published.  When the    *)
(* queue overwrites, an entry may be reserved beyond the capacity; until   *)
(* the front is given up, by that push or to a pop, there is one too many. *)
(***************************************************************************)
EXTENDS Integers, Sequences

CONSTANTS Capacity, Overwrite,
          PushId       \* the elements

VARIABLES queue,       \* entries [val, ready], oldest first
          delivered    \* what was taken, in order

Init == queue = << >> /\ delivered = << >>

Reserve(v) ==
    /\ Len(queue) < Capacity + (IF Overwrite THEN 1 ELSE 0)
    /\ \A k \in 1 .. Len(queue) : queue[k].val # v
    /\ queue' = Append(queue, [val |-> v, ready |-> FALSE])
    /\ UNCHANGED delivered

Publish(k) ==
    /\ k \in 1 .. Len(queue) /\ ~queue[k].ready
    /\ queue' = [queue EXCEPT ![k].ready = TRUE]
    /\ UNCHANGED delivered

Take ==
    /\ queue # << >> /\ Head(queue).ready
    /\ queue' = Tail(queue)
    /\ delivered' = Append(delivered, Head(queue).val)

\* Only to make up for an entry too many
Evict ==
    /\ Len(queue) > Capacity
    /\ queue' = Tail(queue)
    /\ UNCHANGED delivered

Clear == queue' = << >> /\ UNCHANGED delivered

Next ==
    \/ \E v \in PushId : Reserve(v)
    \/ \E k \in 1 .. Len(queue) : Publish(k)
    \/ Take
    \/ Evict
    \/ Clear

Spec == Init /\ [][Next]_<<queue, delivered>>
=============================================================================
