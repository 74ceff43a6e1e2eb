---------------------------- MODULE BoundedQueue ----------------------------
(***************************************************************************)
(* What the generic ring buffer promises its owner: a queue of at most     *)
(* Capacity elements that, when full, either gives up its oldest elements  *)
(* to the new ones (overwrite) or refuses what does not fit.               *)
(***************************************************************************)
EXTENDS Integers, Sequences

CONSTANTS Capacity, Value,
          MaxBatch   \* bound: the longest slice

VARIABLES overwrite, \* which kind of queue it is
          queue,     \* the elements, oldest first
          given,     \* the elements the last call gave to the caller
          count      \* the number it returned, 0 if it returns none

queueVars == <<overwrite, queue, given, count>>

Batch == UNION {[1 .. n -> Value] : n \in 0 .. MaxBatch}
Smaller(m, n) == IF m <= n THEN m ELSE n
Front(s, n) == SubSeq(s, 1, n)
Rest(s, n)  == SubSeq(s, n + 1, Len(s))

Init == overwrite \in BOOLEAN /\ queue = << >> /\ given = << >> /\ count = 0

\* An overwriting push gives back the oldest element if it had to go; the other
\* kind gives back its own value if there was no room.
Push(v) ==
    /\ count' = 0
    /\ IF Len(queue) < Capacity
       THEN queue' = Append(queue, v) /\ given' = << >>
       ELSE IF overwrite
       THEN queue' = Append(Tail(queue), v) /\ given' = <<Head(queue)>>
       ELSE queue' = queue /\ given' = <<v>>

\* The newest Capacity elements stay, or the values that fit are added.
PushSlice(values) ==
    /\ given' = << >>
    /\ IF overwrite
       THEN LET all == queue \o values
            IN  /\ queue' = Rest(all, Len(all) - Smaller(Len(all), Capacity))
                /\ count' = Len(values)
       ELSE LET n == Smaller(Len(values), Capacity - Len(queue))
            IN  queue' = queue \o Front(values, n) /\ count' = n

\* pop is PopSlice(1) that returns the element, pop_slice also counts.
Pop ==
    /\ given' = Front(queue, Smaller(1, Len(queue)))
    /\ queue' = Rest(queue, Len(given'))
    /\ count' = 0

\* The oldest element, which stays, and the number of elements
Peek == given' = Front(queue, Smaller(1, Len(queue))) /\ count' = 0 /\ queue' = queue
Length == given' = << >> /\ count' = Len(queue) /\ queue' = queue

PopSlice(n) ==
    /\ given' = Front(queue, Smaller(n, Len(queue)))
    /\ queue' = Rest(queue, Len(given'))
    /\ count' = Len(given')

Clear == queue' = << >> /\ given' = << >> /\ count' = 0

\* An element is changed where it is.
Assign(p, v) ==
    /\ p \in 1 .. Len(queue)
    /\ queue' = [queue EXCEPT ![p] = v]
    /\ given' = << >> /\ count' = 0

Step ==
    \/ \E v \in Value : Push(v)
    \/ \E values \in Batch : PushSlice(values)
    \/ Pop
    \/ Peek
    \/ Length
    \/ \E n \in 0 .. MaxBatch : PopSlice(n)
    \/ Clear
    \/ \E p \in 1 .. Capacity, v \in Value : Assign(p, v)

Next == Step /\ UNCHANGED overwrite

Spec == Init /\ [][Next]_queueVars
=============================================================================
