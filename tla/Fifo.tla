-------------------------------- MODULE Fifo --------------------------------
(***************************************************************************)
(* What a single-producer single-consumer buffer promises its two users: a *)
(* bounded first-in first-out queue.  The producer hands over a batch that *)
(* fits, then the whole batch appears in the queue in one step, in order.  *)
(* The consumer takes elements one by one from the head and then gives     *)
(* their places back, in one step.  Nothing is lost, duplicated, altered   *)
(* or reordered, and both users may be in the middle of a call at once.    *)
(***************************************************************************)
EXTENDS Integers, Sequences

CONSTANTS Capacity, Value

VARIABLES queue,    \* the elements pushed and not yet given back
          pushing,  \* the batch the producer has handed over, << >> if none
          taking    \* the elements the consumer has taken in its current call

fifoVars == <<queue, pushing, taking>>

Init == queue = << >> /\ pushing = << >> /\ taking = << >>

\* The producer starts a push of a batch that fits beside what is queued.
Offer ==
    /\ pushing = << >>
    /\ pushing' \in Seq(Value) \ {<< >>}
    /\ Len(queue) + Len(pushing') <= Capacity
    /\ UNCHANGED <<queue, taking>>

\* The batch becomes visible, at once and behind everything queued before.
Enqueue ==
    /\ pushing # << >>
    /\ queue' = queue \o pushing
    /\ pushing' = << >>
    /\ UNCHANGED taking

\* The consumer takes the first element it has not taken yet.
Take ==
    /\ Len(taking) < Len(queue)
    /\ taking' = Append(taking, queue[Len(taking) + 1])
    /\ UNCHANGED <<queue, pushing>>

\* The elements taken leave the queue.
Remove ==
    /\ taking # << >>
    /\ queue' = SubSeq(queue, Len(taking) + 1, Len(queue))
    /\ taking' = << >>
    /\ UNCHANGED pushing

Next == Offer \/ Enqueue \/ Take \/ Remove

Spec == Init /\ [][Next]_fifoVars

=============================================================================
