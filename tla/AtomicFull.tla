----------------------------- MODULE AtomicFull -----------------------------
(***************************************************************************)
(* When a push of a non-overwriting atomic buffer may answer Err: AtomicRing *)
(* with a ghost variable that tells, for every call in progress, whether   *)
(* the buffer was full at some moment since the call began.                *)
(***************************************************************************)
EXTENDS AtomicRing

VARIABLE wasFull

FullInit == Init /\ wasFull = [t \in Thread |-> FALSE]

FullNext ==
    /\ Next
    /\ wasFull' = [t \in Thread |->
          /\ pc'[t] # "idle"
          /\ wasFull[t] \/ writeIdx' - readIdx' >= Capacity]

FullSpec == FullInit /\ [][FullNext]_<<vars, wasFull>>

\* A push that returns Err(value) did so because the buffer was full: at some moment
\* between its call and its return there was no free slot (push, OVERWRITE = false).
ErrMeansFull ==
    [][\A t \in Producers : (pc[t] = "push_write" /\ pc'[t] = "idle") => wasFull[t]]_<<vars, wasFull>>
=============================================================================
