\* Two slots, an index of four values, slices of up to three elements: slices
\* that exceed the buffer, wrap at its end and wrap the index all occur.
SPECIFICATION FairSpec
CONSTANTS
    Capacity = 2
    Modulus = 4
    Value = {a, b}
    NoValue = NoValue
    MaxBatch = 3
INVARIANTS
    TypeOK
    NoDataRace
    QueriesAreSafe
    DropAfterJoinIsClean
PROPERTIES
    FailureIsHonest
    ImplementsFifo
    Delivery
    RetriedPushSucceeds
    LoopEnds
CHECK_DEADLOCK FALSE
