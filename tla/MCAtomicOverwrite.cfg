\* One overwriting producer, which also clears, racing two consumers for the oldest
\* element, while one of them looks on by peek and read_all.  The slots are uninitialised
\* and happen to hold what looks like the last element pushed.
SPECIFICATION Spec
CONSTANTS
    p1 = p1
    p2 = p2
    c1 = c1
    c2 = c2
    Producers = {p1}
    Consumers = {c1, c2}
    Clearers = {p1}
    Observers = {c2}
    Queriers = {}
    Accessors = {}
    Overwrite = TRUE
    PushOrders = {"Release", "AcqRel"}
    LoadOrders = {"Acquire"}
    Fresh = {5}
    MaxPush = 5
    MaxAdd = 0
    Width = 6
    Capacity = 2
    Modulus = 16
    Never = Never
INVARIANTS
    PublishedIsIntact
    ExactlyOnce
    HeadIsPoppable
    SnapshotIsPrefix
PROPERTIES
    IndicesAreMonotone
    OverwroteAnElement
    ImplementsAtomicQueue
