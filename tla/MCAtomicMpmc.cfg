\* Two producers and two consumers, three laps of a two-slot buffer, with orderings of
\* which some make the store or the load panic.
SPECIFICATION Spec
CONSTANTS
    p1 = p1
    p2 = p2
    c1 = c1
    c2 = c2
    Producers = {p1, p2}
    Consumers = {c1, c2}
    Clearers = {}
    Observers = {}
    Queriers = {}
    Accessors = {}
    Overwrite = FALSE
    PushOrders = {"Relaxed", "AcqRel"}
    LoadOrders = {"Relaxed", "Release"}
    Fresh = {0}
    MaxPush = 6
    MaxAdd = 0
    Width = 7
    Capacity = 2
    Modulus = 16
    Never = Never
SYMMETRY ThreadSymmetry
INVARIANTS
    TypeOK
    PublishedIsIntact
    ExactlyOnce
    DeliveredInOrder
    HeadIsPoppable
PROPERTIES
    ImplementsAtomicQueue
