\* Liveness with two producers competing for slots that may run out; the consumer also asks.
SPECIFICATION FairSpec
CONSTANTS
    p1 = p1
    p2 = p2
    c1 = c1
    c2 = c2
    Producers = {p1, p2}
    Consumers = {c1}
    Clearers = {}
    Observers = {}
    Queriers = {c1}
    Accessors = {}
    Overwrite = FALSE
    PushOrders = {"Relaxed"}
    LoadOrders = {"Relaxed"}
    Fresh = {0}
    MaxPush = 4
    MaxAdd = 0
    Width = 5
    Capacity = 2
    Modulus = 16
    Never = Never
INVARIANTS
    QueriesAreSafe
PROPERTIES
    Drained
    NoneIsHonest
