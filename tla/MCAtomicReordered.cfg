\* One overwriting producer and one consumer with the Relaxed ordering of the loom test.
SPECIFICATION Spec
CONSTANTS
    p1 = p1
    p2 = p2
    c1 = c1
    c2 = c2
    Producers = {p1}
    Consumers = {c1}
    Clearers = {}
    Observers = {}
    Queriers = {}
    Accessors = {}
    Overwrite = TRUE
    PushOrders = {"Relaxed"}
    LoadOrders = {"Relaxed"}
    Fresh = {0}
    MaxPush = 4
    MaxAdd = 0
    Width = 5
    Capacity = 2
    Modulus = 16
    Never = Never
INVARIANTS
    ExactlyOnce
