\* One overwriting producer and a consumer that also clears: what a push reports.
SPECIFICATION Spec
CONSTANTS
    p1 = p1
    p2 = p2
    c1 = c1
    c2 = c2
    Producers = {p1}
    Consumers = {c1}
    Clearers = {c1}
    Observers = {}
    Queriers = {}
    Accessors = {}
    Overwrite = TRUE
    PushOrders = {"SeqCst"}
    LoadOrders = {"SeqCst"}
    Fresh = {0}
    MaxPush = 3
    MaxAdd = 0
    Width = 4
    Capacity = 2
    Modulus = 16
    Never = Never
PROPERTIES
    OverwroteAnElement
