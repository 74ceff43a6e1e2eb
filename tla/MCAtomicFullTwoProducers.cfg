\* Err with two producers: the index loaded first may be out of date.
SPECIFICATION FullSpec
CONSTANTS
    p1 = p1
    p2 = p2
    c1 = c1
    c2 = c2
    Producers = {p1, p2}
    Consumers = {c1}
    Clearers = {}
    Observers = {}
    Queriers = {}
    Accessors = {}
    Overwrite = FALSE
    PushOrders = {"Relaxed"}
    LoadOrders = {"Relaxed"}
    Fresh = {0}
    MaxPush = 4
    MaxAdd = 0
    Width = 5
    Capacity = 2
    Modulus = 16
    Never = Never
PROPERTIES
    ErrMeansFull
