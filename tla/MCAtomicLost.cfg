\* Two overwriting producers: what a push reports.
SPECIFICATION Spec
CONSTANTS
    p1 = p1
    p2 = p2
    c1 = c1
    c2 = c2
    Producers = {p1, p2}
    Consumers = {}
    Clearers = {}
    Observers = {}
    Queriers = {}
    Accessors = {}
    Overwrite = TRUE
    PushOrders = {"SeqCst"}
    LoadOrders = {"SeqCst"}
    Fresh = {0}
    MaxPush = 4
    MaxAdd = 0
    Width = 5
    Capacity = 2
    Modulus = 16
    Never = Never
INVARIANTS
    OverwriteIsReported
CHECK_DEADLOCK FALSE
