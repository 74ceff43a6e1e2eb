\* The only producer, overwriting, iterates, asks and adds to elements, beside a consumer
\* that also observes.
SPECIFICATION Spec
CONSTANTS
    p1 = p1
    p2 = p2
    c1 = c1
    c2 = c2
    Producers = {p1}
    Consumers = {c1}
    Clearers = {p1}
    Observers = {c1}
    Queriers = {p1}
    Accessors = {p1}
    Overwrite = TRUE
    PushOrders = {"SeqCst"}
    LoadOrders = {"SeqCst"}
    Fresh = {0}
    MaxPush = 4
    MaxAdd = 2
    Width = 20
    Capacity = 2
    Modulus = 16
    Never = Never
INVARIANTS
    PublishedIsIntact
    SnapshotIsPrefix
    QueriesAreSafe
    OverwriteIsReported
