\* Both kinds of buffer.  Four slots and slices of up to five elements: partial and
\* whole overwrites, batches cut short, at every offset and across the index wrap.
SPECIFICATION Spec
CONSTANTS
    Capacity = 4
    Modulus = 8
    Value = {a, b}
    NoValue = NoValue
    MaxBatch = 5
INVARIANTS
    TypeOK
    SlicesShowContents
    IteratorsMeet
PROPERTIES
    ImplementsQueue
