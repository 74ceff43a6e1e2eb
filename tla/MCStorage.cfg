\* Capacities 1, 2 and 4; arrays of two and three cells, which hold as much, more or less.
SPECIFICATION Spec
CONSTANTS
    Requests = {0, 2, 3}
    Thresholds = {0, 2, 3}
    Modulus = 8
    Element = {e1, e2, e3, e4}
    Uninit = Uninit
SYMMETRY Names
VIEW WithoutStaleBits
INVARIANTS
    TypeOK
    OneOwner
    AccessIsSound
    MaskIsRemainder
PROPERTIES
    ImplementsOwnedQueue
CHECK_DEADLOCK FALSE
