\* The README's account of clean-up against what the code does.
SPECIFICATION Spec
CONSTANTS
    Capacity = 2
    Modulus = 4
    Value = {a}
    NoValue = NoValue
    MaxBatch = 1
INVARIANTS
    NothingLeaks
CHECK_DEADLOCK FALSE
