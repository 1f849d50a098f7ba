CONSTANTS
    Stride = 16384
    Multiples = 4
    Reach = 2
SPECIFICATION Spec
INVARIANT Shift15HalfDown
CHECK_DEADLOCK FALSE
