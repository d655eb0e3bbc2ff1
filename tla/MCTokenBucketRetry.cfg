SPECIFICATION Spec
CONSTANTS
    Reqs = {r1, r2}
    Capacity = 2
    Refill = 3
    Digits = 10
    Second = 1
    MaxClock = 6
    MaxRuns = 6
SYMMETRY Symmetry
INVARIANTS
    RetryAfterSuffices
CHECK_DEADLOCK FALSE
