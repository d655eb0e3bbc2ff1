SPECIFICATION Spec
CONSTANTS
    Unset = Unset
    Empty = Empty
    Blank = Blank
    Garbage = Garbage
    NaN = NaN
    Rejected = Rejected
    BuildFailed = BuildFailed
    None = None
    Int32Bits = 5
INVARIANTS
    ClientFailureUnmarked
CHECK_DEADLOCK FALSE
