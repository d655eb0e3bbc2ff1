SPECIFICATION Spec
CONSTANTS
    Unset = Unset
    Empty = Empty
    Blank = Blank
    Garbage = Garbage
    NaN = NaN
    Rejected = Rejected
    BuildFailed = BuildFailed
    None = None
    Int32Bits = 5
INVARIANTS
    TypeOK
    TelemetryMatchesWire
    ServerFailureMarked
    ContextErrorAnswered
    CallsBounded
    IdentityVerified
PROPERTIES
    RequestEnds
CHECK_DEADLOCK FALSE
