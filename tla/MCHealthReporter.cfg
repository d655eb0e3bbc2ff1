SPECIFICATION Spec
CONSTANTS
    Stoppers = {a, b}
INVARIANTS
    TypeOK
    NoCheckAfterShutdown
    NotServingAfterShutdown
    EndedRunNeverTimesOut
PROPERTIES
    ShutdownReturns
    StatusFollowsReadiness
CHECK_DEADLOCK FALSE
