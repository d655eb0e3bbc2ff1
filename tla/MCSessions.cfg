SPECIFICATION Spec
CONSTANTS
    Tokens = {t1}
    Reqs = {r1, r2}
    Logouts = {l1, l2}
    None = None
    TTL = 3
    Second = 2
    MaxClock = 6
SYMMETRY Symmetry
INVARIANTS
    NotAcceptedAfterTTL
    RevokedSessionRejected
    LiveSessionKept
CHECK_DEADLOCK FALSE
