SPECIFICATION Spec
CONSTANTS
    Emails = {e1}
    Codes = {c1, c2}
    Sends = {s1, s2}
    Verifies = {v1, v2}
    None = None
    TTL = 2
    MaxWrites = 2
    MaxClock = 2
SYMMETRY Symmetry
INVARIANTS
    CodeConsumedOnce
    SessionHasAccountAndCode
    DisabledAccountGetsNoSession
PROPERTIES
    CodesAreOneTime
    SentCodeLossExplained
CHECK_DEADLOCK FALSE
