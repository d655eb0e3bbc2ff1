SPECIFICATION Spec
CONSTANTS
    Tokens = {t1}
    Reqs = {r1}
    Logouts = {l1}
    None = None
    TTL = 3
    Second = 2
    MaxClock = 5
INVARIANT
    LogoutRevokesSession
CHECK_DEADLOCK FALSE
