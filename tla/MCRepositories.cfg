SPECIFICATION RepositoriesSpec
CONSTANTS
    Reqs = {r1, r2}
    Capacity = 2
    Refill = 2
    Digits = 2
    Second = 1
    MaxClock = 5
    MaxRuns = 3
    ip = ip
    email = email
    bad = bad
    Callers = {c1, c2, c3}
    Keys = {ip, email, bad}
    Limit <- MCLimit
    Window <- MCWindow
    TierLists <- MCTiers
    Calls = {c1, c2, c3}
    Emails = {a, b}
    MaxUsers = 2
    CacheTTL = 1
    WindowClock = 3
    UserClock = 2
    None = None
SYMMETRY Symmetry
INVARIANTS
    TypeOK
    AdmissionBound
    WindowBound
    StrayAccountOnlyFromRace
    StaleCopyExpires
CHECK_DEADLOCK FALSE
