SPECIFICATION Spec
CONSTANTS
    Browsers = {b1, b2}
    Flows = {f1, f2}
    Callbacks = {k1, k2}
    None = None
    TTL = 2
    MaxClock = 3
SYMMETRY Symmetry
INVARIANTS
    StateExchangedOnce
    SessionBoundToBrowser
    UndisturbedFlowLogsIn
PROPERTIES
    StatesAreOneTime
CHECK_DEADLOCK FALSE
