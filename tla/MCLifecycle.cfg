SPECIFICATION Spec
CONSTANTS
    Handlers = {h1, h2}
INVARIANTS
    TypeOK
    ExitReleasesEverything
    CleanExit
    ClosedResourceUseReported
PROPERTIES
    AcceptNeedsResources
    Terminates
CHECK_DEADLOCK FALSE
