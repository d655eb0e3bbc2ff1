SPECIFICATION Spec
CONSTANTS
    Calls = {c1, c2}
    Kinds = {"unary", "client_stream", "server_stream", "bidi_stream"}
INVARIANTS
    GaugeCountsOpenStreams
    ReportedEndIsRecorded
    RecvOutcomeIsStatus
PROPERTIES
    ResponseStreamRecorded
CHECK_DEADLOCK FALSE
