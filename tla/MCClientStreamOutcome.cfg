SPECIFICATION Spec
CONSTANTS
    Calls = {c1}
    Kinds = {"client_stream", "server_stream", "bidi_stream"}
INVARIANT
    TerminalOutcomeRecorded
CHECK_DEADLOCK FALSE
