SPECIFICATION Spec
CONSTANTS
    Calls = {a, b, c}
    Kinds = {"complete", "structured", "stream"}
    MaxCalls = 2
    MaxConcurrency = 1
    MaxStreams = 1
    MaxRetries = 2
    Rounds = 2
CHECK_DEADLOCK FALSE
INVARIANTS
    TypeOK
    NothingLeaks
    CompletionsWithinCeiling
PROPERTY
    CallsEnd
