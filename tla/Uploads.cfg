INIT Init
NEXT Next
CHECK_DEADLOCK FALSE
INVARIANTS
    UploadsAreKnown
