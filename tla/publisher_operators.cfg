SPECIFICATION Spec
CONSTANTS
    Events = {e1, e2}
    Workers = {w1, w2}
    Mode = "LIVE"
    MaxRetries = 1
    DueLimit = 1
    Concurrency = 1
    MaxRetained = 1
    MaxCrashes = 1
    MaxWriteFailures = 0
    MaxLoadFailures = 0
    MaxCalls = 1
SYMMETRY Symmetry
INVARIANTS SendingIsOwned
PROPERTIES  StopHolds
CHECK_DEADLOCK FALSE
