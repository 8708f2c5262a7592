SPECIFICATION Spec
CONSTANTS
    Events = {e1, e2}
    Workers = {w1, w2}
    Mode = "LIVE"
    MaxRetries = 1
    DueLimit = 2
    Concurrency = 2
    MaxRetained = 1
    MaxCrashes = 0
    MaxWriteFailures = 0
    MaxLoadFailures = 0
    MaxCalls = 0
SYMMETRY Symmetry
PROPERTIES DeadLetterWaitsForOperator
CHECK_DEADLOCK FALSE
