SPECIFICATION Spec
CONSTANTS
    Events = {e1}
    Workers = {w1}
    Mode = "LIVE"
    MaxRetries = 2
    DueLimit = 1
    Concurrency = 1
    MaxRetained = 1
    MaxCrashes = 0
    MaxWriteFailures = 0
    MaxLoadFailures = 0
    MaxCalls = 0

PROPERTIES DuplicateIsNotLoss
CHECK_DEADLOCK FALSE
