SPECIFICATION Spec
CONSTANTS
    Events = {e1}
    Workers = {w1, w2}
    Mode = "LIVE"
    MaxRetries = 2
    DueLimit = 1
    Concurrency = 1
    MaxRetained = 0
    MaxCrashes = 1
    MaxWriteFailures = 1
    MaxLoadFailures = 1
    MaxCalls = 2
SYMMETRY Symmetry
INVARIANTS TypeOK DurableUntilDelivered RecordedBeforeSent DeliveredMeansTaken
 
CHECK_DEADLOCK FALSE
