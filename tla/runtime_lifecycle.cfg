SPECIFICATION FairSpec
CONSTANTS
    Scenarios = {s1, s2}
    Stored = {s1}
    Slots = {c1}
    Duration = 1
    None = None
    MaxCommands = 4
    MaxPatches = 1
    MaxFaults = 1
INVARIANTS TypeOK NoCountLost 
 
CHECK_DEADLOCK FALSE
