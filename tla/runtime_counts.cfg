SPECIFICATION Spec
CONSTANTS
    Scenarios = {s1}
    Stored = {s1}
    Slots = {c1}
    Duration = 2
    None = None
    MaxCommands = 4
    MaxPatches = 0
    MaxFaults = 0
INVARIANTS CountsScopedToRuntime
CHECK_DEADLOCK FALSE
