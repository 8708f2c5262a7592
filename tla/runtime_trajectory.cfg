SPECIFICATION Spec
CONSTANTS
    Scenarios = {s1}
    Stored = {s1}
    Slots = {c1}
    Duration = 3
    None = None
    MaxCommands = 5
    MaxPatches = 0
    MaxFaults = 0
PROPERTIES TrajectoryMovesForward
CHECK_DEADLOCK FALSE
