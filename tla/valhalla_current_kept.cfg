SPECIFICATION MCSpec
CONSTANTS
    MaxReleases = 3
    RetainReleases = 2
    MaxFaults = 2
    MaxCrashes = 1
    MaxStarts = 3
    MaxRuns = 2
    MaxKills = 1
INVARIANTS CurrentReleaseKept
CHECK_DEADLOCK FALSE
