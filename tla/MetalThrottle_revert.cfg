CONSTANTS
    Points = 3
    MaxPatchRuns = 3
SPECIFICATION ThrottleSpec
CHECK_DEADLOCK FALSE
INVARIANT
    RevertRestoresPlist
