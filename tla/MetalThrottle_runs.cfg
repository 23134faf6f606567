CONSTANTS
    Points = 2
    MaxPatchRuns = 4
SPECIFICATION ThrottleSpec
CHECK_DEADLOCK FALSE
INVARIANTS
    OriginalMetalKept
    FullSnapshotConsistent
    RevertRestoresBinary
