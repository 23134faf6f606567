SPECIFICATION Spec
CONSTANTS
  Sessions = {t1, t2}
  Jobs <- MCJobs
  Entries <- MCEntries
  MaxRuns = 2
  MaxTime = 1
CHECK_DEADLOCK FALSE
INVARIANTS
  OriginalArgsKept
  OriginalKextKept
  MissingOnlyIfCut
  NewArgsNeedNewKext
