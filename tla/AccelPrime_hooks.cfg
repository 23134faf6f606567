SPECIFICATION FairPrimeSpec
CONSTANTS
  N = 5
  Provider <- MCProvider
  Pci = {2}
  Marked <- MCMarked
  HookThreads = {t1, t2}
INVARIANTS
  MarksAnnounced
  RegisteredPrimed
PROPERTY RegistrationsStop
CHECK_DEADLOCK FALSE
